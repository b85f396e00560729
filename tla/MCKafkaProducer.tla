-------------------------- MODULE MCKafkaProducer ---------------------------
(* Instances of KafkaProducer for TLC: the event loop and threads of the   *)
(* default executor, with messages and bad rows.                           *)
EXTENDS KafkaProducer

CONSTANTS m1, m2, m3, loop, pool1, pool2, io
=============================================================================
