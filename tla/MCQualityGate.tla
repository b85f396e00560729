--------------------------- MODULE MCQualityGate ----------------------------
(* Instances of QualityGate for TLC.                                       *)
EXTENDS QualityGate

Good(t) == [parsed |-> TRUE, critical |-> FALSE, signs |-> {"ok"}, book |-> "ordered", time |-> t]
Malformed == [parsed |-> FALSE, critical |-> TRUE, signs |-> {"null"}, book |-> "null", time |-> NoTime]

\* A row that does not parse, and one that is late unless it is read soon.
MCTopic == <<Malformed, Good(1)>>

\* A row without the optional column message_count.
MCNullTopic == <<[Good(0) EXCEPT !.signs = {"ok", "null"}]>>

MCModes == {"shadow", "observe", "strict"}
=============================================================================
