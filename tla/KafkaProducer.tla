--------------------------- MODULE KafkaProducer ----------------------------
(***************************************************************************)
(* KafkaProducerWrapper (common/kafka_utils.py): the one Kafka producer of *)
(* a collector process, shared by the event loop and by the threads of its *)
(* default executor.  send() and send_bad_row() return before the broker   *)
(* has answered; a delivery callback records the outcome, and a record     *)
(* that could not be delivered goes to the dead-letter topic or, if that   *)
(* is impossible, to a local file.                                         *)
(*                                                                         *)
(* With the "kafka-python" backend the I/O thread of the library runs the  *)
(* callbacks; with "confluent" they run inside the poll() and flush()      *)
(* calls of whoever makes them, callbacks of other messages included.  The *)
(* two libraries and the broker are external: they are modelled from how   *)
(* the wrapper uses them.                                                  *)
(***************************************************************************)
EXTENDS Integers, FiniteSets

CONSTANTS
  Messages,         \* values handed to the wrapper, each once
  Threads,          \* callers: the event loop and the executor's threads
  Main,             \* the event loop, where close() is called
  IO,               \* the I/O thread of kafka-python
  Backends,         \* producer libraries that may be installed
  FlushMayTimeOut,  \* whether flush() may give up
  MaxFaults,        \* bound: refused produces, failed deliveries and file writes
  MaxFlushes        \* bound: flush() calls of collectors that start up

ASSUME ConstantsAssumption ==
  /\ Main \in Threads /\ IO \notin Threads
  /\ Backends \subseteq {"kafka-python", "confluent"}
  /\ FlushMayTimeOut \in BOOLEAN
  /\ MaxFaults \in Nat /\ MaxFlushes \in Nat

VARIABLES
  backend,      \* the library in use: chosen when the wrapper is built
  todo,         \* messages not yet handed to the wrapper
  frames,       \* activations of the wrapper's methods and callbacks
  closed,       \* _closed
  inCallback,   \* _in_delivery_callback
  pending,      \* _pending_deliveries
  \* the producer library and the broker
  queue,        \* records the broker has not answered yet
  attached,     \* records whose callbacks are attached (kafka-python)
  reports,      \* outcomes no callback has been run for
  shut,         \* the library's close() was called (kafka-python)
  topic,        \* messages in their topic
  dlqTopic,     \* messages in the dead-letter topic
  \* this side
  fallback,     \* messages in the local fallback file
  refused,      \* messages rejected because the producer was closed
  dropped,      \* messages whose fallback could not be written either
  ended,        \* the process has exited
  \* bounds and history
  faults, flushes,
  dlqSent       \* dlqSent[m]: dead-letter records produced for m

library == <<queue, attached, reports, shut, topic, dlqTopic>>
places  == <<fallback, refused, dropped>>
vars    == <<backend, todo, frames, closed, inCallback, pending, library, places, ended,
             faults, flushes, dlqSent>>

Confluent == backend = "confluent"

Records == [m : Messages, dlq : BOOLEAN]
Reports == [m : Messages, dlq : BOOLEAN, ok : BOOLEAN]

(* An activation: thread t, at depth d of its stack, executes op for m and *)
(* is at `at`; ok and seen are locals of a delivery callback.              *)
Locations == {"start", "produce", "count", "poll", "retry_poll", "retry_produce", "attach",
              "callback", "decrement", "handle", "dlq", "dlq_poll", "dlq_attach",
              "fallback_in_try", "fallback", "leave"}
MessageFrames ==
  [t : Threads \cup {IO}, d : Nat, op : {"send", "send_bad_row", "on_delivery", "dlq_delivery"},
   m : Messages, at : Locations, ok : BOOLEAN, seen : Nat]
FlushFrames ==
  [t : Threads \cup {IO}, d : Nat, op : {"flush", "close"},
   m : {"none"}, at : {"flush", "join"}, ok : BOOLEAN, seen : Nat]
Frames == MessageFrames \cup FlushFrames

-----------------------------------------------------------------------------
Init ==
  /\ backend \in Backends
  /\ todo = Messages /\ frames = {}
  /\ closed = FALSE /\ inCallback = FALSE /\ pending = 0
  /\ queue = {} /\ attached = {} /\ reports = {} /\ shut = FALSE
  /\ topic = {} /\ dlqTopic = {}
  /\ fallback = {} /\ refused = {} /\ dropped = {} /\ ended = FALSE
  /\ faults = 0 /\ flushes = 0
  /\ dlqSent = [m \in Messages |-> 0]

(* Only the innermost activation of a thread runs.                         *)
Runs(f) == f \in frames /\ \A g \in frames : g.t = f.t => g.d <= f.d

Idle(t) == ~ended /\ \A f \in frames : f.t # t

Activation(t, d, op, m, at, ok) ==
  [t |-> t, d |-> d, op |-> op, m |-> m, at |-> at, ok |-> ok, seen |-> 0]

Push(f) == frames' = frames \cup {f}
Goto(f, l) == frames' = (frames \ {f}) \cup {[f EXCEPT !.at = l]}
Return(f) == frames' = frames \ {f}

(* The end of the work for a message: on_delivery of the confluent backend *)
(* still has to leave its try statement.                                   *)
Finish(f) == IF f.op = "on_delivery" /\ Confluent THEN Goto(f, "leave") ELSE Return(f)

Fault == faults < MaxFaults /\ faults' = faults + 1

(* A call of the library raises: always once it is closed.                 *)
LibraryRaises == IF shut THEN UNCHANGED faults ELSE Fault

-----------------------------------------------------------------------------
(* send() and send_bad_row().                                              *)

(* A thread starts to execute the call for m: send(), or send_bad_row() if *)
(* the caller found it malformed.                                          *)
Call(t, m, op) ==
  /\ Idle(t) /\ m \in todo
  /\ todo' = todo \ {m}
  /\ Push(Activation(t, 0, op, m, "start", FALSE))
  /\ UNCHANGED <<closed, inCallback, pending, library, places, ended, faults, flushes, dlqSent>>

(* send() on a closed producer only counts a failure.                      *)
SendChecks(f) ==
  /\ Runs(f) /\ f.op = "send" /\ f.at = "start"
  /\ IF closed THEN Return(f) /\ refused' = refused \cup {f.m}
               ELSE Goto(f, "produce") /\ UNCHANGED refused
  /\ UNCHANGED <<todo, closed, inCallback, pending, library, fallback, dropped, ended,
                 faults, flushes, dlqSent>>

(* send_bad_row() on a closed producer writes the fallback file.           *)
BadRowChecks(f) ==
  /\ Runs(f) /\ f.op = "send_bad_row" /\ f.at = "start"
  /\ Goto(f, IF closed THEN "fallback" ELSE "dlq")
  /\ UNCHANGED <<todo, closed, inCallback, pending, library, places, ended, faults, flushes, dlqSent>>

(* The record is in the library's queue.                                   *)
Produce(f) ==
  /\ Runs(f) /\ f.at \in {"produce", "retry_produce"} /\ ~shut
  /\ queue' = queue \cup {[m |-> f.m, dlq |-> FALSE]}
  /\ Goto(f, "count")
  /\ UNCHANGED <<todo, closed, inCallback, pending, attached, reports, shut, topic, dlqTopic,
                 places, ended, faults, flushes, dlqSent>>

(* The library's queue is full: confluent raises BufferError, and the      *)
(* wrapper polls and tries once more.                                      *)
BufferFull(f) ==
  /\ Runs(f) /\ f.at = "produce" /\ Confluent /\ Fault
  /\ Goto(f, "retry_poll")
  /\ UNCHANGED <<todo, closed, inCallback, pending, library, places, ended, flushes, dlqSent>>

(* Mutant: an exception of the library is logged and forgotten.            *)
ProduceRaisesForgotten(f) ==
  /\ Runs(f) /\ f.at \in {"produce", "retry_produce"} /\ LibraryRaises
  /\ Return(f)
  /\ UNCHANGED <<todo, closed, inCallback, pending, library, places, ended, flushes, dlqSent>>

ProduceRaises(f) ==
  /\ Runs(f) /\ f.at \in {"produce", "retry_produce"} /\ LibraryRaises
  /\ Goto(f, "handle")
  /\ UNCHANGED <<todo, closed, inCallback, pending, library, places, ended, flushes, dlqSent>>

_increment_pending(f) ==
  /\ Runs(f) /\ f.at = "count"
  /\ pending' = pending + 1
  /\ Goto(f, IF Confluent THEN "poll" ELSE "attach")
  /\ UNCHANGED <<todo, closed, inCallback, library, places, ended, faults, flushes, dlqSent>>

-----------------------------------------------------------------------------
(* Delivery callbacks.                                                     *)

(* Mutant: a failed dead letter is handled like any failed record.         *)
CallbackHandlesDlq(t, d, r) ==
  IF r.dlq THEN Activation(t, d, "dlq_delivery", r.m, "handle", r.ok)
           ELSE Activation(t, d, "on_delivery", r.m, "callback", r.ok)

(* The activation that handles report r at depth d of thread t.            *)
CallbackOf(t, d, r) ==
  IF r.dlq THEN Activation(t, d, "dlq_delivery", r.m, "fallback", r.ok)
           ELSE Activation(t, d, "on_delivery", r.m, "callback", r.ok)

(* A delivered dead letter only updates a metric.                          *)
MetricOnly(r) == r.dlq /\ r.ok

(* confluent: poll() and flush() run the callbacks of any reports.         *)
ServeReport(f, r) ==
  /\ Confluent /\ Runs(f) /\ f.at \in {"poll", "retry_poll", "dlq_poll", "flush"}
  /\ r \in reports
  /\ reports' = reports \ {r}
  /\ IF MetricOnly(r) THEN UNCHANGED frames ELSE Push(CallbackOf(f.t, f.d + 1, r))
  /\ UNCHANGED <<todo, closed, inCallback, pending, queue, attached, shut, topic, dlqTopic,
                 places, ended, faults, flushes, dlqSent>>

(* poll(0) returns at once, poll(0.05) before the second attempt.          *)
PollReturns(f) ==
  /\ Runs(f) /\ f.at \in {"poll", "retry_poll", "dlq_poll"}
  /\ CASE f.at = "poll" -> Return(f)
       [] f.at = "retry_poll" -> Goto(f, "retry_produce")
       [] f.at = "dlq_poll" -> Finish(f)
  /\ UNCHANGED <<todo, closed, inCallback, pending, library, places, ended, faults, flushes, dlqSent>>

(* kafka-python: callbacks are attached to the future of the record.  If   *)
(* it is done already they run now, in this thread.                        *)
_add_delivery_callbacks(f) ==
  /\ Runs(f) /\ f.at \in {"attach", "dlq_attach"}
  /\ LET rec == [m |-> f.m, dlq |-> f.at = "dlq_attach"]
         done == {r \in reports : r.m = rec.m /\ r.dlq = rec.dlq}
     IN  /\ reports' = reports \ done
         /\ IF done = {} THEN attached' = attached \cup {rec} /\ Return(f)
            ELSE /\ UNCHANGED attached
                 /\ \E r \in done :
                      IF MetricOnly(r) THEN Return(f)
                      ELSE frames' = (frames \ {f}) \cup {CallbackOf(f.t, f.d, r)}
  /\ UNCHANGED <<todo, closed, inCallback, pending, queue, shut, topic, dlqTopic, places,
                 ended, faults, flushes, dlqSent>>

(* Mutant: the I/O thread stops as soon as close() is called.              *)
IOServesUntilClosed(r) ==
  /\ ~Confluent /\ ~closed /\ Idle(IO) /\ r \in reports /\ [m |-> r.m, dlq |-> r.dlq] \in attached
  /\ reports' = reports \ {r}
  /\ IF MetricOnly(r) THEN UNCHANGED frames ELSE Push(CallbackOf(IO, 0, r))
  /\ UNCHANGED <<todo, closed, inCallback, pending, queue, attached, shut, topic, dlqTopic,
                 places, ended, faults, flushes, dlqSent>>

(* kafka-python: the I/O thread runs the callbacks one after the other.    *)
IOServes(r) ==
  /\ ~Confluent /\ Idle(IO) /\ r \in reports /\ [m |-> r.m, dlq |-> r.dlq] \in attached
  /\ reports' = reports \ {r}
  /\ IF MetricOnly(r) THEN UNCHANGED frames ELSE Push(CallbackOf(IO, 0, r))
  /\ UNCHANGED <<todo, closed, inCallback, pending, queue, attached, shut, topic, dlqTopic,
                 places, ended, faults, flushes, dlqSent>>

(* on_delivery sets the flag that all the threads share, and computes the  *)
(* new value of the counter ...                                            *)
OnDelivery(f) ==
  /\ Runs(f) /\ f.at = "callback"
  /\ inCallback' = (inCallback \/ Confluent)
  /\ frames' = (frames \ {f}) \cup {[f EXCEPT !.at = "decrement", !.seen = pending]}
  /\ UNCHANGED <<todo, closed, pending, library, places, ended, faults, flushes, dlqSent>>

(* Mutant: the counter is not kept from going below zero.                  *)
DecrementUnclamped(f) ==
  /\ Runs(f) /\ f.at = "decrement"
  /\ pending' = f.seen - 1
  /\ IF f.ok THEN Finish(f) ELSE Goto(f, "handle")
  /\ UNCHANGED <<todo, closed, inCallback, library, places, ended, faults, flushes, dlqSent>>

(* ... and stores it: the interpreter may switch threads at the call of    *)
(* max() in between.                                                       *)
_decrement_pending(f) ==
  /\ Runs(f) /\ f.at = "decrement"
  /\ pending' = IF f.seen > 1 THEN f.seen - 1 ELSE 0
  /\ IF f.ok THEN Finish(f) ELSE Goto(f, "handle")
  /\ UNCHANGED <<todo, closed, inCallback, library, places, ended, faults, flushes, dlqSent>>

LeaveCallback(f) ==
  /\ Runs(f) /\ f.at = "leave"
  /\ inCallback' = FALSE
  /\ Return(f)
  /\ UNCHANGED <<todo, closed, pending, library, places, ended, faults, flushes, dlqSent>>

-----------------------------------------------------------------------------
(* Failures.                                                               *)

(* A confluent callback must not produce: it goes straight to the file.    *)
_handle_delivery_failure(f) ==
  /\ Runs(f) /\ f.at = "handle"
  /\ Goto(f, IF Confluent /\ inCallback THEN "fallback_in_try" ELSE "dlq")
  /\ UNCHANGED <<todo, closed, inCallback, pending, library, places, ended, faults, flushes, dlqSent>>

ProduceDlq(f) ==
  /\ Runs(f) /\ f.at = "dlq" /\ ~shut
  /\ queue' = queue \cup {[m |-> f.m, dlq |-> TRUE]}
  /\ dlqSent' = [dlqSent EXCEPT ![f.m] = @ + 1]
  /\ Goto(f, IF Confluent THEN "dlq_poll" ELSE "dlq_attach")
  /\ UNCHANGED <<todo, closed, inCallback, pending, attached, reports, shut, topic, dlqTopic,
                 places, ended, faults, flushes>>

ProduceDlqRaises(f) ==
  /\ Runs(f) /\ f.at = "dlq" /\ LibraryRaises
  /\ Goto(f, "fallback")
  /\ UNCHANGED <<todo, closed, inCallback, pending, library, places, ended, flushes, dlqSent>>

write_bad_row_fallback(f) ==
  /\ Runs(f) /\ f.at \in {"fallback_in_try", "fallback"}
  /\ fallback' = fallback \cup {f.m}
  /\ Finish(f)
  /\ UNCHANGED <<todo, closed, inCallback, pending, library, refused, dropped, ended,
                 faults, flushes, dlqSent>>

(* A failed write inside the try statement is tried once more.             *)
FallbackRaises(f) ==
  /\ Runs(f) /\ f.at \in {"fallback_in_try", "fallback"} /\ Fault
  /\ IF f.at = "fallback_in_try" THEN Goto(f, "fallback") /\ UNCHANGED dropped
                                 ELSE Finish(f) /\ dropped' = dropped \cup {f.m}
  /\ UNCHANGED <<todo, closed, inCallback, pending, library, fallback, refused, ended,
                 flushes, dlqSent>>

-----------------------------------------------------------------------------
(* flush() and close().                                                    *)

(* A collector that starts up flushes after each of its first messages.    *)
Flush(t) ==
  /\ Idle(t) /\ flushes < MaxFlushes
  /\ flushes' = flushes + 1
  /\ Push(Activation(t, 0, "flush", "none", "flush", FALSE))
  /\ UNCHANGED <<todo, closed, inCallback, pending, library, places, ended, faults, dlqSent>>

(* The first collector or poller that stops closes the producer of all.    *)
Close ==
  /\ Idle(Main) /\ ~closed
  /\ closed' = TRUE
  /\ Push(Activation(Main, 0, "close", "none", "flush", FALSE))
  /\ UNCHANGED <<todo, inCallback, pending, library, places, ended, faults, flushes, dlqSent>>

Flushed == queue = {} /\ (Confluent => reports = {})

(* Mutant: close() only flushes, with either backend.                      *)
CloseOnlyFlushes(f) ==
  /\ Runs(f) /\ f.at = "flush"
  /\ Flushed \/ FlushMayTimeOut
  /\ Return(f)
  /\ UNCHANGED <<todo, closed, inCallback, pending, library, places, ended, faults, flushes, dlqSent>>

(* flush() ends; close() goes on to close a kafka-python producer.         *)
FlushReturns(f) ==
  /\ Runs(f) /\ f.at = "flush"
  /\ Flushed \/ FlushMayTimeOut
  /\ IF f.op = "close" /\ ~Confluent
     THEN Goto(f, "join") /\ shut' = TRUE
     ELSE Return(f) /\ UNCHANGED shut
  /\ UNCHANGED <<todo, closed, inCallback, pending, queue, attached, reports, topic, dlqTopic,
                 places, ended, faults, flushes, dlqSent>>

(* close() of kafka-python waits for the I/O thread, which answers or      *)
(* aborts what is left.                                                    *)
Join(f) ==
  /\ Runs(f) /\ f.at = "join"
  /\ queue = {} /\ Idle(IO) /\ \A r \in reports : [m |-> r.m, dlq |-> r.dlq] \notin attached
  /\ Return(f)
  /\ UNCHANGED <<todo, closed, inCallback, pending, library, places, ended, faults, flushes, dlqSent>>

(* The process exits after the producer was closed and the threads of the  *)
(* executor have finished.                                                 *)
Exit ==
  /\ ~ended /\ closed /\ frames = {}
  /\ ended' = TRUE
  /\ UNCHANGED <<todo, frames, closed, inCallback, pending, library, places, faults, flushes, dlqSent>>

-----------------------------------------------------------------------------
(* The broker answers.  A failed delivery may have reached the log.        *)

Reach(rec) ==
  /\ topic' = IF rec.dlq THEN topic ELSE topic \cup {rec.m}
  /\ dlqTopic' = IF rec.dlq THEN dlqTopic \cup {rec.m} ELSE dlqTopic

Answer(rec, ok) ==
  /\ ~ended /\ rec \in queue
  /\ queue' = queue \ {rec}
  /\ reports' = reports \cup {[m |-> rec.m, dlq |-> rec.dlq, ok |-> ok]}
  /\ UNCHANGED <<todo, frames, closed, inCallback, pending, attached, shut, places, ended,
                 flushes, dlqSent>>

BrokerAcks(rec) == Answer(rec, TRUE) /\ Reach(rec) /\ UNCHANGED faults

DeliveryFails(rec, reached) ==
  /\ LibraryRaises
  /\ Answer(rec, FALSE)
  /\ IF reached THEN Reach(rec) ELSE UNCHANGED <<topic, dlqTopic>>

-----------------------------------------------------------------------------
Step(f) ==
  \/ SendChecks(f) \/ BadRowChecks(f) \/ Produce(f) \/ BufferFull(f) \/ ProduceRaises(f)
  \/ _increment_pending(f) \/ PollReturns(f) \/ _add_delivery_callbacks(f)
  \/ OnDelivery(f) \/ _decrement_pending(f) \/ LeaveCallback(f)
  \/ _handle_delivery_failure(f) \/ ProduceDlq(f) \/ ProduceDlqRaises(f)
  \/ write_bad_row_fallback(f) \/ FallbackRaises(f) \/ FlushReturns(f) \/ Join(f)
  \/ \E r \in reports : ServeReport(f, r)

Act ==
  \/ \E t \in Threads :
       Flush(t) \/ \E m \in todo, op \in {"send", "send_bad_row"} : Call(t, m, op)
  \/ \E f \in frames : Step(f)
  \/ \E r \in reports : IOServes(r)
  \/ \E rec \in queue : BrokerAcks(rec) \/ \E reached \in BOOLEAN : DeliveryFails(rec, reached)
  \/ Close \/ Exit

Next == Act /\ UNCHANGED backend

Spec == Init /\ [][Next]_vars

(* Threads run, and every record is answered: the library fails it when    *)
(* its delivery timeout has passed.                                        *)
Runnable(t) == \E f \in frames : f.t = t /\ Step(f)
Served   == \E r \in reports : IOServes(r)
Answered == \E rec \in queue : BrokerAcks(rec) \/ \E reached \in BOOLEAN : DeliveryFails(rec, reached)

Fairness ==
  /\ \A t \in Threads \cup {IO} : WF_vars(Runnable(t) /\ UNCHANGED backend)
  /\ WF_vars(Served /\ UNCHANGED backend)
  /\ WF_vars(Answered /\ UNCHANGED backend)

FairSpec == Spec /\ Fairness

-----------------------------------------------------------------------------
(* Properties.                                                             *)

(* Every variable keeps its type.                                          *)
TypeOK ==
  /\ backend \in Backends
  /\ todo \subseteq Messages
  /\ frames \subseteq Frames
  /\ closed \in BOOLEAN /\ inCallback \in BOOLEAN /\ pending \in Nat
  /\ queue \subseteq Records /\ attached \subseteq Records /\ reports \subseteq Reports
  /\ shut \in BOOLEAN /\ topic \subseteq Messages /\ dlqTopic \subseteq Messages
  /\ fallback \subseteq Messages /\ refused \subseteq Messages /\ dropped \subseteq Messages
  /\ ended \in BOOLEAN /\ faults \in Nat /\ flushes \in Nat
  /\ dlqSent \in [Messages -> Nat]

(* The message has come to rest: it reached a topic, it is in the local    *)
(* file, or the wrapper logged that it is lost.                            *)
Settled(m) == m \in topic \cup dlqTopic \cup fallback \cup refused \cup dropped

(* An activation that still has to bring m to rest.                        *)
Carries(f, m) ==
  /\ f.m = m
  /\ \/ f.at \in {"start", "produce", "retry_poll", "retry_produce", "handle", "dlq",
                   "fallback_in_try", "fallback"}
     \/ f.at \in {"callback", "decrement"} /\ ~f.ok

(* A message handed to the wrapper never vanishes, whichever thread runs   *)
(* its callback and whatever fails: until it has come to rest, the library *)
(* has its record, a failure report waits for its callback, or an          *)
(* activation is responsible for it.                                       *)
Accounted ==
  \A m \in Messages \ todo :
    \/ Settled(m)
    \/ \E rec \in queue : rec.m = m
    \/ \E r \in reports : r.m = m /\ ~r.ok
    \/ \E f \in frames : Carries(f, m)

(* With kafka-python nothing is left behind at exit, even if a send() that *)
(* passed the check of _closed produces its record after close() has       *)
(* flushed, and even if the flush gave up.                                 *)
ExitLosesNothing == ~Confluent /\ ended => \A m \in Messages \ todo : Settled(m)

(* A failed dead letter is not dead-lettered again.                        *)
NoDlqLoop == \A m \in Messages : dlqSent[m] <= 1

(* With kafka-python every message handed to the wrapper comes to rest.    *)
EventuallySettled == ~Confluent => \A m \in Messages : m \notin todo ~> Settled(m)

(* Every record that failed is kept in the dead-letter topic or in the     *)
(* local fallback file, those refused by a closed producer included.       *)
FailedRecordsAreKept == \A m \in refused : m \in dlqTopic \cup fallback
=============================================================================
