------------------------ MODULE KafkaProducerProofs -------------------------
(***************************************************************************)
(* Proofs about KafkaProducer for either backend and any number of         *)
(* messages, threads, faults and flushes.                                  *)
(***************************************************************************)
EXTENDS KafkaProducer, TLAPS

-----------------------------------------------------------------------------
(* Type correctness.                                                       *)

(* An activation at a location of send(), send_bad_row() or a callback has *)
(* a message.                                                              *)
LEMMA HasMessage ==
  ASSUME NEW f \in Frames, f.at \in Locations
  PROVE  f \in MessageFrames /\ f.m \in Messages
  <1>1. f \notin FlushFrames
    BY DEF FlushFrames, Locations
  <1>2. f \in MessageFrames
    BY <1>1 DEF Frames
  <1>3. QED
    BY <1>2 DEF MessageFrames

(* An activation that moves on is the same activation elsewhere.           *)
LEMMA Moved ==
  ASSUME NEW f \in MessageFrames, NEW l \in Locations
  PROVE  /\ [f EXCEPT !.at = l] \in Frames
         /\ [f EXCEPT !.at = l].m = f.m
         /\ [f EXCEPT !.at = l].at = l
         /\ [f EXCEPT !.at = l].ok = f.ok
  BY DEF Frames, MessageFrames

(* The callback of a report is an activation for its message; it carries   *)
(* the message if the report is a failure.                                 *)
LEMMA CallbackType ==
  ASSUME NEW t \in Threads \cup {IO}, NEW d \in Nat, NEW r \in Reports
  PROVE  /\ CallbackOf(t, d, r) \in Frames
         /\ ~r.ok => Carries(CallbackOf(t, d, r), r.m)
  <1>1. r.m \in Messages /\ r.ok \in BOOLEAN
    BY DEF Reports
  <1>2. "fallback" \in Locations /\ "callback" \in Locations
    BY DEF Locations
  <1>3. CallbackOf(t, d, r) \in MessageFrames
    BY <1>1, <1>2 DEF CallbackOf, Activation, MessageFrames
  <1>4. ~r.ok => Carries(CallbackOf(t, d, r), r.m)
    BY DEF CallbackOf, Activation, Carries
  <1>5. QED
    BY <1>3, <1>4 DEF Frames

(* What the control operators do to the set of activations.                *)
LEMMA ControlType ==
  ASSUME frames \subseteq Frames, NEW f \in frames, f.at \in Locations
  PROVE  /\ \A l \in Locations : Goto(f, l) => frames' \subseteq Frames
         /\ Return(f) => frames' \subseteq Frames
         /\ Finish(f) => frames' \subseteq Frames
  <1>1. \A l \in Locations : Goto(f, l) => frames' \subseteq Frames
    BY Moved, HasMessage DEF Goto
  <1>2. Return(f) => frames' \subseteq Frames
    BY DEF Return
  <1>3. "leave" \in Locations
    BY DEF Locations
  <1>4. QED
    BY <1>1, <1>2, <1>3 DEF Finish

(* A step of an activation keeps the types.                                *)
LEMMA StepType ==
  ASSUME TypeOK, UNCHANGED backend, NEW f \in frames, Step(f)
  PROVE  TypeOK'
  <1> USE ConstantsAssumption DEF library, places
  <1>t. frames \subseteq Frames /\ reports \subseteq Reports
    BY DEF TypeOK
  <1>f. f \in Frames /\ f.t \in Threads \cup {IO} /\ f.d \in Nat /\ f.seen \in Nat
    BY <1>t DEF Frames, MessageFrames, FlushFrames
  <1>g. f.at \in Locations => \A l \in Locations : Goto(f, l) => frames' \subseteq Frames
    BY <1>t, ControlType
  <1>r. f.at \in Locations => (Return(f) \/ Finish(f) => frames' \subseteq Frames)
    BY <1>t, ControlType
  <1>m. f.at \in Locations => f \in MessageFrames /\ f.m \in Messages
    BY <1>f, HasMessage
  <1>1. ASSUME SendChecks(f) \/ BadRowChecks(f) PROVE TypeOK'
    <2>1. f.at \in Locations /\ {"produce", "fallback", "dlq"} \subseteq Locations
      BY <1>1 DEF SendChecks, BadRowChecks, Locations
    <2>2. frames' \subseteq Frames /\ f.m \in Messages
      BY <1>1, <1>g, <1>r, <1>m, <2>1 DEF SendChecks, BadRowChecks
    <2>3. refused' \subseteq Messages
      BY <1>1, <2>2 DEF SendChecks, BadRowChecks, TypeOK
    <2>4. QED
      BY <1>1, <2>2, <2>3 DEF SendChecks, BadRowChecks, TypeOK
  <1>2. ASSUME Produce(f) \/ ProduceDlq(f) PROVE TypeOK'
    <2>1. f.at \in Locations /\ {"count", "dlq_poll", "dlq_attach"} \subseteq Locations
      BY <1>2 DEF Produce, ProduceDlq, Locations
    <2>2. frames' \subseteq Frames /\ f.m \in Messages
      <3>1. Goto(f, "count") \/ Goto(f, "dlq_poll") \/ Goto(f, "dlq_attach")
        BY <1>2 DEF Produce, ProduceDlq
      <3>2. QED
        BY <3>1, <1>g, <1>m, <2>1
    <2>3. queue' \subseteq Records
      <3>1. \A dlq \in BOOLEAN : [m |-> f.m, dlq |-> dlq] \in Records
        BY <2>2 DEF Records
      <3>2. QED
        BY <1>2, <3>1 DEF Produce, ProduceDlq, TypeOK
    <2>4. dlqSent' \in [Messages -> Nat]
      BY <1>2, <2>2 DEF Produce, ProduceDlq, TypeOK
    <2>5. QED
      BY <1>2, <2>2, <2>3, <2>4 DEF Produce, ProduceDlq, TypeOK
  <1>3. ASSUME BufferFull(f) \/ ProduceRaises(f) \/ ProduceDlqRaises(f) PROVE TypeOK'
    BY <1>3, <1>g DEF BufferFull, ProduceRaises, ProduceDlqRaises, LibraryRaises, Fault, TypeOK, Locations
  <1>4. ASSUME _increment_pending(f) \/ _handle_delivery_failure(f) PROVE TypeOK'
    BY <1>4, <1>g DEF _increment_pending, _handle_delivery_failure, TypeOK, Locations
  <1>5. ASSUME PollReturns(f) PROVE TypeOK'
    <2>1. f.at \in Locations /\ "retry_produce" \in Locations
      BY <1>5 DEF PollReturns, Locations
    <2>2. Return(f) \/ Finish(f) \/ Goto(f, "retry_produce")
      BY <1>5 DEF PollReturns
    <2>3. frames' \subseteq Frames
      BY <1>g, <1>r, <2>1, <2>2
    <2>4. QED
      BY <1>5, <2>3 DEF PollReturns, TypeOK
  <1>6. ASSUME _decrement_pending(f) \/ LeaveCallback(f) PROVE TypeOK'
    <2>1. f.at \in Locations /\ "handle" \in Locations
      BY <1>6 DEF _decrement_pending, LeaveCallback, Locations
    <2>2. frames' \subseteq Frames
      BY <1>6, <1>g, <1>r, <2>1 DEF _decrement_pending, LeaveCallback
    <2>3. pending' \in Nat
      BY <1>6, <1>f DEF _decrement_pending, LeaveCallback, TypeOK
    <2>4. QED
      BY <1>6, <2>2, <2>3 DEF _decrement_pending, LeaveCallback, TypeOK
  <1>7. ASSUME OnDelivery(f) PROVE TypeOK'
    <2>1. pending \in Nat /\ f \in MessageFrames
      BY <1>7, <1>m DEF OnDelivery, TypeOK, Locations
    <2>2. [f EXCEPT !.at = "decrement", !.seen = pending] \in Frames
      BY <2>1 DEF MessageFrames, Frames, Locations
    <2>3. QED
      BY <1>7, <2>2 DEF OnDelivery, TypeOK
  <1>8. ASSUME write_bad_row_fallback(f) \/ FallbackRaises(f) PROVE TypeOK'
    BY <1>8, <1>g, <1>r, <1>m DEF write_bad_row_fallback, FallbackRaises, Fault, TypeOK, Locations
  <1>9. ASSUME FlushReturns(f) \/ Join(f) PROVE TypeOK'
    <2>1. f \in FlushFrames
      BY <1>9, <1>f DEF FlushReturns, Join, Frames, MessageFrames, Locations
    <2>2. [f EXCEPT !.at = "join"] \in Frames
      BY <2>1 DEF FlushFrames, Frames
    <2>3. QED
      BY <1>9, <2>2 DEF FlushReturns, Join, Goto, Return, TypeOK
  <1>10. ASSUME NEW r \in reports, ServeReport(f, r) PROVE TypeOK'
    <2>1. CallbackOf(f.t, f.d + 1, r) \in Frames
      <3>1. f.d + 1 \in Nat /\ r \in Reports
        BY <1>f, <1>t
      <3>2. QED
        BY <3>1, <1>f, CallbackType
    <2>2. QED
      BY <1>10, <2>1 DEF ServeReport, Push, TypeOK
  <1>11. ASSUME _add_delivery_callbacks(f) PROVE TypeOK'
    <2>1. \A r \in reports : CallbackOf(f.t, f.d, r) \in Frames
      BY <1>f, <1>t, CallbackType
    <2>2. [m |-> f.m, dlq |-> f.at = "dlq_attach"] \in Records
      BY <1>11, <1>m DEF _add_delivery_callbacks, Locations, Records
    <2>3. frames' \subseteq Frames /\ reports' \subseteq Reports /\ attached' \subseteq Records
      BY <1>11, <1>t, <2>1, <2>2 DEF _add_delivery_callbacks, Return, TypeOK
    <2>4. QED
      BY <1>11, <2>3 DEF _add_delivery_callbacks, TypeOK
  <1>12. QED
    BY <1>1, <1>2, <1>3, <1>4, <1>5, <1>6, <1>7, <1>8, <1>9, <1>10, <1>11 DEF Step

(* TypeOK is inductive.                                                    *)
LEMMA TypeStep == TypeOK /\ [Next]_vars => TypeOK'
  <1> SUFFICES ASSUME TypeOK, [Next]_vars PROVE TypeOK'
    OBVIOUS
  <1> USE ConstantsAssumption DEF library, places
  <1>b. UNCHANGED backend
    BY DEF Next, vars
  <1> USE <1>b
  <1>1. ASSUME NEW f \in frames, Step(f) PROVE TypeOK'
    BY <1>1, StepType
  <1>2. ASSUME NEW t \in Threads, NEW m \in todo, NEW op \in {"send", "send_bad_row"}, Call(t, m, op)
        PROVE  TypeOK'
    <2> DEFINE g == Activation(t, 0, op, m, "start", FALSE)
    <2>1. g \in Frames
      BY DEF TypeOK, Activation, Frames, MessageFrames, Locations
    <2>2. QED
      BY <1>2, <2>1 DEF Call, Push, TypeOK
  <1>3. ASSUME Close \/ \E t \in Threads : Flush(t) PROVE TypeOK'
    <2>1. \A t \in Threads, op \in {"flush", "close"} : Activation(t, 0, op, "none", "flush", FALSE) \in Frames
      BY DEF Activation, Frames, FlushFrames
    <2>2. CASE Close
      BY <2>1, <2>2 DEF Close, Push, TypeOK
    <2>3. ASSUME NEW t \in Threads, Flush(t) PROVE TypeOK'
      <3>1. frames' \subseteq Frames
        BY <2>1, <2>3 DEF Flush, Push, TypeOK
      <3>2. flushes' \in Nat
        BY <2>3 DEF Flush, TypeOK
      <3>3. QED
        BY <2>3, <3>1, <3>2 DEF Flush, TypeOK
    <2>4. QED
      BY <1>3, <2>2, <2>3
  <1>4. ASSUME NEW r \in reports, IOServes(r) PROVE TypeOK'
    <2>1. CallbackOf(IO, 0, r) \in Frames
      BY CallbackType DEF TypeOK
    <2>2. QED
      BY <1>4, <2>1 DEF IOServes, Push, TypeOK
  <1>5. ASSUME NEW rec \in queue, NEW ok \in BOOLEAN, Answer(rec, ok),
               Reach(rec) \/ UNCHANGED <<topic, dlqTopic>>, faults' \in Nat
        PROVE  TypeOK'
    <2>1. rec.m \in Messages /\ rec.dlq \in BOOLEAN
      BY DEF TypeOK, Records
    <2>2. reports' \subseteq Reports /\ queue' \subseteq Records
      BY <1>5, <2>1 DEF Answer, TypeOK, Reports
    <2>3. topic' \subseteq Messages /\ dlqTopic' \subseteq Messages
      BY <1>5, <2>1 DEF Reach, TypeOK
    <2>4. QED
      BY <1>5, <2>2, <2>3 DEF Answer, TypeOK
  <1>6. ASSUME NEW rec \in queue, BrokerAcks(rec) \/ \E reached \in BOOLEAN : DeliveryFails(rec, reached)
        PROVE  TypeOK'
    <2>1. faults' \in Nat
      <3>1. LibraryRaises \/ UNCHANGED faults
        BY <1>6 DEF BrokerAcks, DeliveryFails
      <3>2. QED
        BY <3>1 DEF LibraryRaises, Fault, TypeOK
    <2>2. CASE BrokerAcks(rec)
      BY <1>5, <2>1, <2>2 DEF BrokerAcks
    <2>3. ASSUME NEW reached \in BOOLEAN, DeliveryFails(rec, reached) PROVE TypeOK'
      <3>1. Answer(rec, FALSE) /\ (Reach(rec) \/ UNCHANGED <<topic, dlqTopic>>)
        BY <2>3 DEF DeliveryFails
      <3>2. QED
        BY <1>5, <2>1, <3>1
    <2>4. QED
      BY <1>6, <2>2, <2>3
  <1>7. CASE Exit
    BY <1>7 DEF Exit, TypeOK
  <1>8. CASE UNCHANGED vars
    BY <1>8 DEF vars, TypeOK
  <1>9. QED
    BY <1>1, <1>2, <1>3, <1>4, <1>6, <1>7, <1>8 DEF Next, Act

(* It holds initially.                                                     *)
LEMMA InitType == Init => TypeOK
  <1> SUFFICES ASSUME Init PROVE TypeOK
    OBVIOUS
  <1>1. dlqSent \in [Messages -> Nat]
    BY DEF Init
  <1>2. QED
    BY <1>1 DEF Init, TypeOK

(* Every variable of the producer keeps its type.                          *)
THEOREM TypeCorrect == Spec => []TypeOK
  BY InitType, TypeStep, PTL DEF Spec

-----------------------------------------------------------------------------
(* Accounted.  It needs one more fact: a delivery reported as successful   *)
(* did reach its topic, so that no callback has to care for it.            *)

Account(m) ==
  \/ Settled(m)
  \/ \E rec \in queue : rec.m = m
  \/ \E r \in reports : r.m = m /\ ~r.ok
  \/ \E f \in frames : Carries(f, m)

ReportsTrue == \A r \in reports : r.ok => r.m \in topic \cup dlqTopic

AccountInv == TypeOK /\ ReportsTrue /\ Accounted

(* No place a message can come to rest in ever loses it.                   *)
PlacesGrow ==
  /\ topic \subseteq topic' /\ dlqTopic \subseteq dlqTopic'
  /\ fallback \subseteq fallback' /\ refused \subseteq refused' /\ dropped \subseteq dropped'

(* A step that removes at most one activation from the sets on which the   *)
(* accounting rests needs to care for the message of that one only.        *)
LEMMA Kept ==
  ASSUME PlacesGrow, queue \subseteq queue', reports \subseteq reports',
         NEW f, frames \ {f} \subseteq frames',
         NEW m, Account(m), Carries(f, m) => Account(m)'
  PROVE  Account(m)'
  <1>1. CASE Settled(m)
    BY <1>1 DEF Account, Settled, PlacesGrow
  <1>2. CASE \E rec \in queue : rec.m = m
    BY <1>2 DEF Account
  <1>3. CASE \E r \in reports : r.m = m /\ ~r.ok
    BY <1>3 DEF Account
  <1>4. ASSUME NEW g \in frames, Carries(g, m) PROVE Account(m)'
    <2>1. CASE g = f
      BY <1>4, <2>1
    <2>2. CASE g # f
      BY <1>4, <2>2 DEF Account, Carries
    <2>3. QED
      BY <2>1, <2>2
  <1>5. QED
    BY <1>1, <1>2, <1>3, <1>4 DEF Account

(* An activation that moves to another place where it is responsible for   *)
(* its message.                                                            *)
CarryLocations == {"start", "produce", "retry_poll", "retry_produce", "handle", "dlq",
                   "fallback_in_try", "fallback"}

LEMMA Carried ==
  ASSUME NEW f \in MessageFrames, NEW l \in CarryLocations, Goto(f, l)
  PROVE  Account(f.m)'
  <1>1. l \in Locations
    BY DEF CarryLocations, Locations
  <1>2. [f EXCEPT !.at = l] \in frames' /\ Carries([f EXCEPT !.at = l], f.m)
    BY <1>1, Moved DEF Goto, Carries, CarryLocations
  <1>3. QED
    BY <1>2 DEF Account, Carries

(* The sets of activations after a control operator.                       *)
LEMMA ControlKeeps ==
  ASSUME NEW f
  PROVE  /\ \A l : Goto(f, l) => frames \ {f} \subseteq frames'
         /\ Return(f) \/ Finish(f) => frames \ {f} \subseteq frames'
  BY DEF Goto, Return, Finish

(* Serving a report makes a callback responsible for a failed message.     *)
LEMMA ReportServed ==
  ASSUME UNCHANGED <<queue, topic, dlqTopic, places>>, frames \subseteq frames',
         NEW r \in Reports, reports' = reports \ {r}, r.ok => r.m \in topic \cup dlqTopic,
         NEW t \in Threads \cup {IO}, NEW d \in Nat,
         ~r.ok => CallbackOf(t, d, r) \in frames',
         NEW m, Account(m)
  PROVE  Account(m)'
  <1>1. ~r.ok => Account(r.m)'
    BY CallbackType DEF Account, Carries
  <1>2. r.ok => Account(r.m)'
    BY DEF Account, Settled
  <1>3. CASE \E r0 \in reports : r0.m = m /\ ~r0.ok
    BY <1>1, <1>2, <1>3 DEF Account
  <1>4. CASE Settled(m) \/ (\E rec \in queue : rec.m = m) \/ \E f \in frames : Carries(f, m)
    BY <1>4 DEF Account, Settled, Carries, places
  <1>5. QED
    BY <1>3, <1>4 DEF Account

(* A step of an activation keeps every message accounted for.              *)
LEMMA StepAccount ==
  ASSUME AccountInv, NEW f \in frames, Step(f), NEW m \in Messages, Account(m)
  PROVE  Account(m)'
  <1> USE DEF library, places
  <1>t. frames \subseteq Frames /\ reports \subseteq Reports
    BY DEF AccountInv, TypeOK
  <1>f. f \in Frames /\ f.t \in Threads \cup {IO} /\ f.d \in Nat
    BY <1>t DEF Frames, MessageFrames, FlushFrames
  <1>m. f.at \in Locations => f \in MessageFrames
    BY <1>f, HasMessage
  <1>c. ASSUME NEW l \in CarryLocations, f.at \in Locations, Goto(f, l), Carries(f, m)
        PROVE  Account(m)'
    BY <1>c, <1>m, Carried DEF Carries
  <1>s. ASSUME UNCHANGED <<library, places>>, frames \ {f} \subseteq frames', Carries(f, m) => Account(m)'
        PROVE  Account(m)'
    BY <1>s, Kept DEF PlacesGrow
  <1>1. CASE SendChecks(f)
    <2>1. PlacesGrow /\ queue' = queue /\ reports' = reports
      BY <1>1 DEF SendChecks, PlacesGrow
    <2>2. frames \ {f} \subseteq frames'
      BY <1>1, ControlKeeps DEF SendChecks
    <2>3. closed => Account(f.m)'
      BY <1>1 DEF SendChecks, Account, Settled
    <2>4. ~closed /\ Carries(f, m) => Account(m)'
      BY <1>1, <1>c DEF SendChecks, CarryLocations, Locations
    <2>5. Carries(f, m) => Account(m)'
      BY <2>3, <2>4 DEF Carries
    <2>6. QED
      BY <2>1, <2>2, <2>5, Kept
  <1>2. CASE BadRowChecks(f) \/ BufferFull(f) \/ ProduceRaises(f) \/ _handle_delivery_failure(f) \/ ProduceDlqRaises(f)
    <2>1. \E l \in CarryLocations : Goto(f, l)
      BY <1>2 DEF BadRowChecks, BufferFull, ProduceRaises, _handle_delivery_failure, ProduceDlqRaises,
                  CarryLocations
    <2>2. f.at \in Locations /\ UNCHANGED <<library, places>>
      BY <1>2 DEF BadRowChecks, BufferFull, ProduceRaises, _handle_delivery_failure, ProduceDlqRaises,
                  Locations
    <2>3. QED
      BY <2>1, <2>2, <1>c, <1>s, ControlKeeps
  <1>3. CASE Produce(f) \/ ProduceDlq(f)
    <2>1. PlacesGrow /\ queue \subseteq queue' /\ reports' = reports
      BY <1>3 DEF Produce, ProduceDlq, PlacesGrow
    <2>2. frames \ {f} \subseteq frames'
      BY <1>3, ControlKeeps DEF Produce, ProduceDlq
    <2>3. \E rec \in queue' : rec.m = f.m
      <3>1. PICK dlq \in BOOLEAN : [m |-> f.m, dlq |-> dlq] \in queue'
        BY <1>3 DEF Produce, ProduceDlq
      <3>2. QED
        BY <3>1
    <2>4. Carries(f, m) => Account(m)'
      BY <2>3 DEF Account, Carries
    <2>5. QED
      BY <2>1, <2>2, <2>4, Kept
  <1>4. CASE _increment_pending(f) \/ LeaveCallback(f) \/ FlushReturns(f) \/ Join(f)
    <2>1. ~Carries(f, m) /\ PlacesGrow /\ queue' = queue /\ reports' = reports
      BY <1>4 DEF _increment_pending, LeaveCallback, FlushReturns, Join, Carries, PlacesGrow
    <2>2. frames \ {f} \subseteq frames'
      BY <1>4, ControlKeeps DEF _increment_pending, LeaveCallback, FlushReturns, Join
    <2>3. QED
      BY <2>1, <2>2, Kept
  <1>5. CASE PollReturns(f)
    <2>1. UNCHANGED <<library, places>> /\ f.at \in Locations
      BY <1>5 DEF PollReturns, Locations
    <2>2. Return(f) \/ Finish(f) \/ Goto(f, "retry_produce")
      BY <1>5 DEF PollReturns
    <2>3. Carries(f, m) => Goto(f, "retry_produce")
      BY <1>5 DEF PollReturns, Carries
    <2>4. QED
      BY <2>1, <2>2, <2>3, <1>c, <1>s, ControlKeeps DEF CarryLocations
  <1>6. CASE OnDelivery(f)
    <2>1. UNCHANGED <<library, places>> /\ f.at \in Locations /\ f.at = "callback"
      BY <1>6 DEF OnDelivery, Locations
    <2> DEFINE g == [f EXCEPT !.at = "decrement", !.seen = pending]
    <2>2. g \in frames' /\ frames \ {f} \subseteq frames'
      BY <1>6 DEF OnDelivery
    <2>3. g.m = f.m /\ g.at = "decrement" /\ g.ok = f.ok
      BY <2>1, <1>m DEF MessageFrames
    <2>4. Carries(f, m) => Account(m)'
      BY <2>1, <2>2, <2>3 DEF Carries, Account
    <2>5. QED
      BY <2>1, <2>2, <2>4, <1>s
  <1>7. CASE _decrement_pending(f)
    <2>1. UNCHANGED <<library, places>> /\ f.at \in Locations
      BY <1>7 DEF _decrement_pending, Locations
    <2>2. Finish(f) \/ Goto(f, "handle")
      BY <1>7 DEF _decrement_pending
    <2>3. Carries(f, m) => Goto(f, "handle")
      BY <1>7 DEF _decrement_pending, Carries
    <2>4. QED
      BY <2>1, <2>2, <2>3, <1>c, <1>s, ControlKeeps DEF CarryLocations
  <1>8. CASE write_bad_row_fallback(f)
    <2>1. PlacesGrow /\ queue' = queue /\ reports' = reports /\ f.m \in fallback'
      BY <1>8 DEF write_bad_row_fallback, PlacesGrow
    <2>2. frames \ {f} \subseteq frames'
      BY <1>8, ControlKeeps DEF write_bad_row_fallback
    <2>3. Carries(f, m) => Account(m)'
      BY <2>1 DEF Account, Settled, Carries
    <2>4. QED
      BY <2>1, <2>2, <2>3, Kept
  <1>9. CASE FallbackRaises(f)
    <2>1. PlacesGrow /\ queue' = queue /\ reports' = reports /\ f.at \in Locations
      BY <1>9 DEF FallbackRaises, PlacesGrow, Locations
    <2>2. Goto(f, "fallback") \/ (Finish(f) /\ f.m \in dropped')
      BY <1>9 DEF FallbackRaises
    <2>3. frames \ {f} \subseteq frames'
      BY <2>2, ControlKeeps
    <2>4. Carries(f, m) => Account(m)'
      BY <2>1, <2>2, <1>c DEF Account, Settled, Carries, CarryLocations
    <2>5. QED
      BY <2>1, <2>3, <2>4, Kept
  <1>10. ASSUME NEW r \in reports, ServeReport(f, r) PROVE Account(m)'
    <2>1. UNCHANGED <<queue, topic, dlqTopic, places>> /\ reports' = reports \ {r} /\ frames \subseteq frames'
      BY <1>10 DEF ServeReport, Push
    <2>2. ~r.ok => CallbackOf(f.t, f.d + 1, r) \in frames'
      BY <1>10 DEF ServeReport, Push, MetricOnly
    <2>3. f.d + 1 \in Nat /\ r.ok => r.m \in topic \cup dlqTopic
      BY <1>f DEF AccountInv, ReportsTrue
    <2>4. QED
      BY <2>1, <2>2, <2>3, <1>f, <1>t, ReportServed
  <1>11. CASE _add_delivery_callbacks(f)
    <2> DEFINE done == {r \in reports : r.m = f.m /\ r.dlq = (f.at = "dlq_attach")}
    <2>1. UNCHANGED <<queue, topic, dlqTopic, places>> /\ reports' = reports \ done
      BY <1>11 DEF _add_delivery_callbacks
    <2>2. frames \ {f} \subseteq frames' /\ ~Carries(f, m)
      BY <1>11 DEF _add_delivery_callbacks, Return, Carries
    <2>3. CASE done = {}
      BY <2>1, <2>2, <2>3, Kept DEF PlacesGrow
    <2>4. CASE done # {}
      <3>1. PICK r \in done : MetricOnly(r) \/ CallbackOf(f.t, f.d, r) \in frames'
        BY <1>11, <2>4 DEF _add_delivery_callbacks
      <3>2. r.ok \/ (CallbackOf(f.t, f.d, r) \in frames' /\ Carries(CallbackOf(f.t, f.d, r), f.m))
        BY <3>1, <1>f, <1>t, CallbackType DEF MetricOnly
      <3>3. Account(f.m)'
        BY <2>1, <3>1, <3>2 DEF Account, Settled, Carries, AccountInv, ReportsTrue
      <3>4. CASE m = f.m
        BY <3>3, <3>4
      <3>5. CASE m # f.m
        <4>1. CASE \E r0 \in reports : r0.m = m /\ ~r0.ok
          BY <2>1, <3>5, <4>1 DEF Account
        <4>2. CASE \E g \in frames : Carries(g, m)
          BY <2>2, <4>2 DEF Account, Carries
        <4>3. CASE Settled(m) \/ \E rec \in queue : rec.m = m
          BY <2>1, <4>3 DEF Account, Settled
        <4>4. QED
          BY <4>1, <4>2, <4>3 DEF Account
      <3>6. QED
        BY <3>4, <3>5
    <2>5. QED
      BY <2>3, <2>4
  <1>12. QED
    BY <1>1, <1>2, <1>3, <1>4, <1>5, <1>6, <1>7, <1>8, <1>9, <1>10, <1>11 DEF Step

(* The invariant is inductive.                                             *)
LEMMA AccountStep == AccountInv /\ [Next]_vars => AccountInv'
  <1> SUFFICES ASSUME AccountInv, [Next]_vars PROVE AccountInv'
    OBVIOUS
  <1> USE DEF library, places
  <1>t. TypeOK'
    BY TypeStep DEF AccountInv
  <1>a. \A m \in Messages \ todo : Account(m)
    BY DEF AccountInv, Accounted, Account
  <1>r. reports \subseteq Reports /\ ReportsTrue /\ IO \in Threads \cup {IO}
    BY DEF AccountInv, TypeOK
  <1>i. ASSUME \A m \in Messages \ todo' : Account(m)', ReportsTrue' PROVE AccountInv'
    BY <1>t, <1>i DEF AccountInv, Accounted, Account
  <1>1. ASSUME NEW f \in frames, Step(f) PROVE AccountInv'
    <2>1. todo' = todo /\ reports' \subseteq reports /\ topic' = topic /\ dlqTopic' = dlqTopic
      BY <1>1 DEF Step, SendChecks, BadRowChecks, Produce, BufferFull, ProduceRaises,
           _increment_pending, PollReturns, _add_delivery_callbacks, OnDelivery,
           _decrement_pending, LeaveCallback, _handle_delivery_failure, ProduceDlq,
           ProduceDlqRaises, write_bad_row_fallback, FallbackRaises, FlushReturns, Join, ServeReport
    <2>2. ReportsTrue'
      BY <1>r, <2>1 DEF ReportsTrue
    <2>3. QED
      BY <1>1, <1>a, <1>i, <2>1, <2>2, StepAccount
  <1>2. ASSUME NEW t \in Threads, NEW n \in todo, NEW op \in {"send", "send_bad_row"}, Call(t, n, op)
        PROVE  AccountInv'
    <2>1. /\ UNCHANGED <<library, places>> /\ todo' = todo \ {n} /\ frames \subseteq frames'
          /\ Activation(t, 0, op, n, "start", FALSE) \in frames'
      BY <1>2 DEF Call, Push
    <2>2. Account(n)'
      BY <2>1 DEF Account, Carries, Activation
    <2>3. \A m : Account(m) => Account(m)'
      BY <2>1 DEF Account, Settled, Carries
    <2>4. QED
      BY <2>1, <2>2, <2>3, <1>a, <1>i, <1>r DEF ReportsTrue
  <1>3. CASE Close \/ Exit \/ (\E t \in Threads : Flush(t)) \/ UNCHANGED vars
    <2>1. UNCHANGED <<todo, library, places>> /\ frames \subseteq frames'
      BY <1>3 DEF Close, Exit, Flush, Push, vars
    <2>2. \A m : Account(m) => Account(m)'
      BY <2>1 DEF Account, Settled, Carries
    <2>3. QED
      BY <2>1, <2>2, <1>a, <1>i, <1>r DEF ReportsTrue
  <1>4. ASSUME NEW r \in reports, IOServes(r) PROVE AccountInv'
    <2>1. /\ UNCHANGED <<todo, queue, topic, dlqTopic, places>>
          /\ reports' = reports \ {r} /\ frames \subseteq frames'
      BY <1>4 DEF IOServes, Push
    <2>2. ~r.ok => CallbackOf(IO, 0, r) \in frames'
      BY <1>4 DEF IOServes, Push, MetricOnly
    <2>3. \A m : Account(m) => Account(m)'
      BY <2>1, <2>2, <1>r, ReportServed DEF ReportsTrue
    <2>4. QED
      BY <2>1, <2>3, <1>a, <1>i, <1>r DEF ReportsTrue
  <1>5. ASSUME NEW rec \in queue, BrokerAcks(rec) PROVE AccountInv'
    <2>1. /\ UNCHANGED <<todo, frames, places>> /\ queue' = queue \ {rec}
          /\ reports' = reports \cup {[m |-> rec.m, dlq |-> rec.dlq, ok |-> TRUE]}
          /\ topic \subseteq topic' /\ dlqTopic \subseteq dlqTopic' /\ rec.m \in topic' \cup dlqTopic'
      BY <1>5 DEF BrokerAcks, Answer, Reach
    <2>2. \A m : Account(m) => Account(m)'
      BY <2>1 DEF Account, Settled, Carries
    <2>3. ReportsTrue'
      BY <2>1, <1>r DEF ReportsTrue
    <2>4. QED
      BY <2>1, <2>2, <2>3, <1>a, <1>i
  <1>6. ASSUME NEW rec \in queue, NEW reached \in BOOLEAN, DeliveryFails(rec, reached) PROVE AccountInv'
    <2>1. /\ UNCHANGED <<todo, frames, places>> /\ queue' = queue \ {rec}
          /\ reports' = reports \cup {[m |-> rec.m, dlq |-> rec.dlq, ok |-> FALSE]}
      BY <1>6 DEF DeliveryFails, Answer
    <2>2. topic \subseteq topic' /\ dlqTopic \subseteq dlqTopic'
      <3>1. Reach(rec) \/ UNCHANGED <<topic, dlqTopic>>
        BY <1>6 DEF DeliveryFails
      <3>2. QED
        BY <3>1 DEF Reach
    <2>3. ASSUME NEW m, Account(m) PROVE Account(m)'
      <3> DEFINE failed == [m |-> rec.m, dlq |-> rec.dlq, ok |-> FALSE]
      <3>1. failed \in reports' /\ failed.m = rec.m /\ ~failed.ok
        BY <2>1
      <3>2. Account(rec.m)'
        BY <3>1 DEF Account
      <3>3. CASE \E r0 \in queue : r0.m = m
        BY <2>1, <3>2, <3>3 DEF Account
      <3>4. CASE Settled(m)
        BY <2>1, <2>2, <3>4 DEF Account, Settled
      <3>5. CASE (\E r \in reports : r.m = m /\ ~r.ok) \/ \E f \in frames : Carries(f, m)
        BY <2>1, <3>5 DEF Account, Carries
      <3>6. QED
        BY <2>3, <3>3, <3>4, <3>5 DEF Account
    <2>4. ReportsTrue'
      BY <2>1, <2>2, <1>r DEF ReportsTrue
    <2>5. QED
      BY <2>1, <2>3, <2>4, <1>a, <1>i
  <1>7. QED
    BY <1>1, <1>2, <1>3, <1>4, <1>5, <1>6 DEF Next, Act

(* With either backend, whatever fails and whichever thread runs the       *)
(* callbacks, a message handed to the wrapper never vanishes.              *)
THEOREM NothingVanishes == Spec => []Accounted
  <1>1. Init => AccountInv
    BY InitType DEF Init, AccountInv, ReportsTrue, Accounted
  <1>2. AccountInv => Accounted
    BY DEF AccountInv
  <1>3. QED
    BY <1>1, <1>2, AccountStep, PTL DEF Spec

-----------------------------------------------------------------------------
(* NoDlqLoop.  The work for a message is in one place at a time: the       *)
(* message is not handed over yet, an activation may still produce a       *)
(* record for it, the library has its record, or a report on it waits.     *)

EarlyLocations == {"start", "produce", "retry_poll", "retry_produce", "callback", "decrement",
                   "handle", "dlq"}

(* An activation that may still produce a record, or follows up on one.    *)
Early(f) == f.at \in EarlyLocations

OneFrame ==
  /\ \A f \in frames : Early(f) => f.m \notin todo
  /\ \A f, g \in frames : Early(f) /\ Early(g) /\ f.m = g.m => f = g

OneRecord ==
  /\ \A rec \in queue : rec.m \notin todo
  /\ \A a, b \in queue : a.m = b.m => a = b
  /\ \A f \in frames, rec \in queue : Early(f) => rec.m # f.m

OneReport ==
  /\ \A r \in reports : r.m \notin todo
  /\ \A r, s \in reports : r.m = s.m => r = s
  /\ \A f \in frames, r \in reports : Early(f) => r.m # f.m
  /\ \A rec \in queue, r \in reports : r.m # rec.m

(* Until its dead letter is produced, none was.                            *)
NoneYet ==
  /\ \A m \in todo : dlqSent[m] = 0
  /\ \A f \in frames : Early(f) => dlqSent[f.m] = 0
  /\ \A rec \in queue : ~rec.dlq => dlqSent[rec.m] = 0
  /\ \A r \in reports : ~r.dlq => dlqSent[r.m] = 0

OnceInv == TypeOK /\ OneFrame /\ OneRecord /\ OneReport /\ NoneYet /\ NoDlqLoop

OnePlace == OneFrame /\ OneRecord /\ OneReport /\ NoneYet

(* A step of f that adds no work for any message.                          *)
NoNewWork(f) ==
  \E g : /\ frames' \subseteq (frames \ {f}) \cup {g}
         /\ Early(g) => Early(f) /\ g.m = f.m

LEMMA WorkStays ==
  ASSUME OnePlace, NEW f \in frames, NoNewWork(f), UNCHANGED <<todo, queue, reports, dlqSent>>
  PROVE  OnePlace'
  <1>1. PICK g : frames' \subseteq (frames \ {f}) \cup {g} /\ (Early(g) => Early(f) /\ g.m = f.m)
    BY DEF NoNewWork
  <1>3. OneFrame'
    BY <1>1 DEF OnePlace, OneFrame, Early
  <1>4. OneRecord'
    BY <1>1 DEF OnePlace, OneRecord, Early
  <1>5. OneReport'
    BY <1>1 DEF OnePlace, OneReport, Early
  <1>6. NoneYet'
    BY <1>1 DEF OnePlace, NoneYet, Early
  <1>7. QED
    BY <1>3, <1>4, <1>5, <1>6 DEF OnePlace

(* The control operators add no work, but for a jump to an early location. *)
LEMMA ControlWork ==
  ASSUME NEW f \in MessageFrames
  PROVE  /\ \A l \in Locations : Goto(f, l) /\ (l \in EarlyLocations => Early(f)) => NoNewWork(f)
         /\ Return(f) \/ Finish(f) => NoNewWork(f)
  <1>1. ASSUME NEW l \in Locations, Goto(f, l), l \in EarlyLocations => Early(f) PROVE NoNewWork(f)
    <2> DEFINE g == [f EXCEPT !.at = l]
    <2>1. g.m = f.m /\ g.at = l
      BY Moved
    <2>2. frames' = (frames \ {f}) \cup {g} /\ (Early(g) => Early(f) /\ g.m = f.m)
      BY <1>1, <2>1 DEF Goto, Early
    <2> HIDE DEF g
    <2>3. QED
      BY <2>2 DEF NoNewWork
  <1>2. Return(f) => NoNewWork(f)
    BY DEF Return, NoNewWork
  <1>3. "leave" \in Locations /\ "leave" \notin EarlyLocations
    BY DEF Locations, EarlyLocations
  <1>4. QED
    BY <1>1, <1>2, <1>3 DEF Finish

(* A record that is produced takes the place of the activation's work.     *)
LEMMA WorkProduced ==
  ASSUME TypeOK, OnePlace, NEW f \in frames, Early(f), f.m \in Messages, NEW l \in Locations,
         l \notin EarlyLocations, f \in MessageFrames, Goto(f, l),
         NEW dlq \in BOOLEAN, queue' = queue \cup {[m |-> f.m, dlq |-> dlq]},
         dlqSent' = [dlqSent EXCEPT ![f.m] = @ + (IF dlq THEN 1 ELSE 0)],
         UNCHANGED <<todo, reports>>, NoDlqLoop
  PROVE  OnePlace' /\ NoDlqLoop'
  <1> DEFINE rec == [m |-> f.m, dlq |-> dlq]
             g == [f EXCEPT !.at = l]
  <1>1. rec.m = f.m /\ rec.dlq = dlq /\ queue' = queue \cup {rec}
    OBVIOUS
  <1>2. ~Early(g) /\ frames' = (frames \ {f}) \cup {g}
    BY Moved DEF Goto, Early
  <1>3. f.m \notin todo /\ dlqSent[f.m] = 0
    BY DEF OnePlace, OneFrame, NoneYet
  <1>4. /\ \A r \in queue : r.m # f.m
        /\ \A r \in reports : r.m # f.m
        /\ \A h \in frames \ {f} : Early(h) => h.m # f.m
    BY DEF OnePlace, OneFrame, OneRecord, OneReport
  <1>5. /\ \A m \in Messages \ {f.m} : dlqSent'[m] = dlqSent[m]
        /\ dlqSent'[f.m] = IF dlq THEN 1 ELSE 0
    BY <1>3 DEF TypeOK
  <1>6. /\ todo \subseteq Messages
        /\ \A r \in queue : r.m \in Messages
        /\ \A r \in reports : r.m \in Messages
        /\ \A h \in frames : Early(h) => h.m \in Messages
    <2>1. \A h \in frames : Early(h) => h.at \in Locations /\ h \in Frames
      BY DEF Early, EarlyLocations, Locations, TypeOK
    <2>2. QED
      BY <2>1, HasMessage DEF TypeOK, Records, Reports
  <1> HIDE DEF rec, g
  <1>7. OneFrame'
    BY <1>2 DEF OnePlace, OneFrame, Early
  <1>8. OneRecord'
    BY <1>1, <1>2, <1>3, <1>4 DEF OnePlace, OneRecord, Early
  <1>9. OneReport'
    BY <1>1, <1>2, <1>3, <1>4 DEF OnePlace, OneReport, Early
  <1>10. NoneYet'
    <2>1. \A m \in todo : dlqSent'[m] = 0
      BY <1>3, <1>5, <1>6 DEF OnePlace, NoneYet
    <2>2. \A h \in frames' : Early(h) => dlqSent'[h.m] = 0
      BY <1>2, <1>4, <1>5, <1>6 DEF OnePlace, NoneYet
    <2>3. \A r \in queue' : ~r.dlq => dlqSent'[r.m] = 0
      BY <1>1, <1>4, <1>5, <1>6 DEF OnePlace, NoneYet
    <2>4. \A r \in reports : ~r.dlq => dlqSent'[r.m] = 0
      BY <1>4, <1>5, <1>6 DEF OnePlace, NoneYet
    <2>5. QED
      BY <2>1, <2>2, <2>3, <2>4 DEF NoneYet, Early
  <1>11. NoDlqLoop'
    BY <1>5 DEF NoDlqLoop
  <1>12. QED
    BY <1>7, <1>8, <1>9, <1>10, <1>11 DEF OnePlace

(* A callback takes the place of the report it is run for.                 *)
LEMMA WorkReported ==
  ASSUME OnePlace, NEW r \in reports, r \notin reports', reports' \subseteq reports,
         UNCHANGED <<todo, queue, dlqSent>>, NEW t, NEW d,
         frames' \subseteq frames \cup {CallbackOf(t, d, r)}
  PROVE  OnePlace'
  <1> DEFINE g == CallbackOf(t, d, r)
  <1>1. frames' \subseteq frames \cup {g}
    OBVIOUS
  <1>2. Early(g) => ~r.dlq /\ g.m = r.m
    BY DEF CallbackOf, Activation, Early, EarlyLocations
  <1> HIDE DEF g
  <1>3. /\ r.m \notin todo /\ (~r.dlq => dlqSent[r.m] = 0)
        /\ \A s \in reports' : s.m # r.m
        /\ \A rec \in queue : rec.m # r.m
        /\ \A h \in frames : Early(h) => h.m # r.m
    BY DEF OnePlace, OneReport, NoneYet
  <1>4. OneFrame'
    BY <1>1, <1>2, <1>3 DEF OnePlace, OneFrame, Early
  <1>5. OneRecord'
    BY <1>1, <1>2, <1>3 DEF OnePlace, OneRecord, Early
  <1>6. OneReport'
    BY <1>1, <1>2, <1>3 DEF OnePlace, OneReport, Early
  <1>7. NoneYet'
    BY <1>1, <1>2, <1>3 DEF OnePlace, NoneYet, Early
  <1>8. QED
    BY <1>4, <1>5, <1>6, <1>7 DEF OnePlace

(* What an answer of the broker does to the places: the report takes the   *)
(* place of the record.                                                    *)
LEMMA WorkAnswered ==
  ASSUME OnePlace, NEW rec \in queue, NEW ok \in BOOLEAN, Answer(rec, ok)
  PROVE  OnePlace'
  <1> DEFINE r == [m |-> rec.m, dlq |-> rec.dlq, ok |-> ok]
  <1>1. /\ r.m = rec.m /\ r.dlq = rec.dlq
        /\ queue' = queue \ {rec} /\ reports' = reports \cup {r}
        /\ UNCHANGED <<todo, frames, dlqSent>>
    BY DEF Answer
  <1> HIDE DEF r
  <1>2. OneFrame' /\ OneRecord'
    BY <1>1 DEF OnePlace, OneFrame, OneRecord, Early
  <1>3. OneReport'
    BY <1>1 DEF OnePlace, OneRecord, OneReport, Early
  <1>4. NoneYet'
    BY <1>1 DEF OnePlace, NoneYet, Early
  <1>5. QED
    BY <1>2, <1>3, <1>4 DEF OnePlace

(* A step of an activation leaves the work of every message in one place.  *)
LEMMA StepOnce ==
  ASSUME OnceInv, NEW f \in frames, Step(f)
  PROVE  OnePlace' /\ NoDlqLoop'
  <1> USE DEF library
  <1>t. frames \subseteq Frames /\ f \in Frames /\ OnePlace /\ TypeOK /\ NoDlqLoop
    BY DEF OnceInv, OnePlace, TypeOK
  <1>m. f.at \in Locations => f \in MessageFrames /\ f.m \in Messages
    BY <1>t, HasMessage
  <1>n. ASSUME NoNewWork(f), UNCHANGED <<todo, queue, reports, dlqSent>>
        PROVE  OnePlace' /\ NoDlqLoop'
    BY <1>n, <1>t, WorkStays DEF NoDlqLoop
  <1>1. CASE SendChecks(f) \/ BadRowChecks(f) \/ BufferFull(f) \/ ProduceRaises(f)
    <2>1. /\ f.at \in Locations /\ Early(f) /\ UNCHANGED <<todo, queue, reports, dlqSent>>
          /\ Return(f) \/ \E l \in Locations : Goto(f, l)
      BY <1>1 DEF SendChecks, BadRowChecks, BufferFull, ProduceRaises, Locations, Early, EarlyLocations
    <2>2. QED
      BY <2>1, <1>m, <1>n, ControlWork
  <1>2. CASE _handle_delivery_failure(f) \/ ProduceDlqRaises(f) \/ _decrement_pending(f)
    <2>1. /\ f.at \in Locations /\ Early(f) /\ UNCHANGED <<todo, queue, reports, dlqSent>>
          /\ Finish(f) \/ \E l \in Locations : Goto(f, l)
      BY <1>2 DEF _handle_delivery_failure, ProduceDlqRaises, _decrement_pending, Locations, Early,
                  EarlyLocations
    <2>2. QED
      BY <2>1, <1>m, <1>n, ControlWork
  <1>3. CASE OnDelivery(f)
    <2> DEFINE g == [f EXCEPT !.at = "decrement", !.seen = pending]
    <2>1. f.at \in Locations /\ Early(f)
      BY <1>3 DEF OnDelivery, Locations, Early, EarlyLocations
    <2>2. frames' = (frames \ {f}) \cup {g} /\ UNCHANGED <<todo, queue, reports, dlqSent>> /\ g.m = f.m
      BY <1>3, <1>m, <2>1 DEF OnDelivery, MessageFrames
    <2> HIDE DEF g
    <2>3. NoNewWork(f)
      BY <2>1, <2>2 DEF NoNewWork
    <2>4. QED
      BY <2>2, <2>3, <1>n
  <1>4. CASE PollReturns(f)
    <2>1. f.at \in Locations /\ UNCHANGED <<todo, queue, reports, dlqSent>>
      BY <1>4 DEF PollReturns, Locations
    <2>2. Return(f) \/ Finish(f) \/ (Goto(f, "retry_produce") /\ Early(f))
      BY <1>4 DEF PollReturns, Early, EarlyLocations
    <2>3. QED
      BY <2>1, <2>2, <1>m, <1>n, ControlWork DEF Locations
  <1>5. CASE _increment_pending(f) \/ LeaveCallback(f) \/ write_bad_row_fallback(f) \/ FallbackRaises(f)
    <2>1. f.at \in Locations /\ UNCHANGED <<todo, queue, reports, dlqSent>>
      BY <1>5 DEF _increment_pending, LeaveCallback, write_bad_row_fallback, FallbackRaises, Locations
    <2>2. Return(f) \/ Finish(f) \/ \E l \in Locations \ EarlyLocations : Goto(f, l)
      BY <1>5 DEF _increment_pending, LeaveCallback, write_bad_row_fallback, FallbackRaises,
                  Locations, EarlyLocations
    <2>3. QED
      BY <2>1, <2>2, <1>m, <1>n, ControlWork
  <1>6. CASE FlushReturns(f) \/ Join(f)
    <2> DEFINE g == [f EXCEPT !.at = "join"]
    <2>1. UNCHANGED <<todo, queue, reports, dlqSent>> /\ frames' \subseteq (frames \ {f}) \cup {g}
      BY <1>6 DEF FlushReturns, Join, Goto, Return
    <2>2. ~Early(g)
      <3>1. f.at \notin Locations
        BY <1>6 DEF FlushReturns, Join, Locations
      <3>2. g.at = "join"
        BY <1>t, <3>1 DEF Frames, MessageFrames, FlushFrames
      <3>3. QED
        BY <3>2 DEF Early, EarlyLocations
    <2> HIDE DEF g
    <2>3. QED
      BY <2>1, <2>2, <1>n DEF NoNewWork
  <1>7. CASE Produce(f)
    <2>1. f.at \in Locations /\ Early(f) /\ "count" \in Locations \ EarlyLocations
      BY <1>7 DEF Produce, Locations, Early, EarlyLocations
    <2>2. dlqSent' = [dlqSent EXCEPT ![f.m] = @ + (IF FALSE THEN 1 ELSE 0)]
      <3>1. dlqSent' = dlqSent /\ dlqSent \in [Messages -> Nat] /\ f.m \in Messages
        BY <1>7, <1>t, <1>m, <2>1 DEF Produce, TypeOK
      <3>2. QED
        BY <3>1
    <2>3. /\ Goto(f, "count") /\ queue' = queue \cup {[m |-> f.m, dlq |-> FALSE]}
          /\ UNCHANGED <<todo, reports>>
      BY <1>7 DEF Produce
    <2>4. QED
      BY <2>1, <2>2, <2>3, <1>t, <1>m, WorkProduced
  <1>8. CASE ProduceDlq(f)
    <2>1. f.at \in Locations /\ Early(f) /\ {"dlq_poll", "dlq_attach"} \subseteq Locations \ EarlyLocations
      BY <1>8 DEF ProduceDlq, Locations, Early, EarlyLocations
    <2>2. dlqSent' = [dlqSent EXCEPT ![f.m] = @ + (IF TRUE THEN 1 ELSE 0)]
      BY <1>8 DEF ProduceDlq
    <2>3. /\ \E l \in {"dlq_poll", "dlq_attach"} : Goto(f, l)
          /\ queue' = queue \cup {[m |-> f.m, dlq |-> TRUE]} /\ UNCHANGED <<todo, reports>>
      BY <1>8 DEF ProduceDlq
    <2>4. QED
      BY <2>1, <2>2, <2>3, <1>t, <1>m, WorkProduced
  <1>9. ASSUME NEW r \in reports, ServeReport(f, r) PROVE OnePlace' /\ NoDlqLoop'
    <2>1. /\ reports' = reports \ {r} /\ UNCHANGED <<todo, queue, dlqSent>>
          /\ frames' \subseteq frames \cup {CallbackOf(f.t, f.d + 1, r)}
      BY <1>9 DEF ServeReport, Push
    <2>2. QED
      BY <2>1, <1>t, WorkReported DEF NoDlqLoop
  <1>10. CASE _add_delivery_callbacks(f)
    <2> DEFINE done == {r \in reports : r.m = f.m /\ r.dlq = (f.at = "dlq_attach")}
    <2>1. reports' = reports \ done /\ UNCHANGED <<todo, queue, dlqSent>>
      BY <1>10 DEF _add_delivery_callbacks
    <2>2. CASE done = {}
      <3>1. Return(f) /\ reports' = reports /\ f.at \in Locations
        BY <1>10, <2>1, <2>2 DEF _add_delivery_callbacks, Locations
      <3>2. QED
        BY <2>1, <3>1, <1>m, <1>n, ControlWork
    <2>3. CASE done # {}
      <3>1. PICK r \in done : frames' \subseteq frames \cup {CallbackOf(f.t, f.d, r)}
        BY <1>10, <2>3 DEF _add_delivery_callbacks, Return
      <3>2. r \in reports /\ r \notin reports' /\ reports' \subseteq reports
        BY <2>1
      <3> HIDE DEF done
      <3>3. QED
        BY <2>1, <3>1, <3>2, <1>t, WorkReported DEF NoDlqLoop
    <2>4. QED
      BY <2>2, <2>3
  <1>11. QED
    BY <1>1, <1>2, <1>3, <1>4, <1>5, <1>6, <1>7, <1>8, <1>9, <1>10 DEF Step

(* The invariant is inductive.                                             *)
LEMMA OnceStep == OnceInv /\ [Next]_vars => OnceInv'
  <1> SUFFICES ASSUME OnceInv, [Next]_vars PROVE OnceInv'
    OBVIOUS
  <1> USE DEF library
  <1>t. TypeOK' /\ OnePlace /\ NoDlqLoop
    BY TypeStep DEF OnceInv, OnePlace
  <1>i. ASSUME OnePlace', NoDlqLoop' PROVE OnceInv'
    BY <1>t, <1>i DEF OnceInv, OnePlace
  <1>1. ASSUME NEW f \in frames, Step(f) PROVE OnceInv'
    BY <1>1, <1>i, StepOnce
  <1>2. ASSUME NEW t \in Threads, NEW m \in todo, NEW op \in {"send", "send_bad_row"}, Call(t, m, op)
        PROVE  OnceInv'
    <2> DEFINE g == Activation(t, 0, op, m, "start", FALSE)
    <2>1. /\ frames' = frames \cup {g} /\ todo' = todo \ {m} /\ g.m = m
          /\ UNCHANGED <<queue, reports, dlqSent>>
      BY <1>2 DEF Call, Push, Activation
    <2> HIDE DEF g
    <2>2. OneFrame' /\ OneRecord'
      BY <1>t, <2>1 DEF OnePlace, OneFrame, OneRecord, Early
    <2>3. OneReport' /\ NoneYet'
      BY <1>t, <2>1 DEF OnePlace, OneReport, NoneYet, Early
    <2>4. QED
      BY <1>i, <1>t, <2>1, <2>2, <2>3 DEF OnePlace, NoDlqLoop
  <1>3. CASE Close \/ Exit \/ (\E t \in Threads : Flush(t)) \/ UNCHANGED vars
    <2>1. PICK g : ~Early(g) /\ frames' \subseteq frames \cup {g}
      <3>1. \A t, op : ~Early(Activation(t, 0, op, "none", "flush", FALSE))
        BY DEF Activation, Early, EarlyLocations
      <3>2. QED
        BY <1>3, <3>1 DEF Close, Exit, Flush, Push, vars
    <2>2. UNCHANGED <<todo, queue, reports, dlqSent>>
      BY <1>3 DEF Close, Exit, Flush, vars
    <2>3. OneFrame' /\ OneRecord'
      BY <1>t, <2>1, <2>2 DEF OnePlace, OneFrame, OneRecord, Early
    <2>4. OneReport' /\ NoneYet'
      BY <1>t, <2>1, <2>2 DEF OnePlace, OneReport, NoneYet, Early
    <2>5. QED
      BY <1>i, <1>t, <2>2, <2>3, <2>4 DEF OnePlace, NoDlqLoop
  <1>4. ASSUME NEW r \in reports, IOServes(r) PROVE OnceInv'
    <2>1. /\ reports' = reports \ {r} /\ UNCHANGED <<todo, queue, dlqSent>>
          /\ frames' \subseteq frames \cup {CallbackOf(IO, 0, r)}
      BY <1>4 DEF IOServes, Push
    <2>2. QED
      BY <2>1, <1>t, <1>i, WorkReported DEF NoDlqLoop
  <1>5. ASSUME NEW rec \in queue, BrokerAcks(rec) \/ \E reached \in BOOLEAN : DeliveryFails(rec, reached)
        PROVE  OnceInv'
    <2>1. PICK ok \in BOOLEAN : Answer(rec, ok)
      BY <1>5 DEF BrokerAcks, DeliveryFails
    <2>2. OnePlace'
      BY <1>t, <2>1, WorkAnswered
    <2>3. QED
      BY <1>t, <1>i, <2>1, <2>2 DEF Answer, NoDlqLoop
  <1>6. QED
    BY <1>1, <1>2, <1>3, <1>4, <1>5 DEF Next, Act

(* It holds initially.                                                     *)
LEMMA OnceInit == Init => OnceInv
  <1> SUFFICES ASSUME Init PROVE OnceInv
    OBVIOUS
  <1>1. frames = {} /\ queue = {} /\ reports = {} /\ todo = Messages
    BY DEF Init
  <1>2. \A m \in Messages : dlqSent[m] = 0
    BY DEF Init
  <1>3. QED
    BY <1>1, <1>2, InitType DEF OnceInv, OneFrame, OneRecord, OneReport, NoneYet, NoDlqLoop

(* However deliveries fail, and whichever threads serve the reports, at    *)
(* most one dead letter is produced for a message.                         *)
THEOREM DeadLettersEnd == Spec => []NoDlqLoop
  <1>1. OnceInv => NoDlqLoop
    BY DEF OnceInv
  <1>2. QED
    BY <1>1, OnceInit, OnceStep, PTL DEF Spec

-----------------------------------------------------------------------------
(* ExitLosesNothing.  With kafka-python a record that the library has is   *)
(* known to somebody: its callbacks are attached, or the activation that   *)
(* produced it will attach them.                                           *)

WillAttach(f, m, dlq) ==
  f.m = m /\ IF dlq THEN f.at = "dlq_attach" ELSE f.at \in {"count", "attach"}

Watched(m, dlq) ==
  [m |-> m, dlq |-> dlq] \in attached \/ \E f \in frames : WillAttach(f, m, dlq)

AllWatched ==
  /\ \A rec \in queue : Watched(rec.m, rec.dlq)
  /\ \A r \in reports : Watched(r.m, r.dlq)

(* The I/O thread is gone, and nothing is left that only it could do.      *)
Joined ==
  /\ shut /\ queue = {}
  /\ \A r \in reports : [m |-> r.m, dlq |-> r.dlq] \notin attached

(* close() does not end before that.                                       *)
Closing ==
  /\ closed => Joined \/ \E f \in frames : f.op = "close"
  /\ \A f \in frames : f.at = "join" => shut

EndedIdle == ended => closed /\ frames = {}

ExitInv == OnceInv /\ EndedIdle /\ (~Confluent => AllWatched /\ Closing)

(* A step keeps every record watched if it removes nobody who watches one. *)
LEMMA WatchStays ==
  ASSUME AllWatched, NEW f, frames \ {f} \subseteq frames', attached \subseteq attached',
         NEW m, NEW dlq, Watched(m, dlq), WillAttach(f, m, dlq) => Watched(m, dlq)'
  PROVE  Watched(m, dlq)'
  BY DEF Watched, WillAttach

(* Nor does a step of an activation that has nothing to attach.            *)
LEMMA WatchSame ==
  ASSUME AllWatched, NEW f, frames \ {f} \subseteq frames', f.at \notin {"count", "attach", "dlq_attach"},
         attached \subseteq attached', queue' \subseteq queue, reports' \subseteq reports
  PROVE  AllWatched'
  <1>1. \A m, dlq : ~WillAttach(f, m, dlq)
    BY DEF WillAttach
  <1>2. \A m, dlq : Watched(m, dlq) => Watched(m, dlq)'
    BY <1>1, WatchStays
  <1>3. QED
    BY <1>2 DEF AllWatched, Watched, WillAttach

(* close() goes on until the I/O thread is gone: what remains true if no   *)
(* record is produced and close() does not move.                           *)
LEMMA ClosingSame ==
  ASSUME Closing, UNCHANGED <<closed, shut>>, queue' \subseteq queue, reports' \subseteq reports,
         NEW f, frames \ {f} \subseteq frames', f.op # "close" \/ f \in frames',
         \A g \in frames' \ frames : g.at # "join",
         \A r \in reports' : [m |-> r.m, dlq |-> r.dlq] \in attached' => [m |-> r.m, dlq |-> r.dlq] \in attached
  PROVE  Closing'
  <1>1. Joined => Joined'
    BY DEF Joined
  <1>2. (\E g \in frames : g.op = "close") => \E g \in frames' : g.op = "close"
    OBVIOUS
  <1>3. \A g \in frames' : g.at = "join" => shut
    BY DEF Closing
  <1>4. QED
    BY <1>1, <1>2, <1>3 DEF Closing

(* An activation of close() or flush() is at no location of a message.     *)
LEMMA CloseHasNoMessage ==
  ASSUME NEW f \in Frames, f.at \in Locations
  PROVE  f.op # "close"
  BY HasMessage DEF MessageFrames

(* A step of an activation, with kafka-python.                             *)
LEMMA StepExit ==
  ASSUME ExitInv, ~Confluent, UNCHANGED backend, NEW f \in frames, Step(f)
  PROVE  AllWatched' /\ Closing'
  <1> USE DEF library
  <1>t. frames \subseteq Frames /\ f \in Frames /\ AllWatched /\ Closing /\ OnePlace
    BY DEF ExitInv, OnceInv, OnePlace, TypeOK
  <1>m. f.at \in Locations => f \in MessageFrames /\ f.op # "close"
    BY <1>t, HasMessage, CloseHasNoMessage
  <1>g. ASSUME f.at \in Locations, UNCHANGED <<closed, shut, queue, reports, attached>>,
               Return(f) \/ Finish(f) \/ \E l \in Locations : Goto(f, l)
        PROVE  /\ Closing'
               /\ f.at \notin {"count", "attach", "dlq_attach"} => AllWatched'
    <2>1. frames \ {f} \subseteq frames'
      BY <1>g, ControlKeeps
    <2>2. \A g \in frames' \ frames : g.at # "join"
      <3>1. ASSUME NEW l \in Locations, Goto(f, l), NEW g \in frames' \ frames PROVE g.at = l
        <4>1. g = [f EXCEPT !.at = l]
          BY <3>1 DEF Goto
        <4>2. QED
          BY <4>1, <1>g, <1>m, Moved
      <3>2. "leave" \in Locations /\ "join" \notin Locations
        BY DEF Locations
      <3>3. QED
        BY <1>g, <3>1, <3>2 DEF Finish, Return
    <2>3. QED
      BY <1>g, <1>m, <1>t, <2>1, <2>2, ClosingSame, WatchSame
  <1>1. CASE SendChecks(f) \/ BadRowChecks(f) \/ BufferFull(f) \/ ProduceRaises(f) \/ PollReturns(f)
    <2>1. /\ f.at \in Locations \ {"count", "attach", "dlq_attach"}
          /\ UNCHANGED <<closed, shut, queue, reports, attached>>
      BY <1>1 DEF SendChecks, BadRowChecks, BufferFull, ProduceRaises, PollReturns, Locations
    <2>2. Return(f) \/ Finish(f) \/ \E l \in Locations : Goto(f, l)
      BY <1>1 DEF SendChecks, BadRowChecks, BufferFull, ProduceRaises, PollReturns, Locations
    <2>3. QED
      BY <2>1, <2>2, <1>g
  <1>2. CASE \/ _decrement_pending(f) \/ LeaveCallback(f) \/ _handle_delivery_failure(f)
             \/ ProduceDlqRaises(f) \/ write_bad_row_fallback(f) \/ FallbackRaises(f)
    <2>1. /\ f.at \in Locations \ {"count", "attach", "dlq_attach"}
          /\ UNCHANGED <<closed, shut, queue, reports, attached>>
      BY <1>2 DEF _decrement_pending, LeaveCallback, _handle_delivery_failure, ProduceDlqRaises,
                  write_bad_row_fallback, FallbackRaises, Locations
    <2>2. Return(f) \/ Finish(f) \/ \E l \in Locations : Goto(f, l)
      BY <1>2 DEF _decrement_pending, LeaveCallback, _handle_delivery_failure, ProduceDlqRaises,
                  write_bad_row_fallback, FallbackRaises, Locations
    <2>3. QED
      BY <2>1, <2>2, <1>g
  <1>3. CASE _increment_pending(f)
    <2>1. /\ f.at = "count" /\ Goto(f, "attach") /\ {"count", "attach"} \subseteq Locations
          /\ UNCHANGED <<closed, shut, queue, reports, attached>>
      BY <1>3 DEF _increment_pending, Locations
    <2>2. Closing'
      BY <2>1, <1>g
    <2>3. \A m, dlq : WillAttach(f, m, dlq) => Watched(m, dlq)'
      <3> DEFINE g == [f EXCEPT !.at = "attach"]
      <3>1. g \in frames' /\ g.at = "attach" /\ g.m = f.m
        BY <2>1, <1>m, Moved DEF Goto
      <3>2. QED
        BY <2>1, <3>1 DEF WillAttach, Watched
    <2>4. \A m, dlq : Watched(m, dlq) => Watched(m, dlq)'
      BY <2>1, <2>3, <1>t, WatchStays, ControlKeeps
    <2>5. QED
      BY <2>1, <2>2, <2>4, <1>t DEF AllWatched, Watched, WillAttach
  <1>4. CASE OnDelivery(f)
    <2> DEFINE g == [f EXCEPT !.at = "decrement", !.seen = pending]
    <2>1. f.at \in Locations /\ f.at = "callback"
      BY <1>4 DEF OnDelivery, Locations
    <2>2. frames' = (frames \ {f}) \cup {g} /\ UNCHANGED <<closed, queue, attached, reports, shut>>
      BY <1>4 DEF OnDelivery
    <2>3. g.at = "decrement"
      BY <1>m, <2>1 DEF MessageFrames
    <2> HIDE DEF g
    <2>4. QED
      BY <2>1, <2>2, <2>3, <1>t, <1>m, WatchSame, ClosingSame
  <1>5. CASE Produce(f) \/ ProduceDlq(f)
    <2>1. PICK dlq \in BOOLEAN, l \in {"count", "dlq_attach"} :
            /\ queue' = queue \cup {[m |-> f.m, dlq |-> dlq]} /\ Goto(f, l)
            /\ l = IF dlq THEN "dlq_attach" ELSE "count"
      BY <1>5 DEF Produce, ProduceDlq
    <2>2. /\ f.at \in Locations \ {"count", "attach", "dlq_attach"} /\ ~shut
          /\ UNCHANGED <<closed, attached, reports, shut>>
      BY <1>5 DEF Produce, ProduceDlq, Locations
    <2> DEFINE g == [f EXCEPT !.at = l]
               rec == [m |-> f.m, dlq |-> dlq]
    <2>3. g.at = l /\ g.m = f.m /\ frames' = (frames \ {f}) \cup {g}
      BY <1>m, <2>1, <2>2, Moved DEF Goto, Locations
    <2>4. queue' = queue \cup {rec} /\ rec.m = f.m /\ rec.dlq = dlq
      BY <2>1
    <2> HIDE DEF g, rec
    <2>5. Watched(f.m, dlq)'
      BY <2>1, <2>3 DEF Watched, WillAttach
    <2>6. \A n, d : Watched(n, d) => Watched(n, d)'
      BY <2>2, <2>3, <1>t, WatchStays DEF WillAttach
    <2>7. AllWatched'
      BY <2>2, <2>4, <2>5, <2>6, <1>t DEF AllWatched, Watched, WillAttach
    <2>8. Closing'
      BY <2>1, <2>2, <2>3, <1>t, <1>m DEF Closing, Joined
    <2>9. QED
      BY <2>7, <2>8
  <1>6. CASE FlushReturns(f)
    <2> DEFINE g == [f EXCEPT !.at = "join"]
    <2>1. f \in FlushFrames /\ f.at = "flush" /\ UNCHANGED <<closed, queue, attached, reports>>
      BY <1>6, <1>t, HasMessage DEF FlushReturns, Frames, MessageFrames, Locations
    <2>2. g.at = "join" /\ g.op = f.op
      BY <2>1 DEF FlushFrames
    <2>3. frames \ {f} \subseteq frames'
      BY <1>6 DEF FlushReturns, Goto, Return
    <2>4. AllWatched'
      BY <2>1, <2>3, <1>t, WatchSame
    <2>5. CASE f.op = "close"
      <3>1. frames' = (frames \ {f}) \cup {g} /\ shut' = TRUE
        BY <1>6, <2>5 DEF FlushReturns, Goto
      <3> HIDE DEF g
      <3>2. QED
        BY <2>2, <2>4, <2>5, <3>1 DEF Closing
    <2>6. CASE f.op # "close"
      <3>1. frames' = frames \ {f} /\ shut' = shut
        BY <1>6, <2>6 DEF FlushReturns, Return
      <3>2. QED
        BY <2>1, <2>4, <2>6, <3>1, <1>t, ClosingSame
    <2>7. QED
      BY <2>5, <2>6
  <1>7. CASE Join(f)
    <2>1. /\ f.at = "join" /\ frames' = frames \ {f} /\ shut
          /\ UNCHANGED <<closed, queue, attached, reports, shut>>
      BY <1>7, <1>t DEF Join, Return, Closing
    <2>2. AllWatched'
      BY <2>1, <1>t, WatchSame
    <2>3. Joined'
      BY <1>7, <2>1 DEF Join, Joined
    <2>4. QED
      BY <2>1, <2>2, <2>3, <1>t DEF Closing
  <1>8. CASE _add_delivery_callbacks(f)
    <2> DEFINE dlqRec == f.at = "dlq_attach"
               rec == [m |-> f.m, dlq |-> dlqRec]
               done == {r \in reports : r.m = f.m /\ r.dlq = dlqRec}
    <2>1. /\ f.at \in {"attach", "dlq_attach"} /\ f.at \in Locations
          /\ reports' = reports \ done /\ UNCHANGED <<closed, queue, shut>>
      BY <1>8 DEF _add_delivery_callbacks, Locations
    <2>2. rec.m = f.m /\ rec.dlq = dlqRec /\ dlqRec \in BOOLEAN
      OBVIOUS
    <2>3. frames \ {f} \subseteq frames' /\ attached \subseteq attached'
      BY <1>8 DEF _add_delivery_callbacks, Return
    <2>4. \A g \in frames' \ frames : g.at # "join"
      BY <1>8 DEF _add_delivery_callbacks, Return, CallbackOf, Activation
    <2>5. \A n : \A d \in BOOLEAN : WillAttach(f, n, d) => n = f.m /\ d = dlqRec
      BY <2>1 DEF WillAttach
    <2>b. /\ \A q \in queue : q.dlq \in BOOLEAN
          /\ \A r \in reports : r.dlq \in BOOLEAN
      BY DEF ExitInv, OnceInv, TypeOK, Records, Reports
    <2>6. CASE done = {}
      <3>1. attached' = attached \cup {rec} /\ reports' = reports
        BY <1>8, <2>1, <2>6 DEF _add_delivery_callbacks
      <3>2. \A r \in reports : [m |-> r.m, dlq |-> r.dlq] # rec
        BY <2>6
      <3>3. Watched(f.m, dlqRec)'
        BY <3>1 DEF Watched
      <3> HIDE DEF rec, dlqRec
      <3>4. \A n : \A d \in BOOLEAN : Watched(n, d) => Watched(n, d)'
        BY <2>3, <2>5, <3>3, <1>t, WatchStays
      <3>5. AllWatched'
        BY <2>1, <2>b, <3>1, <3>4, <1>t DEF AllWatched, Watched, WillAttach
      <3>6. QED
        BY <2>1, <2>3, <2>4, <3>1, <3>2, <3>5, <1>t, <1>m, ClosingSame
    <2>7. CASE done # {}
      <3>1. attached' = attached
        BY <1>8, <2>7 DEF _add_delivery_callbacks
      <3>2. PICK r \in reports : r.m = f.m /\ r.dlq = dlqRec
        BY <2>7
      <3>3. (\A q \in queue : q.m # f.m) /\ \A s \in reports' : s.m # f.m
        BY <2>1, <3>2, <1>t DEF OnePlace, OneReport
      <3> HIDE DEF rec, dlqRec, done
      <3>4. \A n : \A d \in BOOLEAN : n # f.m /\ Watched(n, d) => Watched(n, d)'
        BY <2>3, <2>5, <1>t, WatchStays
      <3>5. AllWatched'
        BY <2>1, <2>b, <3>3, <3>4, <1>t DEF AllWatched, Watched, WillAttach
      <3>6. reports' \subseteq reports
        BY <2>1
      <3>7. QED
        BY <2>1, <2>3, <2>4, <3>1, <3>5, <3>6, <1>t, <1>m, ClosingSame
    <2>8. QED
      BY <2>6, <2>7
  <1>9. ~\E r \in reports : ServeReport(f, r)
    BY DEF ServeReport
  <1>10. QED
    BY <1>1, <1>2, <1>3, <1>4, <1>5, <1>6, <1>7, <1>8, <1>9 DEF Step

(* The invariant is inductive.                                             *)
LEMMA ExitStep == ExitInv /\ [Next]_vars => ExitInv'
  <1> SUFFICES ASSUME ExitInv, [Next]_vars PROVE ExitInv'
    OBVIOUS
  <1> USE DEF library
  <1>t. OnceInv' /\ (Confluent' <=> Confluent)
    BY OnceStep DEF ExitInv, Next, vars, Confluent
  <1>i. ASSUME EndedIdle', ~Confluent => AllWatched' /\ Closing' PROVE ExitInv'
    BY <1>t, <1>i DEF ExitInv
  <1>w. ~Confluent => AllWatched /\ Closing
    BY DEF ExitInv
  <1>e. ~Exit /\ Next => EndedIdle'
    <2> SUFFICES ASSUME ~Exit, Next PROVE EndedIdle'
      OBVIOUS
    <2>1. EndedIdle
      BY DEF ExitInv
    <2>2. ended' = ended
      BY DEF Next, Act, Step, Call, SendChecks, BadRowChecks, Produce, BufferFull, ProduceRaises,
           _increment_pending, PollReturns, _add_delivery_callbacks, OnDelivery,
           _decrement_pending, LeaveCallback, _handle_delivery_failure, ProduceDlq,
           ProduceDlqRaises, write_bad_row_fallback, FallbackRaises, FlushReturns, Join, ServeReport,
           Flush, Close, IOServes, BrokerAcks, DeliveryFails, Answer
    <2>3. Act /\ ~Exit /\ ended => \E f \in frames : Step(f)
      BY DEF Act, Flush, Call, Close, IOServes, BrokerAcks, DeliveryFails, Answer, Idle
    <2>4. QED
      BY <2>1, <2>2, <2>3 DEF EndedIdle, Next
  <1>1. ASSUME NEW f \in frames, Step(f), Next, ~Exit PROVE ExitInv'
    <2>1. UNCHANGED backend
      BY <1>1 DEF Next
    <2>2. ~Confluent => AllWatched' /\ Closing'
      BY <1>1, <2>1, StepExit
    <2>3. QED
      BY <1>1, <1>e, <1>i, <2>2
  <1>2. ASSUME NEW g, frames' = frames \cup {g}, g.at # "join", queue' \subseteq queue,
               reports' \subseteq reports, UNCHANGED <<attached, shut>>,
               (closed' => closed \/ g.op = "close"), EndedIdle'
        PROVE  ExitInv'
    <2>1. ASSUME ~Confluent PROVE AllWatched' /\ Closing'
      <3>1. \A m, dlq : Watched(m, dlq) => Watched(m, dlq)'
        BY <1>2 DEF Watched, WillAttach
      <3>2. AllWatched'
        BY <1>2, <1>w, <2>1, <3>1 DEF AllWatched, Watched, WillAttach
      <3>3. Joined => Joined'
        BY <1>2 DEF Joined
      <3>4. Closing'
        BY <1>2, <1>w, <2>1, <3>3 DEF Closing
      <3>5. QED
        BY <3>2, <3>4
    <2>2. QED
      BY <1>2, <1>i, <2>1
  <1>3. ASSUME NEW t \in Threads, NEW m \in todo, NEW op \in {"send", "send_bad_row"}, Call(t, m, op),
               Next, ~Exit
        PROVE  ExitInv'
    <2> DEFINE g == Activation(t, 0, op, m, "start", FALSE)
    <2>1. frames' = frames \cup {g} /\ UNCHANGED <<closed, queue, attached, reports, shut>>
      BY <1>3 DEF Call, Push
    <2>2. g.at # "join"
      BY DEF Activation
    <2> HIDE DEF g
    <2>3. QED
      BY <2>1, <2>2, <1>2, <1>3, <1>e
  <1>4. ASSUME NEW t \in Threads, Flush(t) \/ Close, Next, ~Exit PROVE ExitInv'
    <2> DEFINE g(u, op) == Activation(u, 0, op, "none", "flush", FALSE)
    <2>0. \A u, op : g(u, op).at # "join" /\ g(u, op).op = op
      BY DEF Activation
    <2>1. PICK u, op : frames' = frames \cup {g(u, op)} /\ (closed' => closed \/ op = "close")
      <3>1. Flush(t) => frames' = frames \cup {g(t, "flush")} /\ closed' = closed
        BY DEF Flush, Push
      <3>2. Close => frames' = frames \cup {g(Main, "close")}
        BY DEF Close, Push
      <3> HIDE DEF g
      <3>3. QED
        BY <1>4, <3>1, <3>2
    <2> HIDE DEF g
    <2>2. UNCHANGED <<queue, attached, reports, shut>>
      BY <1>4 DEF Flush, Close
    <2>3. QED
      BY <2>0, <2>1, <2>2, <1>2, <1>4, <1>e
  <1>5. ASSUME NEW r \in reports, IOServes(r), Next, ~Exit PROVE ExitInv'
    <2> DEFINE g == CallbackOf(IO, 0, r)
    <2>1. /\ frames' = frames \/ frames' = frames \cup {g}
          /\ reports' = reports \ {r} /\ UNCHANGED <<closed, queue, attached, shut>>
      BY <1>5 DEF IOServes, Push
    <2>2. g.at # "join"
      BY DEF CallbackOf, Activation
    <2> HIDE DEF g
    <2>3. ASSUME ~Confluent PROVE AllWatched' /\ Closing'
      <3>1. \A m, dlq : Watched(m, dlq) => Watched(m, dlq)'
        BY <2>1 DEF Watched, WillAttach
      <3>2. AllWatched'
        BY <2>1, <1>w, <2>3, <3>1 DEF AllWatched, Watched, WillAttach
      <3>3. Joined => Joined'
        BY <2>1 DEF Joined
      <3>4. Closing'
        BY <2>1, <2>2, <1>w, <2>3, <3>3 DEF Closing
      <3>5. QED
        BY <3>2, <3>4
    <2>4. QED
      BY <2>3, <1>5, <1>e, <1>i
  <1>6. ASSUME NEW rec \in queue, BrokerAcks(rec) \/ \E reached \in BOOLEAN : DeliveryFails(rec, reached),
               Next, ~Exit
        PROVE  ExitInv'
    <2>1. PICK ok \in BOOLEAN : Answer(rec, ok)
      BY <1>6 DEF BrokerAcks, DeliveryFails
    <2> DEFINE r == [m |-> rec.m, dlq |-> rec.dlq, ok |-> ok]
    <2>2. /\ r.m = rec.m /\ r.dlq = rec.dlq
          /\ queue' = queue \ {rec} /\ reports' = reports \cup {r}
          /\ UNCHANGED <<frames, closed, attached, shut>>
      BY <2>1 DEF Answer
    <2> HIDE DEF r
    <2>3. ASSUME ~Confluent PROVE AllWatched' /\ Closing'
      <3>1. AllWatched'
        BY <2>2, <2>3, <1>w DEF AllWatched, Watched, WillAttach
      <3>2. ~Joined
        BY DEF Joined
      <3>3. Closing'
        BY <2>2, <2>3, <3>2, <1>w DEF Closing
      <3>4. QED
        BY <3>1, <3>3
    <2>4. QED
      BY <2>3, <1>6, <1>e, <1>i
  <1>7. CASE Exit \/ UNCHANGED vars
    <2>1. UNCHANGED <<frames, closed, library>>
      BY <1>7 DEF Exit, vars
    <2>2. EndedIdle'
      BY <1>7, <2>1 DEF Exit, vars, EndedIdle, ExitInv
    <2>3. ASSUME ~Confluent PROVE AllWatched' /\ Closing'
      BY <2>1, <2>3, <1>w DEF AllWatched, Watched, WillAttach, Closing, Joined
    <2>4. QED
      BY <2>2, <2>3, <1>i
  <1>8. QED
    BY <1>1, <1>3, <1>4, <1>5, <1>6, <1>7, ConstantsAssumption DEF Next, Act

(* With kafka-python nothing is left behind at exit, whatever the flush of *)
(* close() and the threads that are still sending do.                      *)
THEOREM NothingLeftBehind == Spec => []ExitLosesNothing
  <1>1. Init => ExitInv
    <2> SUFFICES ASSUME Init PROVE ExitInv
      OBVIOUS
    <2>1. /\ frames = {} /\ queue = {} /\ reports = {} /\ ~closed /\ ~ended
      BY DEF Init
    <2>2. QED
      BY <2>1, OnceInit DEF ExitInv, EndedIdle, AllWatched, Closing
  <1>2. ExitInv /\ Accounted => ExitLosesNothing
    <2> SUFFICES ASSUME ExitInv, Accounted, ~Confluent, ended PROVE \A m \in Messages \ todo : Settled(m)
      BY DEF ExitLosesNothing
    <2>1. closed /\ frames = {} /\ AllWatched /\ Closing
      BY DEF ExitInv, EndedIdle
    <2>2. queue = {} /\ reports = {}
      BY <2>1 DEF Closing, Joined, AllWatched, Watched
    <2>3. QED
      BY <2>1, <2>2 DEF Accounted
  <1>3. QED
    BY <1>1, <1>2, ExitStep, NothingVanishes, PTL DEF Spec
=============================================================================
