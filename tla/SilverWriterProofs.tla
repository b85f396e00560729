------------------------- MODULE SilverWriterProofs -------------------------
(***************************************************************************)
(* Proofs about SilverWriter for any set of queries, any number of batches *)
(* and any number of faults and crashes.                                   *)
(***************************************************************************)
EXTENDS SilverWriter, TLAPS

-----------------------------------------------------------------------------
(* Lemmas about the operators.                                             *)

(* _classify_ch_error always returns one of the error types.               *)
LEMMA ClassifyType == \A e : _classify_ch_error(e) \in ErrorTypes
  BY DEF _classify_ch_error, ErrorTypes

(* Retention moves files from the directory to the history: no dead letter *)
(* is forgotten or invented.                                               *)
LEMMA CleanupMoves ==
  ASSUME NEW own, _cleanup_old_dlq_files(own)
  PROVE  /\ dlq' \cup purged' = dlq \cup purged
         /\ dlq' \subseteq dlq
  <1>1. CASE ~CleanupEnabled
    BY <1>1 DEF _cleanup_old_dlq_files
  <1>2. CASE CleanupEnabled
    <2>1. PICK cutoff \in 0..clock : \E byAge \in Unlinked(Aged(own, cutoff)) :
            \E deleted \in Unlinked(byAge) : \E byCount \in Unlinked(Excess(deleted)) :
              /\ dlq' = dlq \ (byAge \cup byCount)
              /\ purged' = purged \cup byAge \cup byCount
      BY <1>2 DEF _cleanup_old_dlq_files
    <2>2. PICK byAge \in Unlinked(Aged(own, cutoff)) :
            \E deleted \in Unlinked(byAge) : \E byCount \in Unlinked(Excess(deleted)) :
              /\ dlq' = dlq \ (byAge \cup byCount)
              /\ purged' = purged \cup byAge \cup byCount
      BY <2>1
    <2>3. PICK deleted \in Unlinked(byAge) : \E byCount \in Unlinked(Excess(deleted)) :
              /\ dlq' = dlq \ (byAge \cup byCount)
              /\ purged' = purged \cup byAge \cup byCount
      BY <2>2
    <2>4. PICK byCount \in Unlinked(Excess(deleted)) :
              /\ dlq' = dlq \ (byAge \cup byCount)
              /\ purged' = purged \cup byAge \cup byCount
      BY <2>3
    <2>5. Aged(own, cutoff) \subseteq dlq
      BY DEF Aged
    <2>6. Excess(deleted) \subseteq dlq
      BY DEF Excess
    <2>7. byAge \subseteq dlq /\ byCount \subseteq dlq
      BY <2>5, <2>6 DEF Unlinked
    <2>8. QED
      BY <2>4, <2>7
  <1>3. QED
    BY <1>1, <1>2

-----------------------------------------------------------------------------
(* Type correctness.  A batch number stays within the batches only because *)
(* a handler runs for a batch that is not yet committed.                   *)

InRange == \A q \in Queries : pc[q] # "idle" => committed[q] < MaxBatch

TypeInv == TypeOK /\ InRange

(* An audit event keeps the type of the audit log.                         *)
LEMMA AuditType ==
  ASSUME audit \in [Queries -> [Batches -> Statuses]],
         NEW q \in Queries, Current(q) \in Batches,
         NEW status \in Statuses, log_write_audit_event(q, status)
  PROVE  audit' \in [Queries -> [Batches -> Statuses]]
  <1>1. [audit[q] EXCEPT ![Current(q)] = status] \in [Batches -> Statuses]
    OBVIOUS
  <1>2. audit' = [audit EXCEPT ![q] = [audit[q] EXCEPT ![Current(q)] = status]]
    BY DEF log_write_audit_event
  <1>3. QED
    BY <1>1, <1>2

(* So does the application of an insert of a batch of the right query.     *)
LEMMA ApplyType ==
  ASSUME stored \in [Queries -> SUBSET Batches], newest \in [Queries -> 0..MaxBatch],
         NEW q \in Queries, NEW b \in Batches, Apply(q, b)
  PROVE  stored' \in [Queries -> SUBSET Batches] /\ newest' \in [Queries -> 0..MaxBatch]
  BY ConstantsAssumption DEF Apply, Batches

(* Completing a dead letter keeps it a dead letter.                        *)
LEMMA WithDataType ==
  ASSUME NEW S \in SUBSET Files, NEW t
  PROVE  WithData(S, t) \subseteq Files
  <1> SUFFICES ASSUME NEW f \in S
               PROVE  [f EXCEPT !.data = (f.at = t) \/ @] \in Files
    BY DEF WithData
  <1>1. f \in Files
    OBVIOUS
  <1>2. ((f.at = t) \/ f.data) \in BOOLEAN
    BY <1>1 DEF Files
  <1>3. QED
    BY <1>1, <1>2 DEF Files

(* TypeInv is inductive.                                                   *)
LEMMA TypeInvStep == TypeInv /\ [Next]_vars => TypeInv'
  <1> SUFFICES ASSUME TypeInv, [Next]_vars PROVE TypeInv'
    OBVIOUS
  <1>w. raiseAfterDlq' = raiseAfterDlq /\ refused' = refused
    BY DEF Next, vars, given
  <1> USE <1>w
  <1> USE ConstantsAssumption
  <1>t. TypeOK /\ InRange
    BY DEF TypeInv
  <1>c. \A q \in Queries : pc[q] # "idle" => Current(q) \in Batches
    BY <1>t DEF TypeOK, InRange, Current, Batches
  <1> USE DEF TypeOK, InRange, durable, local, bounds, Goto, Fault, Locations
  <1>1. ASSUME NEW q \in Queries, Plan(q) PROVE TypeInv'
    BY <1>1, <1>t DEF Plan, TypeInv
  <1>2. ASSUME NEW q \in Queries, SkipEmpty(q) \/ Collect(q) PROVE TypeInv'
    <2>1. audit' \in [Queries -> [Batches -> Statuses]]
      BY <1>2, <1>t, <1>c, AuditType DEF SkipEmpty, Collect, Statuses
    <2>2. QED
      BY <1>2, <1>t, <2>1 DEF SkipEmpty, Collect, TypeInv
  <1>3. ASSUME NEW q \in Queries, NEW e \in Exceptions, NEW got \in BOOLEAN, CollectRaises(q, e, got)
        PROVE  TypeInv'
    BY <1>3, <1>t, ClassifyType DEF CollectRaises, TypeInv
  <1>4. ASSUME NEW q \in Queries, InsertSucceeds(q) PROVE TypeInv'
    <2>1. audit' \in [Queries -> [Batches -> Statuses]]
      BY <1>4, <1>t, <1>c, AuditType DEF InsertSucceeds, Statuses
    <2>2. QED
      BY <1>4, <1>t, <1>c, <2>1, ApplyType DEF InsertSucceeds, TypeInv
  <1>5. ASSUME NEW q \in Queries, NEW e, NEW effect, InsertRaises(q, e, effect) PROVE TypeInv'
    <2>1. stored' \in [Queries -> SUBSET Batches] /\ newest' \in [Queries -> 0..MaxBatch]
      BY <1>5, <1>t, <1>c, ApplyType DEF InsertRaises
    <2>2. inflight' \in [Queries -> SUBSET Batches]
      BY <1>5, <1>t, <1>c DEF InsertRaises
    <2>3. error' \in [Queries -> ErrorTypes \cup {"none"}]
      BY <1>5, <1>t, ClassifyType DEF InsertRaises
    <2>4. QED
      BY <1>5, <1>t, <2>1, <2>2, <2>3 DEF InsertRaises, TypeInv
  <1>6. ASSUME NEW q \in Queries, NEW b \in Batches, NEW applied \in BOOLEAN, LateInsertEnds(q, b, applied)
        PROVE  TypeInv'
    <2>1. stored' \in [Queries -> SUBSET Batches] /\ newest' \in [Queries -> 0..MaxBatch]
      BY <1>6, <1>t, ApplyType DEF LateInsertEnds
    <2>2. QED
      BY <1>6, <1>t, <2>1 DEF LateInsertEnds, TypeInv
  <1>7. ASSUME NEW q \in Queries, DirectExcept(q) PROVE TypeInv'
    <2>1. audit' \in [Queries -> [Batches -> Statuses]]
      BY <1>7, <1>t, <1>c, AuditType DEF DirectExcept, Statuses
    <2>2. QED
      BY <1>7, <1>t, <2>1 DEF DirectExcept, TypeInv
  <1>8. ASSUME NEW q \in Queries, CommonExcept(q) PROVE TypeInv'
    <2>1. audit' \in [Queries -> [Batches -> Statuses]]
      BY <1>8, <1>t, <1>c, AuditType DEF CommonExcept, Statuses
    <2>2. pc' \in [Queries -> Locations] /\ InRange'
      BY <1>8, <1>t DEF CommonExcept
    <2>3. failures' \in [Queries -> Nat]
      BY <1>8, <1>t DEF CommonExcept
    <2>4. QED
      BY <1>8, <1>t, <2>1, <2>2, <2>3 DEF CommonExcept, TypeInv
  <1>9. ASSUME NEW q \in Queries, WriteDlqMetadata(q) PROVE TypeInv'
    <2>1. [q |-> q, b |-> Current(q), at |-> clock', counted |-> pdf[q], data |-> FALSE] \in Files
      <3>1. pdf[q] \in BOOLEAN /\ Current(q) \in Batches /\ clock' \in Nat
        BY <1>9, <1>t, <1>c DEF WriteDlqMetadata
      <3>2. QED
        BY <3>1 DEF Files
    <2>2. dlq' \subseteq Files
      BY <1>9, <1>t, <2>1 DEF WriteDlqMetadata
    <2>3. QED
      BY <1>9, <1>t, <2>2 DEF WriteDlqMetadata, TypeInv
  <1>10. ASSUME NEW q \in Queries, WriteDlqData(q) PROVE TypeInv'
    <2>1. dlq' \subseteq Files /\ purged' \subseteq Files
      BY <1>10, <1>t, WithDataType DEF WriteDlqData
    <2>2. QED
      BY <1>10, <1>t, <2>1 DEF WriteDlqData, TypeInv
  <1>11. ASSUME NEW q \in Queries, DlqWriteRaises(q) PROVE TypeInv'
    BY <1>11, <1>t DEF DlqWriteRaises, TypeInv
  <1>12. ASSUME NEW q \in Queries, Cleanup(q) PROVE TypeInv'
    <2>1. dlq' \cup purged' = dlq \cup purged
      BY <1>12, CleanupMoves DEF Cleanup
    <2>2. QED
      BY <1>12, <1>t, <2>1 DEF Cleanup, TypeInv
  <1>13. ASSUME NEW q \in Queries, Decide(q) PROVE TypeInv'
    BY <1>13, <1>t DEF Decide, TypeInv
  <1>14. ASSUME NEW q \in Queries, Commit(q) PROVE TypeInv'
    <2>1. streak' \in [Queries -> Nat]
      <3>1. PICK n \in {streak[q] + 1, streak[q], 0} : streak' = [streak EXCEPT ![q] = n]
        BY <1>14 DEF Commit
      <3>2. QED
        BY <3>1, <1>t
    <2>2. committed' \in [Queries -> 0..MaxBatch]
      BY <1>14, <1>t DEF Commit
    <2>3. QED
      BY <1>14, <1>t, <2>1, <2>2 DEF Commit, TypeInv
  <1>15. CASE CleanupIntervalElapses
    BY <1>15, <1>t DEF CleanupIntervalElapses, TypeInv
  <1>16. CASE Shutdown \/ Crash
    <2>1. ProcessEnds /\ crashes' \in Nat /\ faults' \in Nat
      BY <1>16, <1>t DEF Shutdown, Crash
    <2>2. InRange'
      BY <2>1 DEF ProcessEnds
    <2>3. inflight' \in [Queries -> SUBSET Batches]
      <3>1. PICK S \in SUBSET {q \in Queries : pc[q] = "insert"} :
              inflight' = [q \in Queries |-> IF q \in S THEN inflight[q] \cup {Current(q)} ELSE inflight[q]]
        BY <2>1 DEF ProcessEnds
      <3>2. \A q \in S : Current(q) \in Batches
        BY <1>c
      <3>3. QED
        BY <3>1, <3>2, <1>t
    <2>4. TypeOK'
      BY <2>1, <2>3, <1>t DEF ProcessEnds
    <2>5. QED
      BY <2>2, <2>4 DEF TypeInv
  <1>17. CASE Restart
    BY <1>17, <1>t DEF Restart, TypeInv
  <1>18. CASE UNCHANGED vars
    BY <1>18, <1>t DEF vars, TypeInv
  <1>19. QED
    BY <1>1, <1>2, <1>3, <1>4, <1>5, <1>6, <1>7, <1>8, <1>9, <1>10, <1>11, <1>12, <1>13,
       <1>14, <1>15, <1>16, <1>17, <1>18 DEF Next, Act, Handler

(* It holds initially.                                                     *)
LEMMA InitTypeInv == Init => TypeInv
  <1> SUFFICES ASSUME Init PROVE TypeInv
    OBVIOUS
  <1>1. audit \in [Queries -> [Batches -> Statuses]]
    BY DEF Init, Statuses
  <1>2. TypeOK
    BY <1>1, ConstantsAssumption DEF Init, TypeOK, Locations
  <1>3. QED
    BY <1>2 DEF Init, TypeInv, InRange

(* Every variable of the write path keeps its type.                        *)
THEOREM TypeCorrect == Spec => []TypeOK
  <1>1. TypeInv => TypeOK
    BY DEF TypeInv
  <1>2. QED
    BY <1>1, InitTypeInv, TypeInvStep, PTL DEF Spec

-----------------------------------------------------------------------------
(* The inductive invariant.  NoSilentLoss is about committed batches, but  *)
(* the obligation to account for a batch arises while its handler runs:    *)
(* the invariant says what is known of the current batch at each location. *)

DlqLocations == {"dlq_metadata", "dlq_data", "cleanup", "decide"}

(* Which handler is where, and with which error.                           *)
DispatchInv(q) ==
  /\ pc[q] \in {"collect", "insert"} => error[q] = "none"
  /\ pc[q] \in {"except"} \cup DlqLocations => error[q] # "none"
  /\ pc[q] \in DlqLocations => q \in Common /\ ~_is_spark_operational_error(error[q])
  /\ pc[q] = "insert" => ~Empty(q, Current(q))

(* dlq_persisted is true only if a complete dead letter was written.       *)
LetterInv(q) ==
  /\ pc[q] = "dlq_data" => \E f \in Letters(q, Current(q)) : f.at = file[q]
  /\ pc[q] # "idle" /\ persisted[q] = "true" => DeadLettered(q, Current(q))

(* The last audit event of a batch tells where its rows are; in strict     *)
(* mode that is never a dead letter.                                       *)
Settled(q, b) ==
  \/ audit[q][b] = "success" /\ b \in stored[q]
  \/ audit[q][b] = "failed" /\ ~raiseAfterDlq /\ q \in Common /\ DeadLettered(q, b)
  \/ audit[q][b] = "skipped_empty" /\ Empty(q, b)

(* A handler that returns has settled its batch.                           *)
ReturnInv(q) ==
  /\ pc[q] \in DlqLocations => audit[q][Current(q)] = "failed"
  /\ pc[q] = "return" => Settled(q, Current(q))

(* A committed batch stays settled.                                        *)
CommittedInv(q) == \A b \in 1..committed[q] : Settled(q, b)

QueryInv(q) == DispatchInv(q) /\ LetterInv(q) /\ ReturnInv(q) /\ CommittedInv(q)

PlacementInv == \A q \in Queries : QueryInv(q)

-----------------------------------------------------------------------------
(* Nothing that accounts for a batch ever goes away.                       *)

(* Each dead letter is still there, or in the history, with at least what  *)
(* it had.                                                                 *)
LettersKept ==
  \A f \in dlq \cup purged : \E g \in dlq' \cup purged' :
    /\ g.q = f.q /\ g.b = f.b /\ g.at = f.at /\ g.counted = f.counted
    /\ f.data => g.data

(* A step keeps the rows in the tables and every dead letter.              *)
LEMMA NothingForgotten ==
  ASSUME TypeInv, [Next]_vars
  PROVE  /\ \A q \in Queries : stored[q] \subseteq stored'[q]
         /\ LettersKept
  <1>t. stored \in [Queries -> SUBSET Batches] /\ dlq \subseteq Files /\ purged \subseteq Files
    BY DEF TypeInv, TypeOK
  <1>1. ASSUME NEW q \in Queries, NEW b, Apply(q, b)
        PROVE  \A p \in Queries : stored[p] \subseteq stored'[p]
    BY <1>1, <1>t DEF Apply
  <1>2. ASSUME UNCHANGED <<dlq, purged>> \/ dlq' \cup purged' = dlq \cup purged PROVE LettersKept
    BY <1>2 DEF LettersKept
  <1>3. ASSUME NEW q \in Queries, WriteDlqMetadata(q)
        PROVE  UNCHANGED stored /\ LettersKept
    BY <1>3 DEF WriteDlqMetadata, LettersKept
  <1>4. ASSUME NEW q \in Queries, WriteDlqData(q)
        PROVE  UNCHANGED stored /\ LettersKept
    <2> SUFFICES ASSUME NEW f \in dlq \cup purged
                 PROVE  \E g \in dlq' \cup purged' :
                          /\ g.q = f.q /\ g.b = f.b /\ g.at = f.at /\ g.counted = f.counted
                          /\ f.data => g.data
      BY <1>4 DEF WriteDlqData, LettersKept
    <2> DEFINE g == [f EXCEPT !.data = (f.at = file[q]) \/ @]
    <2>1. g \in dlq' \cup purged'
      BY <1>4 DEF WriteDlqData, WithData
    <2>2. /\ g.q = f.q /\ g.b = f.b /\ g.at = f.at /\ g.counted = f.counted
          /\ f.data => g.data
      BY <1>t DEF Files
    <2>3. QED
      BY <2>1, <2>2
  <1>5. ASSUME NEW q \in Queries, Cleanup(q)
        PROVE  UNCHANGED stored /\ LettersKept
    BY <1>2, <1>5, CleanupMoves DEF Cleanup
  <1>6. CASE UNCHANGED <<dlq, purged>>
    <2>1. LettersKept
      BY <1>2, <1>6
    <2>2. \A q \in Queries : stored[q] \subseteq stored'[q]
      BY <1>1, <1>3, <1>4, <1>5
         DEF Next, Act, Handler, vars, durable, Plan, SkipEmpty, Collect, CollectRaises,
             InsertSucceeds, InsertRaises, LateInsertEnds, DirectExcept, CommonExcept,
             DlqWriteRaises, Decide, Commit, CleanupIntervalElapses, Shutdown, Crash,
             ProcessEnds, Restart
    <2>3. QED
      BY <2>1, <2>2
  <1>7. CASE \E q \in Queries : WriteDlqMetadata(q) \/ WriteDlqData(q) \/ Cleanup(q)
    BY <1>3, <1>4, <1>5, <1>7
  <1>8. QED
    BY <1>6, <1>7
       DEF Next, Act, Handler, vars, durable, Plan, SkipEmpty, Collect, CollectRaises,
           InsertSucceeds, InsertRaises, LateInsertEnds, DirectExcept, CommonExcept,
           DlqWriteRaises, Decide, Commit, CleanupIntervalElapses, Shutdown, Crash,
           ProcessEnds, Restart

(* So a complete dead letter stays complete.                               *)
LEMMA DeadLetterStays ==
  ASSUME TypeInv, [Next]_vars, NEW q \in Queries, NEW b, DeadLettered(q, b)
  PROVE  DeadLettered(q, b)'
  BY NothingForgotten DEF LettersKept, DeadLettered, Letters

-----------------------------------------------------------------------------
(* Preservation of the invariant of one query.                             *)

SameQuery(q) ==
  /\ pc'[q] = pc[q] /\ error'[q] = error[q] /\ persisted'[q] = persisted[q]
  /\ file'[q] = file[q] /\ committed'[q] = committed[q] /\ audit'[q] = audit[q]

(* A batch that is settled stays settled while its audit status stays.     *)
LEMMA SettledStays ==
  ASSUME TypeInv, [Next]_vars, NEW q \in Queries, NEW b,
         Settled(q, b), audit'[q][b] = audit[q][b]
  PROVE  Settled(q, b)'
  BY NothingForgotten, DeadLetterStays DEF Settled, Empty, Next, vars, given

(* A step of another query, or of the environment, keeps a query's         *)
(* invariant.                                                              *)
LEMMA OtherQuery ==
  ASSUME TypeInv, [Next]_vars, NEW q \in Queries, QueryInv(q), SameQuery(q)
  PROVE  QueryInv(q)'
  <1>w. raiseAfterDlq' = raiseAfterDlq /\ refused' = refused
    BY DEF Next, vars, given
  <1> USE <1>w
  <1>1. Current(q)' = Current(q)
    BY DEF SameQuery, Current
  <1>2. DispatchInv(q)'
    BY <1>1 DEF QueryInv, DispatchInv, SameQuery, Empty
  <1>3. LetterInv(q)'
    <2>1. pc'[q] = "dlq_data" => (\E f \in Letters(q, Current(q)) : f.at = file[q])'
      BY <1>1, NothingForgotten DEF QueryInv, LetterInv, LettersKept, Letters, SameQuery
    <2>2. pc'[q] # "idle" /\ persisted'[q] = "true" => DeadLettered(q, Current(q))'
      BY <1>1, DeadLetterStays DEF QueryInv, LetterInv, SameQuery, DeadLettered, Letters
    <2>3. QED
      BY <2>1, <2>2 DEF LetterInv
  <1>4. ReturnInv(q)'
    BY <1>1, SettledStays DEF QueryInv, ReturnInv, SameQuery, Settled, DeadLettered, Letters, Empty
  <1>5. CommittedInv(q)'
    BY SettledStays DEF QueryInv, CommittedInv, SameQuery
  <1>6. QED
    BY <1>2, <1>3, <1>4, <1>5 DEF QueryInv

(* The committed batches of a query stay settled while a handler runs for  *)
(* the batch after them.                                                   *)
LEMMA CommittedStays ==
  ASSUME TypeInv, [Next]_vars, NEW q \in Queries, CommittedInv(q),
         committed' = committed,
         \A b \in 1..committed[q] : audit'[q][b] = audit[q][b]
  PROVE  CommittedInv(q)'
  BY SettledStays DEF CommittedInv

(* An audit event for the current batch of q sets its status and no other. *)
LEMMA AuditSets ==
  ASSUME TypeInv, NEW q \in Queries, Current(q) \in Batches, NEW status,
         log_write_audit_event(q, status)
  PROVE  /\ audit'[q][Current(q)] = status
         /\ \A b \in 1..committed[q] : audit'[q][b] = audit[q][b]
         /\ \A p \in Queries \ {q} : audit'[p] = audit[p]
  <1>1. audit \in [Queries -> [Batches -> Statuses]] /\ committed[q] \in 0..MaxBatch
    BY ConstantsAssumption DEF TypeInv, TypeOK
  <1>2. audit' = [audit EXCEPT ![q] = [audit[q] EXCEPT ![Current(q)] = status]]
    BY DEF log_write_audit_event
  <1>3. audit'[q] = [audit[q] EXCEPT ![Current(q)] = status]
    BY <1>1, <1>2
  <1>4. \A b \in 1..committed[q] : b # Current(q) /\ b \in Batches
    BY <1>1, ConstantsAssumption DEF Current, Batches
  <1>5. QED
    BY <1>1, <1>2, <1>3, <1>4

(* A step of the handler of q keeps the invariant of q.                    *)
LEMMA HandlerStep ==
  ASSUME TypeInv, [Next]_vars, NEW q \in Queries, QueryInv(q), Handler(q)
  PROVE  QueryInv(q)' /\ \A p \in Queries \ {q} : SameQuery(p)
  <1>w. raiseAfterDlq' = raiseAfterDlq /\ refused' = refused
    BY DEF Next, vars, given
  <1> USE <1>w
  <1>t. /\ pc \in [Queries -> Locations] /\ error \in [Queries -> ErrorTypes \cup {"none"}]
        /\ persisted \in [Queries -> {"unbound", "true"}] /\ file \in [Queries -> Nat]
        /\ pdf \in [Queries -> BOOLEAN] /\ committed \in [Queries -> 0..MaxBatch]
        /\ stored \in [Queries -> SUBSET Batches]
    BY DEF TypeInv, TypeOK
  <1>c. pc[q] # "idle" => Current(q) \in Batches
    BY ConstantsAssumption DEF TypeInv, TypeOK, InRange, Current, Batches
  <1>n. "none" \notin ErrorTypes
    BY DEF ErrorTypes
  <1>u. committed' = committed => Current(q)' = Current(q)
    BY DEF Current
  <1>i. DispatchInv(q) /\ LetterInv(q) /\ ReturnInv(q) /\ CommittedInv(q)
    BY DEF QueryInv
  <1>1. CASE SkipEmpty(q)
    <2>1. /\ pc' = [pc EXCEPT ![q] = "return"] /\ UNCHANGED <<committed, error, persisted, file>>
          /\ pc[q] = "collect" /\ log_write_audit_event(q, "skipped_empty") /\ Empty(q, Current(q))
      BY <1>1 DEF SkipEmpty, Goto
    <2>2. /\ audit'[q][Current(q)] = "skipped_empty"
          /\ \A b \in 1..committed[q] : audit'[q][b] = audit[q][b]
          /\ \A p \in Queries \ {q} : audit'[p] = audit[p]
      BY <2>1, <1>c, AuditSets
    <2>3. LetterInv(q)'
      BY <2>1, <1>t, <1>i, <1>u, DeadLetterStays DEF LetterInv, DeadLettered, Letters
    <2>4. ReturnInv(q)'
      BY <2>1, <2>2, <1>t, <1>u DEF ReturnInv, DlqLocations, Settled, Empty
    <2>5. DispatchInv(q)'
      BY <2>1, <1>t DEF DispatchInv, DlqLocations
    <2>6. QED
      BY <2>1, <2>2, <2>3, <2>4, <2>5, <1>i, <1>t, CommittedStays DEF QueryInv, SameQuery
  <1>2. CASE Collect(q)
    <2>1. /\ pc' = [pc EXCEPT ![q] = "insert"] /\ UNCHANGED <<committed, error, persisted, file>>
          /\ pc[q] = "collect" /\ log_write_audit_event(q, "started") /\ ~Empty(q, Current(q))
      BY <1>2 DEF Collect, Goto
    <2>2. /\ \A b \in 1..committed[q] : audit'[q][b] = audit[q][b]
          /\ \A p \in Queries \ {q} : audit'[p] = audit[p]
      BY <2>1, <1>c, AuditSets
    <2>3. LetterInv(q)'
      BY <2>1, <1>t, <1>i, <1>u, DeadLetterStays DEF LetterInv, DeadLettered, Letters
    <2>4. ReturnInv(q)' /\ DispatchInv(q)'
      BY <2>1, <1>t, <1>i, <1>u DEF ReturnInv, DispatchInv, DlqLocations, Empty
    <2>5. QED
      BY <2>1, <2>2, <2>3, <2>4, <1>i, <1>t, CommittedStays DEF QueryInv, SameQuery
  <1>3. ASSUME NEW e, NEW got, CollectRaises(q, e, got)
        PROVE  QueryInv(q)' /\ \A p \in Queries \ {q} : SameQuery(p)
    <2>1. /\ pc' = [pc EXCEPT ![q] = IF q \in DirectQueries THEN "failed" ELSE "except"]
          /\ error' = [error EXCEPT ![q] = _classify_ch_error(e)]
          /\ UNCHANGED <<committed, audit, persisted, file>> /\ pc[q] = "collect"
      BY <1>3 DEF CollectRaises, Goto, durable
    <2>2. LetterInv(q)'
      BY <2>1, <1>t, <1>i, <1>u, DeadLetterStays DEF LetterInv, DeadLettered, Letters
    <2>3. ReturnInv(q)' /\ DispatchInv(q)'
      BY <2>1, <1>t, <1>n, ClassifyType DEF ReturnInv, DispatchInv, DlqLocations
    <2>4. QED
      BY <2>1, <2>2, <2>3, <1>i, <1>t, CommittedStays DEF QueryInv, SameQuery
  <1>4. CASE InsertSucceeds(q)
    <2>1. /\ pc' = [pc EXCEPT ![q] = "return"] /\ UNCHANGED <<committed, error, persisted, file>>
          /\ pc[q] = "insert" /\ log_write_audit_event(q, "success") /\ Current(q) \in stored'[q]
      BY <1>4, <1>t DEF InsertSucceeds, Goto, Apply, local
    <2>2. /\ audit'[q][Current(q)] = "success"
          /\ \A b \in 1..committed[q] : audit'[q][b] = audit[q][b]
          /\ \A p \in Queries \ {q} : audit'[p] = audit[p]
      BY <2>1, <1>c, AuditSets
    <2>3. LetterInv(q)'
      BY <2>1, <1>t, <1>i, <1>u, DeadLetterStays DEF LetterInv, DeadLettered, Letters
    <2>4. ReturnInv(q)' /\ DispatchInv(q)'
      BY <2>1, <2>2, <1>t, <1>u DEF ReturnInv, DispatchInv, DlqLocations, Settled
    <2>5. QED
      BY <2>1, <2>2, <2>3, <2>4, <1>i, <1>t, CommittedStays DEF QueryInv, SameQuery
  <1>5. ASSUME NEW e, NEW effect, InsertRaises(q, e, effect)
        PROVE  QueryInv(q)' /\ \A p \in Queries \ {q} : SameQuery(p)
    <2>1. /\ pc' = [pc EXCEPT ![q] = "except"] /\ error' = [error EXCEPT ![q] = _classify_ch_error(e)]
          /\ UNCHANGED <<committed, audit, persisted, file>> /\ pc[q] = "insert"
      BY <1>5 DEF InsertRaises, Goto
    <2>2. LetterInv(q)'
      BY <2>1, <1>t, <1>i, <1>u, DeadLetterStays DEF LetterInv, DeadLettered, Letters
    <2>3. ReturnInv(q)' /\ DispatchInv(q)'
      BY <2>1, <1>t, <1>n, ClassifyType DEF ReturnInv, DispatchInv, DlqLocations
    <2>4. QED
      BY <2>1, <2>2, <2>3, <1>i, <1>t, CommittedStays DEF QueryInv, SameQuery
  <1>6. CASE DirectExcept(q)
    <2>1. /\ pc' = [pc EXCEPT ![q] = "failed"] /\ UNCHANGED <<committed, error, persisted, file>>
          /\ pc[q] = "except" /\ log_write_audit_event(q, "failed")
      BY <1>6 DEF DirectExcept, Goto, local
    <2>2. /\ \A b \in 1..committed[q] : audit'[q][b] = audit[q][b]
          /\ \A p \in Queries \ {q} : audit'[p] = audit[p]
      BY <2>1, <1>c, AuditSets
    <2>3. LetterInv(q)'
      BY <2>1, <1>t, <1>i, <1>u, DeadLetterStays DEF LetterInv, DeadLettered, Letters
    <2>4. ReturnInv(q)' /\ DispatchInv(q)'
      BY <2>1, <1>t DEF ReturnInv, DispatchInv, DlqLocations
    <2>5. QED
      BY <2>1, <2>2, <2>3, <2>4, <1>i, <1>t, CommittedStays DEF QueryInv, SameQuery
  <1>7. CASE CommonExcept(q)
    <2> DEFINE l == IF _is_spark_operational_error(error[q]) THEN "failed" ELSE "dlq_metadata"
    <2>1. /\ pc' = [pc EXCEPT ![q] = l] /\ UNCHANGED <<committed, error, persisted, file>>
          /\ pc[q] = "except" /\ log_write_audit_event(q, "failed") /\ q \in Common
      BY <1>7 DEF CommonExcept, Goto, local
    <2>2. /\ audit'[q][Current(q)] = "failed"
          /\ \A b \in 1..committed[q] : audit'[q][b] = audit[q][b]
          /\ \A p \in Queries \ {q} : audit'[p] = audit[p]
      BY <2>1, <1>c, AuditSets
    <2>3. LetterInv(q)'
      BY <2>1, <1>t, <1>i, <1>u, DeadLetterStays DEF LetterInv, DeadLettered, Letters
    <2>4. ReturnInv(q)'
      BY <2>1, <2>2, <1>t, <1>u DEF ReturnInv, DlqLocations
    <2>5. DispatchInv(q)'
      BY <2>1, <1>t, <1>i DEF DispatchInv, DlqLocations
    <2>6. QED
      BY <2>1, <2>2, <2>3, <2>4, <2>5, <1>i, <1>t, CommittedStays DEF QueryInv, SameQuery
  <1>8. CASE WriteDlqMetadata(q)
    <2> DEFINE f == [q |-> q, b |-> Current(q), at |-> clock', counted |-> pdf[q], data |-> FALSE]
    <2>1. /\ pc' = [pc EXCEPT ![q] = IF pdf[q] THEN "dlq_data" ELSE "cleanup"]
          /\ persisted' = [persisted EXCEPT ![q] = IF pdf[q] THEN @ ELSE "true"]
          /\ file' = [file EXCEPT ![q] = clock'] /\ dlq' = dlq \cup {f}
          /\ UNCHANGED <<committed, error, audit, purged>> /\ pc[q] = "dlq_metadata"
      BY <1>8 DEF WriteDlqMetadata, Goto
    <2>2. f \in dlq' \cup purged' /\ f.q = q /\ f.b = Current(q) /\ f.at = clock' /\ f.counted = pdf[q]
      BY <2>1
    <2>3. (\E g \in Letters(q, Current(q)) : g.at = file[q])'
      BY <2>1, <2>2, <1>t, <1>u DEF Letters
    <2>4. ~pdf[q] => DeadLettered(q, Current(q))'
      BY <2>1, <2>2, <1>u DEF DeadLettered, Letters
    <2>5. DeadLettered(q, Current(q)) => DeadLettered(q, Current(q))'
      BY <2>1, <1>u, DeadLetterStays DEF DeadLettered, Letters
    <2>6. LetterInv(q)'
      <3>1. persisted'[q] = "true" => DeadLettered(q, Current(q))'
        BY <2>1, <2>4, <2>5, <1>t, <1>i DEF LetterInv
      <3>2. QED
        BY <2>3, <3>1 DEF LetterInv
    <2>7. ReturnInv(q)' /\ DispatchInv(q)'
      BY <2>1, <1>t, <1>i, <1>u DEF ReturnInv, DispatchInv, DlqLocations
    <2>8. QED
      BY <2>1, <2>6, <2>7, <1>i, <1>t, CommittedStays DEF QueryInv, SameQuery
  <1>9. CASE WriteDlqData(q)
    <2>1. /\ pc' = [pc EXCEPT ![q] = "cleanup"]
          /\ dlq' = WithData(dlq, file[q]) /\ purged' = WithData(purged, file[q])
          /\ persisted' = [persisted EXCEPT ![q] = "true"]
          /\ UNCHANGED <<committed, error, audit, file>> /\ pc[q] = "dlq_data"
      BY <1>9 DEF WriteDlqData, Goto
    <2>2. PICK f \in Letters(q, Current(q)) : f.at = file[q]
      BY <2>1, <1>i DEF LetterInv
    <2> DEFINE g == [f EXCEPT !.data = (f.at = file[q]) \/ @]
    <2>3. g \in dlq' \cup purged'
      BY <2>1, <2>2 DEF WithData, Letters
    <2>4. f \in Files
      BY <2>2 DEF Letters, TypeInv, TypeOK
    <2>5. g.data /\ g.q = q /\ g.b = Current(q)
      BY <2>2, <2>4 DEF Letters, Files
    <2>6. DeadLettered(q, Current(q))'
      BY <2>1, <2>3, <2>5, <1>u DEF DeadLettered, Letters
    <2>7. LetterInv(q)' /\ ReturnInv(q)' /\ DispatchInv(q)'
      BY <2>1, <2>6, <1>t, <1>i, <1>u DEF LetterInv, ReturnInv, DispatchInv, DlqLocations
    <2>8. QED
      BY <2>1, <2>7, <1>i, <1>t, CommittedStays DEF QueryInv, SameQuery
  <1>10. CASE DlqWriteRaises(q) \/ Cleanup(q)
    <2>1. /\ pc' = [pc EXCEPT ![q] = "decide"] /\ pc[q] \in DlqLocations
          /\ UNCHANGED <<committed, error, audit, persisted, file>>
      BY <1>10 DEF DlqWriteRaises, Cleanup, Goto, DlqLocations, durable, local
    <2>2. LetterInv(q)'
      BY <2>1, <1>t, <1>i, <1>u, DeadLetterStays DEF LetterInv, DeadLettered, Letters, DlqLocations
    <2>3. ReturnInv(q)' /\ DispatchInv(q)'
      BY <2>1, <1>t, <1>i, <1>u DEF ReturnInv, DispatchInv, DlqLocations
    <2>4. QED
      BY <2>1, <2>2, <2>3, <1>i, <1>t, CommittedStays DEF QueryInv, SameQuery
  <1>11. CASE Decide(q)
    <2>1. /\ pc' = [pc EXCEPT ![q] = IF Raises(q) THEN "failed" ELSE "return"] /\ pc[q] = "decide"
          /\ UNCHANGED <<committed, error, audit, persisted, file, dlq, purged, stored>>
      BY <1>11 DEF Decide, Goto, durable, local
    <2>2. LetterInv(q)'
      BY <2>1, <1>t, <1>i, <1>u, DeadLetterStays DEF LetterInv, DeadLettered, Letters
    <2>3. DispatchInv(q)'
      BY <2>1, <1>t DEF DispatchInv, DlqLocations
    <2>4. ASSUME ~Raises(q) PROVE Settled(q, Current(q))
      <3>1. persisted[q] = "true" /\ ~_should_raise_after_dlq(error[q])
        BY <2>4, <1>t DEF Raises
      <3>2. q \in Common /\ ~_is_spark_operational_error(error[q]) /\ audit[q][Current(q)] = "failed"
        BY <2>1, <1>i DEF DispatchInv, ReturnInv, DlqLocations
      <3>3. ~raiseAfterDlq
        BY <3>1, <3>2 DEF _should_raise_after_dlq
      <3>4. DeadLettered(q, Current(q))
        BY <2>1, <3>1, <1>i DEF LetterInv
      <3>5. QED
        BY <3>2, <3>3, <3>4 DEF Settled
    <2>5. ReturnInv(q)'
      BY <2>1, <2>4, <1>t, <1>u DEF ReturnInv, DlqLocations, Settled, DeadLettered, Letters, Empty
    <2>6. QED
      BY <2>1, <2>2, <2>3, <2>5, <1>i, <1>t, CommittedStays DEF QueryInv, SameQuery
  <1>12. QED
    BY <1>1, <1>2, <1>3, <1>4, <1>5, <1>6, <1>7, <1>8, <1>9, <1>10, <1>11 DEF Handler

(* The invariant of every query is inductive.                              *)
LEMMA PlacementStep == TypeInv /\ PlacementInv /\ [Next]_vars => PlacementInv'
  <1> SUFFICES ASSUME TypeInv, PlacementInv, [Next]_vars PROVE PlacementInv'
    OBVIOUS
  <1>i. \A q \in Queries : QueryInv(q)
    BY DEF PlacementInv
  <1>o. ASSUME \A q \in Queries : SameQuery(q) PROVE PlacementInv'
    BY <1>o, <1>i, OtherQuery DEF PlacementInv
  <1>t. /\ pc \in [Queries -> Locations] /\ error \in [Queries -> ErrorTypes \cup {"none"}]
        /\ persisted \in [Queries -> {"unbound", "true"}] /\ file \in [Queries -> Nat]
        /\ committed \in [Queries -> 0..MaxBatch]
    BY DEF TypeInv, TypeOK
  <1>1. ASSUME NEW q \in Queries, Plan(q) PROVE PlacementInv'
    <2>1. /\ pc' = [pc EXCEPT ![q] = "collect"] /\ pc[q] = "idle"
          /\ error' = [error EXCEPT ![q] = "none"]
          /\ persisted' = [persisted EXCEPT ![q] = "unbound"]
          /\ file' = [file EXCEPT ![q] = 0] /\ UNCHANGED <<committed, audit>>
      BY <1>1 DEF Plan, Goto, durable
    <2>2. CommittedInv(q)'
      BY <2>1, <1>i, CommittedStays DEF QueryInv
    <2>3. DispatchInv(q)' /\ LetterInv(q)' /\ ReturnInv(q)'
      BY <2>1, <1>t DEF DispatchInv, LetterInv, ReturnInv, DlqLocations
    <2>4. \A p \in Queries \ {q} : SameQuery(p)
      BY <2>1, <1>t DEF SameQuery
    <2>5. QED
      BY <2>2, <2>3, <2>4, <1>i, OtherQuery DEF PlacementInv, QueryInv
  <1>2. ASSUME NEW q \in Queries, Handler(q) PROVE PlacementInv'
    BY <1>2, <1>i, HandlerStep, OtherQuery DEF PlacementInv
  <1>3. ASSUME NEW q \in Queries, Commit(q) PROVE PlacementInv'
    <2>1. /\ pc' = [pc EXCEPT ![q] = "idle"] /\ pc[q] = "return"
          /\ committed' = [committed EXCEPT ![q] = @ + 1]
          /\ UNCHANGED <<audit, error, persisted, file, stored, dlq, purged>>
      BY <1>3 DEF Commit, Goto, local
    <2>2. Settled(q, Current(q)) /\ CommittedInv(q)
      BY <2>1, <1>i DEF QueryInv, ReturnInv
    <2>3. \A b \in 1..committed'[q] : b = Current(q) \/ b \in 1..committed[q]
      BY <2>1, <1>t, ConstantsAssumption DEF Current
    <2>4. CommittedInv(q)'
      BY <2>1, <2>2, <2>3, SettledStays DEF CommittedInv
    <2>5. DispatchInv(q)' /\ LetterInv(q)' /\ ReturnInv(q)'
      BY <2>1, <1>t DEF DispatchInv, LetterInv, ReturnInv, DlqLocations
    <2>6. \A p \in Queries \ {q} : SameQuery(p)
      BY <2>1, <1>t DEF SameQuery
    <2>7. QED
      BY <2>4, <2>5, <2>6, <1>i, OtherQuery DEF PlacementInv, QueryInv
  <1>4. ASSUME NEW q \in Queries, NEW b, NEW applied, LateInsertEnds(q, b, applied) PROVE PlacementInv'
    BY <1>4, <1>o DEF LateInsertEnds, SameQuery, local
  <1>5. CASE CleanupIntervalElapses \/ Restart \/ UNCHANGED vars
    BY <1>5, <1>o DEF CleanupIntervalElapses, Restart, vars, SameQuery, durable, local
  <1>6. CASE Shutdown \/ Crash
    <2>1. /\ pc' = [q \in Queries |-> "idle"] /\ UNCHANGED <<committed, audit>>
      BY <1>6 DEF Shutdown, Crash, ProcessEnds, durable
    <2>2. ASSUME NEW q \in Queries PROVE QueryInv(q)'
      <3>1. CommittedInv(q)'
        BY <2>1, <1>i, CommittedStays DEF QueryInv
      <3>2. DispatchInv(q)' /\ LetterInv(q)' /\ ReturnInv(q)'
        BY <2>1 DEF DispatchInv, LetterInv, ReturnInv, DlqLocations
      <3>3. QED
        BY <3>1, <3>2 DEF QueryInv
    <2>3. QED
      BY <2>2 DEF PlacementInv
  <1>7. QED
    BY <1>1, <1>2, <1>3, <1>4, <1>5, <1>6 DEF Next, Act

(* TypeInv and PlacementInv hold throughout.                               *)
LEMMA Invariance == Spec => [](TypeInv /\ PlacementInv)
  <1>1. Init => TypeInv
    BY InitTypeInv
  <1>2. Init => PlacementInv
    BY DEF Init, PlacementInv, QueryInv, DispatchInv, LetterInv, ReturnInv, CommittedInv, DlqLocations
  <1>3. QED
    BY <1>1, <1>2, TypeInvStep, PlacementStep, PTL DEF Spec

(* What settled batches amount to.                                         *)
LEMMA SettledBatches ==
  PlacementInv => NoSilentLoss /\ AuditTellsTheOutcome /\ StrictModeCommitsOnlyStored
  BY DEF PlacementInv, QueryInv, CommittedInv, Settled, NoSilentLoss, AuditTellsTheOutcome,
         AuditLog, StrictModeCommitsOnlyStored

(* For any number of queries, batches, faults and crashes: a committed     *)
(* batch with rows is in the table or in a complete dead letter.           *)
THEOREM NoLoss == Spec => []NoSilentLoss
  BY Invariance, SettledBatches, PTL

(* Where it is printed, the audit log alone tells where the rows of a      *)
(* committed batch are.                                                    *)
THEOREM AuditIsFaithful == Spec => []AuditTellsTheOutcome
  BY Invariance, SettledBatches, PTL

(* In strict mode only batches whose rows are in the table are committed.  *)
THEOREM StrictMode == Spec => []StrictModeCommitsOnlyStored
  BY Invariance, SettledBatches, PTL

-----------------------------------------------------------------------------
(* Fail-fast.                                                              *)

(* Fail-fast is on for all error types.                                    *)
FailFastForAll == FailFastEnabled /\ "*" \in FailFastTypes

(* The failure count of a table is at least the streak of failed commits,  *)
(* and one ahead of it while a failure is being handled; only the commit   *)
(* after a successful insert, which resets both, comes in between.         *)
CountInv(q) ==
  /\ pc[q] # "return" \/ error[q] # "none" \/ Empty(q, Current(q)) => streak[q] <= failures[q]
  /\ pc[q] \in DlqLocations \/ (pc[q] = "return" /\ error[q] # "none") => streak[q] < failures[q]
  /\ FailFastForAll =>
       /\ pc[q] = "return" /\ error[q] # "none" => failures[q] < FailFastConsecutive
       /\ streak[q] < FailFastConsecutive

FailFastInv == \A q \in Queries : CountInv(q)

LEMMA FailFastInit == Init => FailFastInv
  BY ConstantsAssumption DEF Init, FailFastInv, CountInv, DlqLocations

(* The counters of a query that takes no step.                             *)
SameCounters(q) ==
  /\ pc'[q] = pc[q] /\ error'[q] = error[q] /\ committed'[q] = committed[q]
  /\ streak'[q] = streak[q] /\ failures'[q] = failures[q]

LEMMA CountersStay ==
  ASSUME NEW q \in Queries, CountInv(q), SameCounters(q)
  PROVE  CountInv(q)'
  <1>1. Empty(q, Current(q))' <=> Empty(q, Current(q))
    BY DEF SameCounters, Empty, Current
  <1>2. QED
    BY <1>1 DEF CountInv, SameCounters, FailFastForAll

LEMMA FailFastStep == TypeInv /\ PlacementInv /\ FailFastInv /\ [Next]_vars => FailFastInv'
  <1> SUFFICES ASSUME TypeInv, PlacementInv, FailFastInv, [Next]_vars PROVE FailFastInv'
    OBVIOUS
  <1>t. /\ pc \in [Queries -> Locations] /\ error \in [Queries -> ErrorTypes \cup {"none"}]
        /\ committed \in [Queries -> 0..MaxBatch] /\ failures \in [Queries -> Nat]
        /\ streak \in [Queries -> Nat] /\ FailFastConsecutive \in Nat \ {0}
    BY ConstantsAssumption DEF TypeInv, TypeOK
  <1>d. \A q \in Queries : DispatchInv(q)
    BY DEF PlacementInv, QueryInv
  <1>i. \A q \in Queries : CountInv(q)
    BY DEF FailFastInv
  <1>s. ASSUME \A q \in Queries : SameCounters(q) PROVE FailFastInv'
    BY <1>s, <1>i, CountersStay DEF FailFastInv
  <1>o. ASSUME NEW q \in Queries, CountInv(q)', \A p \in Queries \ {q} : SameCounters(p) PROVE FailFastInv'
    BY <1>o, <1>i, CountersStay DEF FailFastInv
  (* A move that neither counts a failure nor ends a batch.                *)
  <1>m. ASSUME NEW q \in Queries, NEW l \in Locations, pc' = [pc EXCEPT ![q] = l],
               l # "return" \/ (error[q] = "none" /\ error' = error),
               l \in DlqLocations => pc[q] \in DlqLocations,
               pc[q] # "return",
               UNCHANGED <<committed, streak, failures>>,
               \A p \in Queries \ {q} : error'[p] = error[p]
        PROVE  FailFastInv'
    <2>1. pc'[q] = l /\ \A p \in Queries \ {q} : pc'[p] = pc[p]
      BY <1>m, <1>t
    <2>2. \A p \in Queries \ {q} : SameCounters(p)
      BY <1>m, <2>1 DEF SameCounters
    <2>3. CountInv(q)'
      BY <1>m, <1>i, <2>1 DEF CountInv, DlqLocations, FailFastForAll
    <2>4. QED
      BY <2>2, <2>3, <1>o
  <1> USE DEF durable, local, bounds, Goto
  <1>1. ASSUME NEW q \in Queries, Plan(q) PROVE FailFastInv'
    BY <1>1, <1>m, <1>t DEF Plan, Locations, DlqLocations
  <1>2. ASSUME NEW q \in Queries, SkipEmpty(q) \/ Collect(q) PROVE FailFastInv'
    BY <1>2, <1>m, <1>t, <1>d DEF SkipEmpty, Collect, Locations, DlqLocations, DispatchInv
  <1>3. ASSUME NEW q \in Queries, NEW e, NEW got, CollectRaises(q, e, got) PROVE FailFastInv'
    BY <1>3, <1>m, <1>t DEF CollectRaises, Locations, DlqLocations
  <1>4. ASSUME NEW q \in Queries, NEW e, NEW effect, InsertRaises(q, e, effect) PROVE FailFastInv'
    BY <1>4, <1>m, <1>t DEF InsertRaises, Locations, DlqLocations
  <1>5. ASSUME NEW q \in Queries, DirectExcept(q) PROVE FailFastInv'
    BY <1>5, <1>m, <1>t DEF DirectExcept, Locations, DlqLocations
  <1>6. ASSUME NEW q \in Queries, WriteDlqMetadata(q) PROVE FailFastInv'
    BY <1>6, <1>m, <1>t DEF WriteDlqMetadata, Locations, DlqLocations
  <1>7. ASSUME NEW q \in Queries, WriteDlqData(q) \/ DlqWriteRaises(q) \/ Cleanup(q) PROVE FailFastInv'
    BY <1>7, <1>m, <1>t DEF WriteDlqData, DlqWriteRaises, Cleanup, Locations, DlqLocations
  <1>8. ASSUME NEW q \in Queries, InsertSucceeds(q) PROVE FailFastInv'
    <2>1. /\ pc[q] = "insert" /\ pc'[q] = "return" /\ UNCHANGED <<committed, error, streak>>
          /\ \A p \in Queries \ {q} : pc'[p] = pc[p] /\ failures'[p] = failures[p]
      BY <1>8, <1>t DEF InsertSucceeds
    <2>2. error[q] = "none" /\ ~Empty(q, Current(q))
      BY <2>1, <1>d DEF DispatchInv
    <2>3. ~Empty(q, Current(q))'
      BY <2>1, <2>2 DEF Empty, Current
    <2>4. CountInv(q)'
      BY <2>1, <2>2, <2>3, <1>i DEF CountInv, DlqLocations, FailFastForAll
    <2>5. QED
      BY <2>1, <2>4, <1>o DEF SameCounters
  <1>9. ASSUME NEW q \in Queries, CommonExcept(q) PROVE FailFastInv'
    <2>1. /\ pc[q] = "except" /\ pc'[q] \in {"failed", "dlq_metadata"} /\ UNCHANGED <<committed, error, streak>>
          /\ failures'[q] = failures[q] + 1
          /\ \A p \in Queries \ {q} : pc'[p] = pc[p] /\ failures'[p] = failures[p]
      BY <1>9, <1>t DEF CommonExcept
    <2>2. streak[q] <= failures[q] /\ streak[q] \in Nat /\ failures[q] \in Nat
      BY <2>1, <1>i, <1>t DEF CountInv
    <2>3. streak'[q] < failures'[q] /\ streak'[q] <= failures'[q]
      BY <2>1, <2>2
    <2>4. CountInv(q)'
      BY <2>1, <2>3, <1>i DEF CountInv, FailFastForAll
    <2>5. QED
      BY <2>1, <2>4, <1>o DEF SameCounters
  <1>10. ASSUME NEW q \in Queries, Decide(q) PROVE FailFastInv'
    <2>1. /\ pc[q] = "decide" /\ pc'[q] = IF Raises(q) THEN "failed" ELSE "return"
          /\ UNCHANGED <<committed, error, streak, failures>>
          /\ \A p \in Queries \ {q} : pc'[p] = pc[p]
      BY <1>10, <1>t DEF Decide
    <2>2. streak[q] < failures[q] /\ streak[q] <= failures[q]
      BY <2>1, <1>i, <1>t DEF CountInv, DlqLocations
    <2>3. ASSUME FailFastForAll, pc'[q] = "return" PROVE failures[q] < FailFastConsecutive
      <3>1. ~_should_fail_fast(error[q], failures[q])
        BY <2>1, <2>3 DEF Raises
      <3>2. ~(failures[q] >= FailFastConsecutive)
        BY <2>3, <3>1 DEF _should_fail_fast, FailFastForAll
      <3>3. QED
        BY <3>2, <1>t
    <2>4. CountInv(q)'
      BY <2>1, <2>2, <2>3, <1>i DEF CountInv, FailFastForAll
    <2>5. QED
      BY <2>1, <2>4, <1>o DEF SameCounters
  <1>11. ASSUME NEW q \in Queries, Commit(q) PROVE FailFastInv'
    <2>1. /\ pc[q] = "return" /\ pc'[q] = "idle" /\ UNCHANGED <<error, failures>>
          /\ streak'[q] = IF error[q] # "none" THEN streak[q] + 1
                          ELSE IF Empty(q, Current(q)) THEN streak[q] ELSE 0
          /\ \A p \in Queries \ {q} : pc'[p] = pc[p] /\ streak'[p] = streak[p] /\ committed'[p] = committed[p]
      BY <1>11, <1>t DEF Commit
    <2>2. streak'[q] <= failures[q] /\ (FailFastForAll => streak'[q] < FailFastConsecutive)
      <3>1. CASE error[q] # "none"
        BY <2>1, <3>1, <1>i, <1>t DEF CountInv
      <3>2. CASE error[q] = "none" /\ Empty(q, Current(q))
        BY <2>1, <3>2, <1>i, <1>t DEF CountInv
      <3>3. CASE error[q] = "none" /\ ~Empty(q, Current(q))
        BY <2>1, <3>3, <1>t
      <3>4. QED
        BY <3>1, <3>2, <3>3
    <2>3. CountInv(q)'
      BY <2>1, <2>2 DEF CountInv, DlqLocations, FailFastForAll
    <2>4. QED
      BY <2>1, <2>3, <1>o DEF SameCounters
  <1>12. ASSUME NEW q \in Queries, NEW b, NEW applied, LateInsertEnds(q, b, applied) PROVE FailFastInv'
    BY <1>12, <1>s DEF LateInsertEnds, SameCounters
  <1>13. CASE CleanupIntervalElapses \/ Restart \/ UNCHANGED vars
    BY <1>13, <1>s DEF CleanupIntervalElapses, Restart, vars, SameCounters
  <1>14. CASE Shutdown \/ Crash
    <2>1. ProcessEnds
      BY <1>14 DEF Shutdown, Crash
    <2>2. \A q \in Queries : pc'[q] = "idle" /\ streak'[q] = 0 /\ failures'[q] = 0
      BY <2>1 DEF ProcessEnds
    <2>3. QED
      BY <2>2, <1>t DEF FailFastInv, CountInv, DlqLocations
  <1>15. QED
    BY <1>1, <1>2, <1>3, <1>4, <1>5, <1>6, <1>7, <1>8, <1>9, <1>10, <1>11, <1>12, <1>13, <1>14
       DEF Next, Act, Handler

(* With fail-fast on for all error types, no process ever commits          *)
(* CH_WRITER_FAIL_FAST_CONSECUTIVE failed batches of a query in a row,     *)
(* although empty batches leave the count alone.                           *)
THEOREM FailFastBound == Spec => []FailFastBoundsFailedCommits
  <1>1. FailFastInv => FailFastBoundsFailedCommits
    BY DEF FailFastInv, CountInv, FailFastForAll, FailFastBoundsFailedCommits
  <1>2. QED
    BY <1>1, FailFastInit, FailFastStep, Invariance, PTL DEF Spec

-----------------------------------------------------------------------------
(* Order of arrival.  No insert, applied or still running, is ahead of the *)
(* batch that is being written.                                            *)

OrderInv ==
  \A q \in Queries : newest[q] <= Current(q) /\ \A b \in inflight[q] : b <= Current(q)

LEMMA OrderStep ==
  TypeInv /\ OrderInv /\ [Next]_vars
    => OrderInv' /\ \A q \in Queries : newest'[q] < newest[q] => newest'[q] \in inflight[q]
  <1> SUFFICES ASSUME TypeInv, OrderInv, [Next]_vars
               PROVE  OrderInv' /\ \A q \in Queries : newest'[q] < newest[q] => newest'[q] \in inflight[q]
    OBVIOUS
  <1> DEFINE Regress == \A q \in Queries : newest'[q] < newest[q] => newest'[q] \in inflight[q]
  <1>t. /\ committed \in [Queries -> 0..MaxBatch] /\ newest \in [Queries -> 0..MaxBatch]
        /\ inflight \in [Queries -> SUBSET Batches] /\ MaxBatch \in Nat
    BY ConstantsAssumption DEF TypeInv, TypeOK
  <1>n. \A q \in Queries : /\ newest[q] \in Nat /\ Current(q) \in Nat /\ committed[q] \in Nat
                           /\ inflight[q] \subseteq Nat
    BY <1>t DEF Current, Batches
  <1>i. \A q \in Queries : newest[q] <= Current(q) /\ \A b \in inflight[q] : b <= Current(q)
    BY DEF OrderInv
  (* The current batch of q is applied, or its insert goes on by itself.   *)
  <1>1. ASSUME NEW q \in Queries, committed' = committed,
               Apply(q, Current(q)) \/ newest' = newest,
               inflight' = inflight \/ inflight' = [inflight EXCEPT ![q] = @ \cup {Current(q)}]
        PROVE  OrderInv' /\ Regress
    <2>1. \A p \in Queries : Current(p)' = Current(p)
      BY <1>1 DEF Current
    <2>2. newest' = newest \/ newest' = [newest EXCEPT ![q] = Current(q)]
      BY <1>1 DEF Apply
    <2>3. \A p \in Queries : newest'[p] = newest[p] \/ newest'[p] = Current(p)
      BY <2>2, <1>t
    <2>4. \A p \in Queries : \A b \in inflight'[p] : b \in inflight[p] \/ b = Current(p)
      BY <1>1, <1>t
    <2>5. QED
      BY <2>1, <2>3, <2>4, <1>i, <1>n DEF OrderInv
  <1>s. ASSUME UNCHANGED <<committed, newest, inflight>> PROVE OrderInv' /\ Regress
    BY <1>s, <1>i, <1>n DEF OrderInv, Current
  <1> USE DEF durable
  <1>2. ASSUME NEW q \in Queries, InsertSucceeds(q) PROVE OrderInv' /\ Regress
    BY <1>2, <1>1 DEF InsertSucceeds
  <1>3. ASSUME NEW q \in Queries, NEW e, NEW effect, InsertRaises(q, e, effect) PROVE OrderInv' /\ Regress
    BY <1>3, <1>1 DEF InsertRaises
  <1>4. ASSUME NEW q \in Queries, NEW b, NEW applied, LateInsertEnds(q, b, applied)
        PROVE  OrderInv' /\ Regress
    <2>1. /\ b \in inflight[q] /\ committed' = committed
          /\ inflight' = [inflight EXCEPT ![q] = @ \ {b}]
          /\ newest' = newest \/ newest' = [newest EXCEPT ![q] = b]
      BY <1>4 DEF LateInsertEnds, Apply
    <2>2. \A p \in Queries : Current(p)' = Current(p)
      BY <2>1 DEF Current
    <2>3. \A p \in Queries : inflight'[p] \subseteq inflight[p]
      BY <2>1, <1>t
    <2>4. \A p \in Queries : newest'[p] = newest[p] \/ newest'[p] \in inflight[p]
      BY <2>1, <1>t
    <2>5. QED
      BY <2>2, <2>3, <2>4, <1>i, <1>n DEF OrderInv
  <1>5. ASSUME NEW q \in Queries, Commit(q) PROVE OrderInv' /\ Regress
    <2>1. committed' = [committed EXCEPT ![q] = @ + 1] /\ UNCHANGED <<newest, inflight>>
      BY <1>5 DEF Commit
    <2>2. \A p \in Queries : Current(p)' \in Nat /\ Current(p)' >= Current(p)
      BY <2>1, <1>n, <1>t DEF Current
    <2>3. QED
      BY <2>1, <2>2, <1>i, <1>n DEF OrderInv
  <1>6. CASE Shutdown \/ Crash
    <2>1. /\ UNCHANGED <<committed, newest>>
          /\ \A p \in Queries : inflight'[p] \subseteq inflight[p] \cup {Current(p)}
      BY <1>6 DEF Shutdown, Crash, ProcessEnds
    <2>2. \A p \in Queries : Current(p)' = Current(p)
      BY <2>1 DEF Current
    <2>3. QED
      BY <2>1, <2>2, <1>i, <1>n DEF OrderInv
  <1>7. ASSUME NEW q \in Queries,
               \/ Plan(q) \/ SkipEmpty(q) \/ Collect(q) \/ DirectExcept(q) \/ CommonExcept(q)
               \/ WriteDlqMetadata(q) \/ WriteDlqData(q) \/ DlqWriteRaises(q) \/ Cleanup(q) \/ Decide(q)
        PROVE  OrderInv' /\ Regress
    BY <1>7, <1>s DEF Plan, SkipEmpty, Collect, DirectExcept, CommonExcept, WriteDlqMetadata, WriteDlqData,
       DlqWriteRaises, Cleanup, Decide
  <1>8. ASSUME NEW q \in Queries, NEW e, NEW got, CollectRaises(q, e, got) PROVE OrderInv' /\ Regress
    BY <1>8, <1>s DEF CollectRaises
  <1>9. CASE CleanupIntervalElapses \/ Restart \/ UNCHANGED vars
    BY <1>9, <1>s DEF CleanupIntervalElapses, Restart, vars
  <1>10. QED
    BY <1>2, <1>3, <1>4, <1>5, <1>6, <1>7, <1>8, <1>9 DEF Next, Act, Handler

LEMMA OrderInvariant == Spec => []OrderInv
  <1>1. Init => OrderInv
    BY DEF Init, OrderInv, Current
  <1>2. QED
    BY <1>1, OrderStep, Invariance, PTL DEF Spec

(* The rows a merge leaves go back to an older batch only when the server  *)
(* ends an insert whose client had given up; no replay after a crash or a  *)
(* shutdown does it.                                                       *)
THEOREM OnlyLateInsertsRegress == Spec => RegressesOnlyByLateInsert
  <1>1. TypeInv /\ OrderInv /\ [Next]_vars
          => [\A q \in Queries : newest'[q] < newest[q] => newest'[q] \in inflight[q]]_vars
    BY OrderStep
  <1>2. QED
    BY <1>1, OrderInvariant, Invariance, PTL DEF Spec, RegressesOnlyByLateInsert

-----------------------------------------------------------------------------
(* The refinement of BatchDelivery.                                        *)

(* A metadata file is identified by its modification time: the rows of a   *)
(* handler never go to the dead letter of another batch.                   *)
StampInv ==
  /\ \A f \in dlq \cup purged : f.at <= clock
  /\ \A q \in Queries : pc[q] = "dlq_data" =>
       /\ file[q] <= clock
       /\ \A f \in dlq \cup purged : f.at = file[q] => f.q = q /\ f.b = Current(q)

LEMMA StampStep == TypeInv /\ StampInv /\ [Next]_vars => StampInv'
  <1> SUFFICES ASSUME TypeInv, StampInv, [Next]_vars PROVE StampInv'
    OBVIOUS
  <1>t. /\ pc \in [Queries -> Locations] /\ file \in [Queries -> Nat] /\ clock \in Nat
        /\ dlq \subseteq Files /\ purged \subseteq Files
    BY DEF TypeInv, TypeOK
  (* Steps that write no file, and leave or enter no dlq_data.             *)
  <1>s. ASSUME dlq' \cup purged' = dlq \cup purged, clock' = clock,
               \A q \in Queries : pc'[q] = "dlq_data" =>
                 pc[q] = "dlq_data" /\ file'[q] = file[q] /\ committed'[q] = committed[q]
        PROVE  StampInv'
    BY <1>s DEF StampInv, Current
  <1> USE DEF durable, local, Goto
  <1>1. ASSUME NEW q \in Queries, WriteDlqMetadata(q) PROVE StampInv'
    <2> DEFINE f == [q |-> q, b |-> Current(q), at |-> clock', counted |-> pdf[q], data |-> FALSE]
    <2>1. /\ dlq' = dlq \cup {f} /\ UNCHANGED <<purged, committed>> /\ clock' = clock + 1
          /\ file' = [file EXCEPT ![q] = clock']
          /\ \A p \in Queries \ {q} : pc'[p] = pc[p]
      BY <1>1, <1>t DEF WriteDlqMetadata
    <2>2. f.q = q /\ f.b = Current(q) /\ f.at = clock + 1
      BY <2>1
    <2> HIDE DEF f
    <2>3. \A g \in dlq' \cup purged' : g = f \/ g \in dlq \cup purged
      BY <2>1
    <2>4. \A g \in dlq \cup purged : g.at <= clock /\ g.at \in Nat
      BY <1>t DEF StampInv, Files
    <2>5. \A g \in dlq' \cup purged' : g.at <= clock'
      BY <2>1, <2>2, <2>3, <2>4, <1>t
    <2>6. ASSUME NEW p \in Queries, pc'[p] = "dlq_data"
          PROVE  /\ file'[p] <= clock'
                 /\ \A g \in dlq' \cup purged' : g.at = file'[p] => g.q = p /\ g.b = Current(p)'
      <3>1. Current(p)' = Current(p)
        BY <2>1 DEF Current
      <3>2. CASE p = q
        BY <2>1, <2>2, <2>3, <2>4, <3>1, <3>2, <1>t
      <3>3. CASE p # q
        <4>1. file'[p] = file[p] /\ pc[p] = "dlq_data" /\ file[p] \in Nat
          BY <2>1, <2>6, <3>3, <1>t
        <4>2. file[p] <= clock /\ \A g \in dlq \cup purged : g.at = file[p] => g.q = p /\ g.b = Current(p)
          BY <4>1 DEF StampInv
        <4>3. QED
          BY <2>1, <2>2, <2>3, <3>1, <4>1, <4>2, <1>t
      <3>4. QED
        BY <3>2, <3>3
    <2>7. QED
      BY <2>5, <2>6 DEF StampInv
  <1>2. ASSUME NEW q \in Queries, WriteDlqData(q) PROVE StampInv'
    <2>1. /\ dlq' = WithData(dlq, file[q]) /\ purged' = WithData(purged, file[q])
          /\ UNCHANGED <<committed, clock, file>> /\ \A p \in Queries : pc'[p] \in {pc[p], "cleanup"}
      BY <1>2, <1>t DEF WriteDlqData
    <2>2. \A g \in dlq' \cup purged' : \E f \in dlq \cup purged : g.at = f.at /\ g.q = f.q /\ g.b = f.b
      <3> TAKE g \in dlq' \cup purged'
      <3>1. PICK f \in dlq \cup purged : g = [f EXCEPT !.data = (f.at = file[q]) \/ @]
        BY <2>1 DEF WithData
      <3>2. f \in Files
        BY <1>t
      <3>3. g.at = f.at /\ g.q = f.q /\ g.b = f.b
        BY <3>1, <3>2 DEF Files
      <3>4. QED
        BY <3>3
    <2>3. QED
      BY <2>1, <2>2 DEF StampInv, Current
  <1>3. ASSUME NEW q \in Queries, Cleanup(q) PROVE StampInv'
    <2>1. dlq' \cup purged' = dlq \cup purged
      BY <1>3, CleanupMoves DEF Cleanup
    <2>2. QED
      BY <1>3, <2>1, <1>s, <1>t DEF Cleanup
  <1>4. ASSUME NEW q \in Queries, Plan(q) \/ SkipEmpty(q) \/ Collect(q) \/ InsertSucceeds(q) PROVE StampInv'
    BY <1>4, <1>s, <1>t DEF Plan, SkipEmpty, Collect, InsertSucceeds
  <1>5. ASSUME NEW q \in Queries, NEW e, NEW got, CollectRaises(q, e, got) PROVE StampInv'
    BY <1>5, <1>s, <1>t DEF CollectRaises
  <1>6. ASSUME NEW q \in Queries, NEW e, NEW effect, InsertRaises(q, e, effect) PROVE StampInv'
    BY <1>6, <1>s, <1>t DEF InsertRaises
  <1>7. ASSUME NEW q \in Queries, DirectExcept(q) \/ CommonExcept(q) \/ DlqWriteRaises(q) \/ Decide(q)
        PROVE  StampInv'
    BY <1>7, <1>s, <1>t DEF DirectExcept, CommonExcept, DlqWriteRaises, Decide
  <1>8. ASSUME NEW q \in Queries, Commit(q) PROVE StampInv'
    BY <1>8, <1>s, <1>t DEF Commit, TypeInv, TypeOK
  <1>9. ASSUME NEW q \in Queries, NEW b, NEW applied, LateInsertEnds(q, b, applied) PROVE StampInv'
    BY <1>9, <1>s DEF LateInsertEnds
  <1>10. CASE CleanupIntervalElapses \/ Restart \/ UNCHANGED vars
    BY <1>10, <1>s DEF CleanupIntervalElapses, Restart, vars
  <1>11. CASE Shutdown \/ Crash
    BY <1>11, <1>s DEF Shutdown, Crash, ProcessEnds
  <1>12. QED
    BY <1>1, <1>2, <1>3, <1>4, <1>5, <1>6, <1>7, <1>8, <1>9, <1>10, <1>11 DEF Next, Act, Handler

LEMMA StampInvariant == Spec => []StampInv
  <1>1. Init => StampInv
    BY DEF Init, StampInv
  <1>2. QED
    BY <1>1, StampStep, Invariance, PTL DEF Spec

(* The batches put aside depend on the dead letters alone, wherever they   *)
(* are kept.                                                               *)
LEMMA AsideStays ==
  ASSUME dlq' \cup purged' = dlq \cup purged
  PROVE  Aside' = Aside
  <1>1. \A q \in Queries, b \in Batches : DeadLettered(q, b)' <=> DeadLettered(q, b)
    BY DEF DeadLettered, Letters
  <1>2. QED
    BY <1>1 DEF Aside

(* One more batch is put aside.                                            *)
LEMMA AsideGrows ==
  ASSUME NEW q \in Queries, Current(q) \in Batches,
         \A p \in Queries, b \in Batches :
           DeadLettered(p, b)' <=> DeadLettered(p, b) \/ (p = q /\ b = Current(q))
  PROVE  Aside' = [Aside EXCEPT ![q] = @ \cup {Current(q)}]
  <1>1. \A p \in Queries : Aside'[p] = {b \in Batches : DeadLettered(p, b)'}
    BY DEF Aside
  <1>2. \A p \in Queries : Aside[p] = {b \in Batches : DeadLettered(p, b)}
    BY DEF Aside
  <1>3. \A p \in Queries : Aside'[p] = IF p = q THEN Aside[p] \cup {Current(q)} ELSE Aside[p]
    BY <1>1, <1>2
  <1>4. Aside = [p \in Queries |-> Aside[p]] /\ Aside' = [p \in Queries |-> Aside'[p]]
    BY DEF Aside
  <1> HIDE DEF Aside
  <1>5. QED
    BY <1>3, <1>4

(* A step of the write path that lands rows: an insert of the current      *)
(* batch, or one the client had given up on.                               *)
LEMMA LandStep ==
  ASSUME TypeInv, OrderInv, NEW q \in Queries, NEW b \in Batches, b <= Current(q), Apply(q, b),
         UNCHANGED <<committed, dlq, purged>>
  PROVE  [Delivery!Next]_Delivery!dvars
  <1>1. Aside' = Aside
    BY AsideStays
  <1>2. b \in 1..(committed[q] + 1) /\ b \in 1..MaxBatch
    BY ConstantsAssumption DEF TypeInv, TypeOK, Current, Batches
  <1>3. Delivery!Land(q, b)
    BY <1>1, <1>2 DEF Delivery!Land, Apply
  <1>4. QED
    BY <1>2, <1>3 DEF Delivery!Next

(* Every step of the write path is a step of BatchDelivery or leaves its   *)
(* state alone.                                                            *)
LEMMA DeliveryStep ==
  TypeInv /\ PlacementInv /\ OrderInv /\ StampInv /\ [Next]_vars => [Delivery!Next]_Delivery!dvars
  <1> SUFFICES ASSUME TypeInv, PlacementInv, OrderInv, StampInv, [Next]_vars
               PROVE  [Delivery!Next]_Delivery!dvars
    OBVIOUS
  <1>t. /\ committed \in [Queries -> 0..MaxBatch] /\ inflight \in [Queries -> SUBSET Batches]
        /\ pdf \in [Queries -> BOOLEAN] /\ MaxBatch \in Nat
        /\ dlq \subseteq Files /\ purged \subseteq Files
    BY ConstantsAssumption DEF TypeInv, TypeOK
  <1>c. \A q \in Queries : pc[q] # "idle" => Current(q) \in Batches /\ Current(q) <= Current(q)
    BY <1>t DEF TypeInv, InRange, Current, Batches
  <1>s. ASSUME UNCHANGED <<committed, stored>>, dlq' \cup purged' = dlq \cup purged
        PROVE  [Delivery!Next]_Delivery!dvars
    BY <1>s, AsideStays DEF Delivery!dvars
  <1>p. ASSUME NEW q \in Queries, pc[q] # "idle", UNCHANGED <<committed, stored>>,
               \A p \in Queries, b \in Batches :
                 DeadLettered(p, b)' <=> DeadLettered(p, b) \/ (p = q /\ b = Current(q))
        PROVE  [Delivery!Next]_Delivery!dvars
    <2>1. Aside' = [Aside EXCEPT ![q] = @ \cup {Current(q)}]
      BY <1>p, <1>c, AsideGrows
    <2>2. Delivery!PutAside(q)
      BY <1>p, <2>1 DEF Delivery!PutAside, Current
    <2>3. QED
      BY <2>2 DEF Delivery!Next
  <1> USE DEF durable, local
  <1>1. ASSUME NEW q \in Queries, InsertSucceeds(q) PROVE [Delivery!Next]_Delivery!dvars
    BY <1>1, <1>c, LandStep DEF InsertSucceeds
  <1>2. ASSUME NEW q \in Queries, NEW e, NEW effect, InsertRaises(q, e, effect)
        PROVE  [Delivery!Next]_Delivery!dvars
    <2>1. CASE effect = "applied"
      BY <1>2, <2>1, <1>c, LandStep DEF InsertRaises
    <2>2. CASE effect # "applied"
      BY <1>2, <2>2, <1>s DEF InsertRaises
    <2>3. QED
      BY <2>1, <2>2
  <1>3. ASSUME NEW q \in Queries, NEW b \in Batches, NEW applied, LateInsertEnds(q, b, applied)
        PROVE  [Delivery!Next]_Delivery!dvars
    <2>1. b <= Current(q)
      BY <1>3 DEF LateInsertEnds, OrderInv
    <2>2. CASE applied
      BY <1>3, <2>1, <2>2, LandStep DEF LateInsertEnds
    <2>3. CASE ~applied
      BY <1>3, <2>3, <1>s DEF LateInsertEnds
    <2>4. QED
      BY <2>2, <2>3
  <1>4. ASSUME NEW q \in Queries, WriteDlqMetadata(q) PROVE [Delivery!Next]_Delivery!dvars
    <2> DEFINE f == [q |-> q, b |-> Current(q), at |-> clock', counted |-> pdf[q], data |-> FALSE]
    <2>1. dlq' \cup purged' = dlq \cup purged \cup {f} /\ UNCHANGED <<committed, stored>> /\ pc[q] # "idle"
      BY <1>4 DEF WriteDlqMetadata
    <2>2. f.q = q /\ f.b = Current(q) /\ f.counted = pdf[q] /\ ~f.data
      OBVIOUS
    <2> HIDE DEF f
    <2>3. \A p \in Queries, b \in Batches :
            DeadLettered(p, b)' <=> DeadLettered(p, b) \/ (p = q /\ b = Current(q) /\ ~pdf[q])
      BY <2>1, <2>2 DEF DeadLettered, Letters
    <2>4. CASE ~pdf[q]
      BY <2>1, <2>3, <2>4, <1>p
    <2>5. CASE pdf[q]
      <3>1. Aside' = Aside
        BY <2>3, <2>5 DEF Aside
      <3>2. QED
        BY <2>1, <3>1 DEF Delivery!dvars
    <2>6. QED
      BY <2>4, <2>5
  <1>5. ASSUME NEW q \in Queries, WriteDlqData(q) PROVE [Delivery!Next]_Delivery!dvars
    <2> DEFINE G(f) == [f EXCEPT !.data = (f.at = file[q]) \/ @]
    <2>1. /\ pc[q] = "dlq_data" /\ UNCHANGED <<committed, stored>>
          /\ dlq' = WithData(dlq, file[q]) /\ purged' = WithData(purged, file[q])
      BY <1>5 DEF WriteDlqData
    <2>2. /\ \A f \in dlq \cup purged : G(f) \in dlq' \cup purged'
          /\ \A g \in dlq' \cup purged' : \E f \in dlq \cup purged : g = G(f)
      BY <2>1 DEF WithData
    <2>3. \A f \in dlq \cup purged : /\ G(f).q = f.q /\ G(f).b = f.b /\ G(f).counted = f.counted
                                     /\ G(f).data <=> f.at = file[q] \/ f.data
      BY <1>t DEF Files
    <2> HIDE DEF G
    <2>4. \A f \in dlq \cup purged : f.at = file[q] => f.q = q /\ f.b = Current(q)
      BY <2>1 DEF StampInv
    <2>5. \E f \in dlq \cup purged : f.q = q /\ f.b = Current(q) /\ f.at = file[q]
      BY <2>1 DEF PlacementInv, QueryInv, LetterInv, Letters
    <2>6. ASSUME NEW p \in Queries, NEW b \in Batches
          PROVE  DeadLettered(p, b)' <=> DeadLettered(p, b) \/ (p = q /\ b = Current(q))
      <3>1. ASSUME DeadLettered(p, b)' PROVE DeadLettered(p, b) \/ (p = q /\ b = Current(q))
        BY <3>1, <2>2, <2>3, <2>4 DEF DeadLettered, Letters
      <3>2. ASSUME DeadLettered(p, b) PROVE DeadLettered(p, b)'
        BY <3>2, <2>2, <2>3 DEF DeadLettered, Letters
      <3>3. ASSUME p = q, b = Current(q) PROVE DeadLettered(p, b)'
        BY <3>3, <2>2, <2>3, <2>5 DEF DeadLettered, Letters
      <3>4. QED
        BY <3>1, <3>2, <3>3
    <2>7. QED
      BY <2>1, <2>6, <1>p
  <1>6. ASSUME NEW q \in Queries, Cleanup(q) PROVE [Delivery!Next]_Delivery!dvars
    <2>1. dlq' \cup purged' = dlq \cup purged
      BY <1>6, CleanupMoves DEF Cleanup
    <2>2. QED
      BY <1>6, <2>1, <1>s DEF Cleanup
  <1>7. ASSUME NEW q \in Queries, Commit(q) PROVE [Delivery!Next]_Delivery!dvars
    <2>1. /\ pc[q] = "return" /\ committed' = [committed EXCEPT ![q] = @ + 1]
          /\ UNCHANGED <<stored, dlq, purged>>
      BY <1>7 DEF Commit
    <2>2. Settled(q, Current(q)) /\ Current(q) \in Batches
      BY <2>1, <1>c DEF PlacementInv, QueryInv, ReturnInv
    <2>3. Empty(q, Current(q)) \/ Current(q) \in stored[q] \/ DeadLettered(q, Current(q))
      BY <2>2 DEF Settled
    <2>4. <<q, committed[q] + 1>> \in EmptyBatches \/ committed[q] + 1 \in stored[q] \cup Aside[q]
      BY <2>2, <2>3 DEF Empty, Current, Aside
    <2>5. Aside' = Aside
      BY <2>1, AsideStays
    <2>6. Delivery!Advance(q)
      BY <2>1, <2>4, <2>5 DEF Delivery!Advance
    <2>7. QED
      BY <2>6 DEF Delivery!Next
  <1>8. ASSUME NEW q \in Queries,
               \/ Plan(q) \/ SkipEmpty(q) \/ Collect(q) \/ DirectExcept(q) \/ CommonExcept(q)
               \/ DlqWriteRaises(q) \/ Decide(q)
        PROVE  [Delivery!Next]_Delivery!dvars
    BY <1>8, <1>s DEF Plan, SkipEmpty, Collect, DirectExcept, CommonExcept, DlqWriteRaises, Decide
  <1>9. ASSUME NEW q \in Queries, NEW e, NEW got, CollectRaises(q, e, got)
        PROVE  [Delivery!Next]_Delivery!dvars
    BY <1>9, <1>s DEF CollectRaises
  <1>10. CASE CleanupIntervalElapses \/ Restart \/ UNCHANGED vars
    BY <1>10, <1>s DEF CleanupIntervalElapses, Restart, vars
  <1>11. CASE Shutdown \/ Crash
    BY <1>11, <1>s DEF Shutdown, Crash, ProcessEnds
  <1>12. QED
    BY <1>1, <1>2, <1>3, <1>4, <1>5, <1>6, <1>7, <1>8, <1>9, <1>10, <1>11 DEF Next, Act, Handler

LEMMA DeliveryInit == Init => Delivery!Init
  <1> SUFFICES ASSUME Init PROVE Delivery!Init
    OBVIOUS
  <1>1. \A q \in Queries, b \in Batches : ~DeadLettered(q, b)
    BY DEF Init, DeadLettered, Letters
  <1>2. Aside = [q \in Queries |-> {}]
    BY <1>1 DEF Aside
  <1>3. QED
    BY <1>2 DEF Init, Delivery!Init

(* SilverWriter implements BatchDelivery: with retries, dead letters and   *)
(* their retention, crashes, replays and inserts that end late, the write  *)
(* path still commits one batch after the other, and each only once its    *)
(* rows have landed or have been put aside.                                *)
THEOREM Delivers == Spec => ImplementsBatchDelivery
  BY DeliveryInit, DeliveryStep, Invariance, OrderInvariant, StampInvariant, PTL
     DEF Spec, ImplementsBatchDelivery, Delivery!Spec
=============================================================================
