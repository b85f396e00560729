------------------------- MODULE QualityGateProofs --------------------------
(***************************************************************************)
(* Proofs about QualityGate for any topic, any limits and any number of    *)
(* faults and crashes.                                                     *)
(***************************************************************************)
EXTENDS QualityGate, FiniteSetTheorems, TLAPS

-----------------------------------------------------------------------------
(* Lemmas about the operators.                                             *)

(* The rows a gate accepts or rejects are rows of its batch.               *)
LEMMA GatedRows ==
  ASSUME NEW b
  PROVE  /\ invalid_rows(b) \subseteq RowsOf(b)
         /\ valid_rows(b) \subseteq RowsOf(b)
         /\ prepare_for_aggregate(b) \subseteq RowsOf(b)
  BY DEF invalid_rows, valid_rows, prepare_for_aggregate

(* The counters of a quality event are numbers.                            *)
LEMMA CountersType ==
  ASSUME NEW b \in Batches
  PROVE  dropped_rows(b) \in Nat /\ input_rows(b) \in Nat
  <1>1. IsFiniteSet(RowsOf(b))
    BY FS_Interval DEF RowsOf, Batches
  <1>2. IsFiniteSet(invalid_rows(b))
    BY <1>1, GatedRows, FS_Subset
  <1>3. QED
    BY <1>1, <1>2, FS_CardinalityType DEF dropped_rows, input_rows

(* A day that has ended by the cutoff holds only evidence older than the   *)
(* maximal age.                                                            *)
LEMMA DayEndsLater ==
  ASSUME NEW t \in Nat
  PROVE  DayEnd(t) \in Nat /\ DayEnd(t) > t
  <1> DEFINE d == t \div DayLength
  <1>1. d \in Nat /\ t < (d + 1) * DayLength
    BY ConstantsAssumption
  <1>2. (d + 1) * DayLength \in Nat
    BY <1>1, ConstantsAssumption
  <1>3. QED
    BY <1>1, <1>2 DEF DayEnd

(* Removing what OldestExcess chooses leaves at most MaxFiles files.       *)
LEMMA ExcessLeaves ==
  ASSUME NEW S, IsFiniteSet(S), NEW X \in OldestExcess(S)
  PROVE  /\ IsFiniteSet(S \ X)
         /\ Cardinality(S \ X) <= MaxFiles
  <1>1. X \subseteq S
        /\ Cardinality(X) = IF Cardinality(S) > MaxFiles THEN Cardinality(S) - MaxFiles ELSE 0
    BY DEF OldestExcess
  <1>2. S \cap X = X
    BY <1>1
  <1>3. IsFiniteSet(S \ X) /\ Cardinality(S \ X) = Cardinality(S) - Cardinality(X)
    BY <1>2, FS_Difference
  <1>4. Cardinality(S) \in Nat /\ MaxFiles \in Nat
    BY FS_CardinalityType, ConstantsAssumption
  <1>5. QED
    BY <1>1, <1>3, <1>4

(* What a cleanup leaves of the files and of the evidence.                 *)
LEMMA CleanupLeaves ==
  ASSUME IsFiniteSet(files), cleanup_quality_artifacts
  PROVE  /\ quarantine' = quarantine \ ExpiredEvidence
         /\ files' \subseteq files
         /\ Cardinality(files') <= MaxFiles
  <1>1. PICK excess \in OldestExcess(files \ ExpiredFiles) :
          /\ quarantine' = quarantine \ ExpiredEvidence
          /\ files' = files \ (ExpiredFiles \cup excess)
    BY DEF cleanup_quality_artifacts
  <1>2. files' = (files \ ExpiredFiles) \ excess
    BY <1>1
  <1>3. IsFiniteSet(files \ ExpiredFiles)
    BY FS_Difference
  <1>4. Cardinality(files') <= MaxFiles
    BY <1>2, <1>3, ExcessLeaves
  <1>5. QED
    BY <1>1, <1>4

(* A cleanup, whether it raises or not, only removes evidence that has     *)
(* expired, and files.                                                     *)
LEMMA CleanupOnlyRemoves ==
  ASSUME _maybe_cleanup_quality_artifacts \/ CleanupRaises
  PROVE  /\ quarantine' \subseteq quarantine
         /\ quarantine \ quarantine' \subseteq ExpiredEvidence
         /\ files' \subseteq files
  <1>1. CASE _maybe_cleanup_quality_artifacts
    BY <1>1 DEF _maybe_cleanup_quality_artifacts, cleanup_quality_artifacts
  <1>2. CASE CleanupRaises
    BY <1>2 DEF CleanupRaises
  <1>3. QED
    BY <1>1, <1>2

-----------------------------------------------------------------------------
(* The rows of the quality query.  Its committed batches cover a stretch   *)
(* of the topic from where it began, and the planned batch continues it,   *)
(* so that the next batch always begins at a row of the topic.             *)

InOrder ==
  /\ IF first["quality"] = NotBegun THEN Checked = {} /\ planned = NoBatch
     ELSE \E n \in first["quality"]..produced : Checked = first["quality"] + 1..n
  /\ planned # NoBatch => /\ planned.lo = QualityOffset + 1
                          /\ planned.lo <= planned.hi /\ planned.hi <= produced
  /\ pc # "idle" => planned # NoBatch
  /\ mainDone <= produced
  /\ IsFiniteSet(files)

TypeInv == TypeOK /\ InOrder

(* The offset after a stretch of checked rows is its end.                  *)
LEMMA OffsetAfter ==
  ASSUME NEW n \in Nat, first["quality"] \in Nat, first["quality"] <= n,
         Checked = first["quality"] + 1..n
  PROVE  QualityOffset = n
  <1>1. ASSUME NEW a \in Nat, a <= n
        PROVE  a + Cardinality(a + 1..n) = n
    <2>1. Cardinality(a + 1..n) = IF a + 1 > n THEN 0 ELSE n - (a + 1) + 1
      BY <1>1, FS_Interval
    <2>2. QED
      BY <1>1, <2>1
  <1>2. QED
    BY <1>1 DEF QualityOffset

LEMMA CheckedInOrder ==
  ASSUME TypeInv, first["quality"] # NotBegun
  PROVE  /\ first["quality"] \in Nat /\ QualityOffset \in first["quality"]..produced
         /\ Checked = first["quality"] + 1..QualityOffset
  <1>1. first["quality"] \in Nat /\ produced \in Nat
    BY DEF TypeInv, TypeOK, Queries, NotBegun
  <1>2. PICK n \in first["quality"]..produced : Checked = first["quality"] + 1..n
    BY DEF TypeInv, InOrder
  <1>3. n \in Nat /\ first["quality"] <= n
    BY <1>1, <1>2
  <1>4. QualityOffset = n
    BY <1>1, <1>2, <1>3, OffsetAfter
  <1>5. QED
    BY <1>1, <1>2, <1>4

(* While process_quality_batch runs, its rows are rows of the topic.       *)
LEMMA PlannedRows ==
  ASSUME TypeInv, planned # NoBatch
  PROVE  RowsOf(planned) \subseteq Rows
  <1>0. first["quality"] \in Nat /\ QualityOffset \in first["quality"]..produced
    BY CheckedInOrder DEF TypeInv, InOrder
  <1>1. planned.lo >= 1 /\ planned.lo \in Nat /\ planned.hi \in Nat /\ planned.hi <= NumRows
    BY <1>0, ConstantsAssumption DEF TypeInv, TypeOK, InOrder, Batches
  <1>2. QED
    BY <1>1, ConstantsAssumption DEF RowsOf, Rows

(* A fallback file keeps the types of the files and of the notes.          *)
LEMMA FallbackType ==
  ASSUME TypeInv, NEW kind \in FileKinds, fallback_quality_event(kind)
  PROVE  files' \subseteq Files /\ noted' \subseteq Batches \X FileKinds /\ IsFiniteSet(files')
  <1>1. [batch |-> planned, kind |-> kind, at |-> clock] \in Files
    BY DEF TypeInv, TypeOK, Files
  <1>2. <<planned, kind>> \in Batches \X FileKinds
    BY DEF TypeInv, TypeOK
  <1>3. files' = files \cup {[batch |-> planned, kind |-> kind, at |-> clock]}
        /\ noted' = noted \cup {<<planned, kind>>}
    BY DEF fallback_quality_event
  <1>4. IsFiniteSet(files')
    BY <1>3, FS_AddElement DEF TypeInv, InOrder
  <1>5. QED
    BY <1>1, <1>2, <1>3, <1>4 DEF TypeInv, TypeOK

-----------------------------------------------------------------------------
(* Type correctness.                                                       *)

(* Nothing moves when a step leaves the quality query where it is.         *)
LEMMA InOrderKept ==
  ASSUME TypeInv, UNCHANGED <<planned, log, first>>, pc' = "idle" \/ planned # NoBatch,
         produced' >= produced, produced' \in Nat, mainDone' <= produced', IsFiniteSet(files')
  PROVE  InOrder'
  <1>1. Checked' = Checked
    BY DEF Checked
  <1>2. QualityOffset' = QualityOffset
    BY <1>1 DEF QualityOffset
  <1>3. planned' # NoBatch => /\ planned'.lo = QualityOffset' + 1
                             /\ planned'.lo <= planned'.hi /\ planned'.hi <= produced'
    BY <1>2 DEF TypeInv, InOrder, TypeOK, Batches
  <1>4. CASE first["quality"] = NotBegun
    BY <1>1, <1>3, <1>4 DEF TypeInv, InOrder
  <1>5. CASE first["quality"] # NotBegun
    <2>1. /\ first["quality"] \in Nat /\ QualityOffset \in first["quality"]..produced
          /\ Checked = first["quality"] + 1..QualityOffset
      BY <1>5, CheckedInOrder
    <2>2. QualityOffset \in first["quality"]..produced'
      BY <2>1 DEF TypeInv, TypeOK
    <2>3. QED
      BY <1>1, <1>3, <1>5, <2>1, <2>2 DEF InOrder
  <1>6. QED
    BY <1>4, <1>5

LEMMA TypeInvInit == Init => TypeInv
  <1> SUFFICES ASSUME Init PROVE TypeInv
    OBVIOUS
  <1> USE ConstantsAssumption DEF Init
  <1>b. up \in BOOLEAN /\ raised \in BOOLEAN /\ cleanupDue \in BOOLEAN
    OBVIOUS
  <1>n. NoBatch \in Batches
    BY DEF Batches, NoBatch
  <1>1. TypeOK
    BY <1>b, <1>n DEF TypeOK
  <1>2. Checked = {} /\ planned = NoBatch /\ first["quality"] = NotBegun
    BY DEF Checked, Queries
  <1>3. IsFiniteSet(files)
    BY FS_EmptySet
  <1>4. QED
    BY <1>1, <1>2, <1>3 DEF TypeInv, InOrder

(* TypeInv is inductive.                                                   *)
LEMMA TypeInvStep == TypeInv /\ [Next]_vars => TypeInv'
  <1> SUFFICES ASSUME TypeInv, [Next]_vars PROVE TypeInv'
    OBVIOUS
  <1> USE ConstantsAssumption
  <1>t. TypeOK /\ InOrder
    BY DEF TypeInv
  <1>f. IsFiniteSet(files) /\ mainDone <= produced
    BY <1>t DEF InOrder
  <1>p. pc # "idle" => planned # NoBatch
    BY <1>t DEF InOrder
  <1>r. planned # NoBatch => invalid_rows(planned) \subseteq Rows
    BY PlannedRows, GatedRows
  <1> USE DEF durable, offsets, Fault, At, ProcessEnds
  <1>1. CASE Tick
    BY <1>1, <1>t, <1>p, <1>f, InOrderKept DEF Tick, TypeOK, TypeInv
  <1>2. CASE RowArrives
    BY <1>2, <1>t, <1>p, <1>f, InOrderKept DEF RowArrives, TypeOK, TypeInv
  <1>3. CASE MainBatch
    <2>1. [lo |-> mainDone + 1, hi |-> produced, at |-> clock] \in Batches
      BY <1>t DEF TypeOK, Batches
    <2>2. mainLog' \subseteq Batches
      BY <1>3, <2>1, <1>t DEF MainBatch, TypeOK
    <2>3. QED
      BY <1>3, <2>2, <1>t, <1>p, <1>f, InOrderKept DEF MainBatch, TypeOK, TypeInv
  <1>b. ASSUME NEW q \in Queries, Begin(q) PROVE TypeInv'
    <2>1. first' \in [Queries -> {NotBegun} \cup 0..NumRows] /\ mainDone' \in 0..NumRows
      BY <1>b, <1>t DEF Begin, TypeOK
    <2>2. TypeOK'
      BY <1>b, <2>1, <1>t DEF Begin, TypeOK
    <2>3. mainDone' <= produced' /\ IsFiniteSet(files') /\ produced' = produced /\ produced \in Nat
      BY <1>b, <1>f, <1>t DEF Begin, TypeOK
    <2>4. Checked' = Checked /\ UNCHANGED <<planned, log, pc>>
      BY <1>b DEF Begin, Checked
    <2>5. CASE q = "main"
      <3>1. first'["quality"] = first["quality"]
        BY <1>b, <2>5, <1>t DEF Begin, TypeOK, Queries
      <3>2. QualityOffset' = QualityOffset
        BY <2>4, <3>1 DEF QualityOffset
      <3>3. InOrder'
        BY <2>3, <2>4, <3>1, <3>2, <1>t DEF InOrder
      <3>4. QED
        BY <2>2, <3>3 DEF TypeInv
    <2>6. CASE q = "quality"
      <3>1. first["quality"] = NotBegun /\ first'["quality"] = produced /\ produced # NotBegun
        BY <1>b, <2>3, <2>6, <1>t DEF Begin, TypeOK, Queries, NotBegun
      <3>2. Checked' = {} /\ planned' = NoBatch /\ pc' = "idle"
        BY <2>4, <3>1, <1>t DEF InOrder
      <3>3. produced + 1..produced = {} /\ produced \in produced..produced
        BY <2>3
      <3>4. \E n \in first'["quality"]..produced' : Checked' = first'["quality"] + 1..n
        BY <2>3, <3>1, <3>2, <3>3
      <3>5. InOrder'
        BY <2>3, <3>1, <3>2, <3>4 DEF InOrder
      <3>6. QED
        BY <2>2, <3>5 DEF TypeInv
    <2>7. QED
      BY <2>5, <2>6 DEF Queries
  <1>4. CASE Plan
    <2>1. pc' \in {"event", "quarantine"}
      BY <1>4 DEF Plan
    <2>2. CASE planned # NoBatch
      BY <1>4, <2>1, <2>2, <1>t, <1>p, <1>f, InOrderKept DEF Plan, TypeOK, TypeInv
    <2>3. CASE planned = NoBatch
      <3>1. /\ first["quality"] # NotBegun /\ QualityOffset < produced
            /\ planned' = [lo |-> QualityOffset + 1, hi |-> produced, at |-> clock]
        BY <1>4, <2>3 DEF Plan
      <3>2. /\ first["quality"] \in Nat /\ QualityOffset \in first["quality"]..produced
            /\ Checked = first["quality"] + 1..QualityOffset
        BY <3>1, CheckedInOrder
      <3>n. QualityOffset \in Nat /\ produced \in Nat
        BY <3>2, <1>t DEF TypeOK
      <3>3. planned' \in Batches
        BY <3>1, <3>n, <1>t DEF Batches, TypeOK
      <3>4. planned' # NoBatch
        BY <3>1, <3>n DEF NoBatch
      <3>5. TypeOK'
        BY <1>4, <2>1, <3>3, <1>t DEF Plan, TypeOK, offsets
      <3>6. Checked' = Checked /\ QualityOffset' = QualityOffset /\ produced' = produced /\ first' = first
        BY <1>4 DEF Plan, Checked, QualityOffset, offsets
      <3>7. /\ planned'.lo = QualityOffset' + 1
            /\ planned'.lo <= planned'.hi /\ planned'.hi <= produced'
        BY <3>1, <3>n, <3>6
      <3>8. \E n \in first'["quality"]..produced' : Checked' = first'["quality"] + 1..n
        BY <3>2, <3>6
      <3>9. IsFiniteSet(files') /\ mainDone' <= produced'
        BY <1>4, <1>f DEF Plan, offsets
      <3>10. InOrder'
        BY <3>1, <3>4, <3>6, <3>7, <3>8, <3>9 DEF InOrder
      <3>11. QED
        BY <3>5, <3>10 DEF TypeInv
    <2>4. QED
      BY <2>2, <2>3
  <1>5. CASE Commit
    <2>1. planned # NoBatch
      BY <1>5, <1>p DEF Commit
    <2>2. TypeOK'
      BY <1>5, <1>t DEF Commit, TypeOK, Batches, NoBatch
    <2>3. /\ first["quality"] # NotBegun /\ first["quality"] \in Nat
          /\ QualityOffset \in first["quality"]..produced /\ Checked = first["quality"] + 1..QualityOffset
      BY <2>1, <1>t, CheckedInOrder DEF InOrder
    <2>4. /\ planned.lo = QualityOffset + 1 /\ planned.lo <= planned.hi
          /\ planned.hi <= produced /\ planned.hi \in Nat /\ produced \in Nat
      BY <2>1, <1>t DEF InOrder, TypeOK, Batches
    <2>5. Checked' = Checked \cup RowsOf(planned) /\ first' = first /\ produced' = produced
      BY <1>5 DEF Commit, Checked, offsets
    <2>6. Checked' = first["quality"] + 1..planned.hi
      BY <2>3, <2>4, <2>5 DEF RowsOf
    <2>7. /\ planned.hi \in first["quality"]..produced' /\ planned' = NoBatch /\ pc' = "idle"
          /\ mainDone' <= produced'
      BY <1>5, <1>f, <2>3, <2>4, <2>5, <1>t DEF Commit, TypeOK, offsets
    <2>8. IsFiniteSet(files')
      BY <1>5, <1>f DEF Commit
    <2>9. QED
      BY <2>2, <2>3, <2>5, <2>6, <2>7, <2>8 DEF TypeInv, InOrder
  <1>6. CASE quarantine_invalid_batch
    <2>1. invalid_rows(planned) \subseteq Rows
      BY <1>6, <1>p, <1>r DEF quarantine_invalid_batch
    <2>2. quarantine' \subseteq Evidence /\ everKept' \subseteq Rows
      BY <1>6, <2>1, <1>t DEF quarantine_invalid_batch, TypeOK, Evidence
    <2>3. InOrder'
      BY <1>6, <1>t, <1>p, <1>f, InOrderKept DEF quarantine_invalid_batch, TypeOK
    <2>4. QED
      BY <1>6, <2>2, <2>3, <1>t DEF quarantine_invalid_batch, TypeOK, TypeInv
  <1>7. CASE QuarantineWriteFails
    <2>1. files' \subseteq Files /\ noted' \subseteq Batches \X FileKinds /\ IsFiniteSet(files')
      BY <1>7, FallbackType DEF QuarantineWriteFails, FileKinds
    <2>2. QED
      BY <1>7, <2>1, <1>t, <1>p, <1>f, InOrderKept DEF QuarantineWriteFails, TypeOK, TypeInv
  <1>8. CASE QualityActionRaises
    BY <1>8, <1>t, <1>p, <1>f, InOrderKept DEF QualityActionRaises, TypeOK, TypeInv
  <1>9. CASE write_quality_event
    <2>1. raised' \in BOOLEAN
      BY <1>9 DEF write_quality_event
    <2>2. QED
      BY <1>9, <2>1, <1>t, <1>p, <1>f, InOrderKept DEF write_quality_event, TypeOK, TypeInv
  <1>10. CASE EventInsertFails
    <2>1. files' \subseteq Files /\ noted' \subseteq Batches \X FileKinds /\ IsFiniteSet(files')
      BY <1>10, FallbackType DEF EventInsertFails, FileKinds
    <2>2. raised' \in BOOLEAN
      BY <1>10 DEF EventInsertFails
    <2>3. QED
      BY <1>10, <2>1, <2>2, <1>t, <1>p, <1>f, InOrderKept DEF EventInsertFails, TypeOK, TypeInv
  <1>11. CASE EventFallbackRaises
    BY <1>11, <1>t, <1>p, <1>f, InOrderKept DEF EventFallbackRaises, TypeOK, TypeInv
  <1>12. CASE _maybe_cleanup_quality_artifacts \/ CleanupRaises
    <2>1. quarantine' \subseteq quarantine /\ files' \subseteq files
      BY <1>12, CleanupOnlyRemoves
    <2>2. IsFiniteSet(files')
      BY <2>1, <1>f, FS_Subset
    <2>3. pc' \in {"except", "return"}
      BY <1>12 DEF _maybe_cleanup_quality_artifacts, CleanupRaises, AfterEvent
    <2>4. cleanupDue' \in BOOLEAN
      BY <1>12 DEF _maybe_cleanup_quality_artifacts, CleanupRaises
    <2>5. CASE _maybe_cleanup_quality_artifacts
      BY <2>5, <2>1, <2>2, <2>3, <2>4, <1>t, <1>p, <1>f, InOrderKept
         DEF _maybe_cleanup_quality_artifacts, TypeOK, TypeInv
    <2>6. CASE CleanupRaises
      BY <2>6, <2>1, <2>2, <2>3, <2>4, <1>t, <1>p, <1>f, InOrderKept
         DEF CleanupRaises, TypeOK, TypeInv
    <2>7. QED
      BY <1>12, <2>5, <2>6
  <1>13. CASE QualityExcept
    <2>1. files' \subseteq Files /\ noted' \subseteq Batches \X FileKinds /\ IsFiniteSet(files')
      BY <1>13, <1>t, <1>f, FallbackType DEF QualityExcept, FileKinds, TypeOK
    <2>2. pc' \in {"failed", "return"}
      BY <1>13 DEF QualityExcept
    <2>3. QED
      BY <1>13, <2>1, <2>2, <1>t, <1>p, <1>f, InOrderKept DEF QualityExcept, TypeOK, TypeInv
  <1>14. CASE QualityExceptRaises
    BY <1>14, <1>t, <1>p, <1>f, InOrderKept DEF QualityExceptRaises, TypeOK, TypeInv
  <1>15. CASE Shutdown \/ Crash
    <2>1. up' \in BOOLEAN /\ raised' \in BOOLEAN /\ cleanupDue' \in BOOLEAN
      BY <1>15 DEF Shutdown, Crash
    <2>2. faults' \in Nat
      BY <1>15, <1>t DEF Shutdown, Crash, TypeOK
    <2>3. QED
      BY <1>15, <2>1, <2>2, <1>t, <1>p, <1>f, InOrderKept DEF Shutdown, Crash, TypeOK, TypeInv
  <1>16. CASE Restart
    BY <1>16, <1>t, <1>p, <1>f, InOrderKept DEF Restart, TypeOK, TypeInv
  <1>17. CASE UNCHANGED vars
    BY <1>17, <1>t, <1>p, <1>f, InOrderKept DEF vars, TypeOK, TypeInv
  <1>18. QED
    BY <1>1, <1>2, <1>3, <1>b, <1>4, <1>5, <1>6, <1>7, <1>8, <1>9, <1>10, <1>11, <1>12, <1>13, <1>14,
       <1>15, <1>16, <1>17 DEF Next, QualityStep

(* TypeInv holds in every reachable state.                                 *)
THEOREM TypeInvariant == Spec => []TypeInv
  BY TypeInvInit, TypeInvStep, PTL DEF Spec

(* Every variable keeps its type: in particular a batch of the quality     *)
(* query never reaches outside the topic, whatever is replayed.            *)
THEOREM TypeCorrect == Spec => []TypeOK
  <1>1. TypeInv => TypeOK
    BY DEF TypeInv
  <1>2. QED
    BY <1>1, TypeInvariant, PTL

-----------------------------------------------------------------------------
(* What the handler owes for its batch, location by location.              *)

(* No rejected row of b is lost without a trace.                           *)
Kept(b) == invalid_rows(b) \subseteq everKept \/ LossNoted(b)

(* b was reported, to the table or to a fallback file.                     *)
Reported(b) == b \in table \/ <<b, "event">> \in noted \/ <<b, "quality_event_error">> \in noted

(* Strict mode accepts the share of rejected rows of b.                    *)
Tolerable(b) == mode = "strict" => ~InvalidRatioExceeded(b)

(* The quarantine comes before the event, the event before the cleanup,    *)
(* and the ratio is looked at last; an exception skips what is left, but   *)
(* only a mode that leaves a note gets from there to a commit.             *)
HandlerInv ==
  /\ mode # "observe" /\ pc \in {"event", "cleanup", "return"} => Kept(planned)
  /\ pc = "cleanup" /\ ~raised => Reported(planned)
  /\ pc = "return" => Reported(planned) /\ Tolerable(planned)

CommittedInv == \A b \in log : /\ mode # "observe" => Kept(b)
                               /\ Reported(b) /\ Tolerable(b)

GateInv == HandlerInv /\ CommittedInv

(* What has been kept, noted or reported stays so: the histories and the   *)
(* table only grow.                                                        *)
LEMMA HistoriesGrow ==
  ASSUME [Next]_vars
  PROVE  everKept \subseteq everKept' /\ noted \subseteq noted' /\ table \subseteq table' /\ mode' = mode
  <1> USE DEF durable, offsets, Fault, At, ProcessEnds, fallback_quality_event
  <1>1. CASE Tick \/ RowArrives \/ (\E q \in Queries : Begin(q)) \/ MainBatch \/ Plan \/ Commit
    BY <1>1 DEF Begin, Tick, RowArrives, MainBatch, Plan, Commit
  <1>2. CASE quarantine_invalid_batch \/ QuarantineWriteFails \/ QualityActionRaises
    BY <1>2 DEF quarantine_invalid_batch, QuarantineWriteFails, QualityActionRaises
  <1>3. CASE write_quality_event \/ EventInsertFails \/ EventFallbackRaises
    BY <1>3 DEF write_quality_event, EventInsertFails, EventFallbackRaises
  <1>4. CASE _maybe_cleanup_quality_artifacts \/ CleanupRaises
    BY <1>4 DEF _maybe_cleanup_quality_artifacts, CleanupRaises
  <1>5. CASE QualityExcept \/ QualityExceptRaises
    BY <1>5 DEF QualityExcept, QualityExceptRaises
  <1>6. CASE Shutdown \/ Crash \/ Restart \/ UNCHANGED vars
    BY <1>6 DEF Shutdown, Crash, Restart, vars
  <1>7. QED
    BY <1>1, <1>2, <1>3, <1>4, <1>5, <1>6 DEF Next, QualityStep

(* The verdict on a batch depends on the batch alone, so that what was     *)
(* settled for it stays settled.                                           *)
LEMMA VerdictsStay ==
  ASSUME [Next]_vars, NEW b
  PROVE  (Kept(b) => Kept(b)') /\ (Reported(b) => Reported(b)') /\ (Tolerable(b) => Tolerable(b)')
  <1>1. everKept \subseteq everKept' /\ noted \subseteq noted' /\ table \subseteq table' /\ mode' = mode
    BY HistoriesGrow
  <1>2. invalid_rows(b)' = invalid_rows(b) /\ InvalidRatioExceeded(b)' = InvalidRatioExceeded(b)
    BY DEF invalid_rows, InvalidRatioExceeded, dropped_rows, input_rows
  <1>3. LossNoted(b) => LossNoted(b)'
    BY <1>1 DEF LossNoted
  <1>4. Kept(b) => Kept(b)'
    BY <1>1, <1>2, <1>3 DEF Kept
  <1>5. Reported(b) => Reported(b)'
    BY <1>1 DEF Reported
  <1>6. Tolerable(b) => Tolerable(b)'
    BY <1>1, <1>2 DEF Tolerable
  <1>7. QED
    BY <1>4, <1>5, <1>6

LEMMA GateInvInit == Init => GateInv
  BY DEF Init, GateInv, HandlerInv, CommittedInv

(* GateInv is inductive.                                                   *)
LEMMA GateInvStep == TypeInv /\ GateInv /\ [Next]_vars => GateInv'
  <1> SUFFICES ASSUME TypeInv, GateInv, [Next]_vars PROVE GateInv'
    OBVIOUS
  <1>m. mode' = mode
    BY HistoriesGrow
  <1>v. \A b : (Kept(b) => Kept(b)') /\ (Reported(b) => Reported(b)') /\ (Tolerable(b) => Tolerable(b)')
    BY VerdictsStay
  (* A step that commits nothing only has to keep the handler's part.      *)
  <1>c. ASSUME log' = log PROVE CommittedInv'
    BY <1>c, <1>m, <1>v DEF GateInv, CommittedInv
  (* So does one that leaves the handler where it is, or out of it.        *)
  <1>s. ASSUME planned' = planned, (pc' = pc /\ raised' = raised) \/ pc' \in {"idle", "except", "failed"}
        PROVE  HandlerInv'
    BY <1>s, <1>m, <1>v DEF GateInv, HandlerInv
  <1> USE DEF durable, offsets, Fault, At, ProcessEnds
  <1>1. CASE Tick \/ RowArrives \/ (\E q \in Queries : Begin(q)) \/ MainBatch \/ Restart \/ UNCHANGED vars
    BY <1>1, <1>c, <1>s DEF Begin, Tick, RowArrives, MainBatch, Restart, vars, GateInv
  <1>2. CASE Shutdown \/ Crash \/ QualityActionRaises \/ QualityExceptRaises
    BY <1>2, <1>c, <1>s DEF Shutdown, Crash, QualityActionRaises, QualityExceptRaises, GateInv
  <1>3. CASE Plan
    <2>1. mode # "observe" => pc' = "quarantine"
      BY <1>3 DEF Plan
    <2>2. pc' \in {"event", "quarantine"} /\ log' = log
      BY <1>3 DEF Plan
    <2>3. HandlerInv'
      BY <2>1, <2>2, <1>m DEF HandlerInv
    <2>4. QED
      BY <2>2, <2>3, <1>c DEF GateInv
  <1>4. CASE Commit
    <2>1. log' = log \cup {planned} /\ pc' = "idle" /\ pc = "return"
      BY <1>4 DEF Commit
    <2>2. (mode # "observe" => Kept(planned)) /\ Reported(planned) /\ Tolerable(planned)
      BY <2>1 DEF GateInv, HandlerInv
    <2>3. CommittedInv'
      BY <2>1, <2>2, <1>m, <1>v DEF GateInv, CommittedInv
    <2>4. HandlerInv'
      BY <2>1 DEF HandlerInv
    <2>5. QED
      BY <2>3, <2>4 DEF GateInv
  <1>5. CASE quarantine_invalid_batch \/ QuarantineWriteFails
    <2>1. planned' = planned /\ log' = log /\ pc' = "event"
      BY <1>5 DEF quarantine_invalid_batch, QuarantineWriteFails
    <2>2. CASE quarantine_invalid_batch
      <3>1. invalid_rows(planned) \subseteq everKept'
        BY <2>2 DEF quarantine_invalid_batch
      <3>2. Kept(planned)'
        BY <3>1, <2>1 DEF Kept, invalid_rows
      <3>3. QED
        BY <2>1, <3>2, <1>c DEF GateInv, HandlerInv
    <2>3. CASE QuarantineWriteFails
      <3>1. <<planned, "quarantine_failed">> \in noted'
        BY <2>3 DEF QuarantineWriteFails, fallback_quality_event
      <3>2. Kept(planned)'
        BY <3>1, <2>1 DEF Kept, LossNoted
      <3>3. QED
        BY <2>1, <3>2, <1>c DEF GateInv, HandlerInv
    <2>4. QED
      BY <1>5, <2>2, <2>3
  <1>6. CASE write_quality_event \/ EventInsertFails \/ EventFallbackRaises
    <2>1. planned' = planned /\ log' = log /\ pc = "event" /\ pc' = "cleanup"
      BY <1>6 DEF write_quality_event, EventInsertFails, EventFallbackRaises
    <2>2. mode # "observe" => Kept(planned)'
      BY <2>1, <1>v DEF GateInv, HandlerInv
    <2>3. ~raised' => Reported(planned)'
      <3>1. CASE write_quality_event
        BY <3>1, <2>1 DEF write_quality_event, Reported
      <3>2. CASE EventInsertFails
        BY <3>2, <2>1 DEF EventInsertFails, fallback_quality_event, Reported
      <3>3. CASE EventFallbackRaises
        BY <3>3 DEF EventFallbackRaises
      <3>4. QED
        BY <1>6, <3>1, <3>2, <3>3
    <2>4. QED
      BY <2>1, <2>2, <2>3, <1>c, <1>m DEF GateInv, HandlerInv
  <1>7. CASE _maybe_cleanup_quality_artifacts \/ CleanupRaises
    <2>1. planned' = planned /\ log' = log /\ pc = "cleanup" /\ pc' = AfterEvent
      BY <1>7 DEF _maybe_cleanup_quality_artifacts, CleanupRaises
    <2>2. CASE pc' = "except"
      BY <2>1, <2>2, <1>c, <1>s DEF GateInv
    <2>3. CASE pc' = "return"
      <3>1. ~raised /\ Tolerable(planned)
        BY <2>1, <2>3 DEF AfterEvent, Tolerable
      <3>2. Reported(planned)' /\ Tolerable(planned)' /\ (mode # "observe" => Kept(planned)')
        BY <2>1, <3>1, <1>v DEF GateInv, HandlerInv
      <3>3. QED
        BY <2>1, <2>3, <3>2, <1>c, <1>m DEF GateInv, HandlerInv
    <2>4. QED
      BY <2>1, <2>2, <2>3 DEF AfterEvent
  <1>8. CASE QualityExcept
    <2>1. planned' = planned /\ log' = log
      BY <1>8 DEF QualityExcept
    <2>2. CASE mode = "strict"
      BY <1>8, <2>1, <2>2, <1>c, <1>s DEF QualityExcept, GateInv
    <2>3. CASE mode # "strict"
      <3>1. pc' = "return" /\ <<planned, "quality_event_error">> \in noted'
        BY <1>8, <2>3 DEF QualityExcept, fallback_quality_event
      <3>2. Kept(planned)' /\ Reported(planned)' /\ Tolerable(planned)'
        BY <2>1, <2>3, <3>1, <1>m DEF Kept, LossNoted, Reported, Tolerable
      <3>3. QED
        BY <2>1, <3>1, <3>2, <1>c DEF GateInv, HandlerInv
    <2>4. QED
      BY <2>2, <2>3
  <1>9. QED
    BY <1>1, <1>2, <1>3, <1>4, <1>5, <1>6, <1>7, <1>8 DEF Next, QualityStep

LEMMA GateInvariant == Spec => []GateInv
  <1>1. Spec => [](TypeInv /\ GateInv)
    <2>1. Init => TypeInv /\ GateInv
      BY TypeInvInit, GateInvInit
    <2>2. TypeInv /\ GateInv /\ [Next]_vars => (TypeInv /\ GateInv)'
      BY TypeInvStep, GateInvStep
    <2>3. QED
      BY <2>1, <2>2, PTL DEF Spec
  <1>2. QED
    BY <1>1, PTL

(* Outside observe mode no rejected row of a committed batch is missing    *)
(* without a note, whichever writes, Spark actions and processes failed.   *)
THEOREM RejectionsKept == Spec => []NoRejectionIsSilent
  <1>1. GateInv => NoRejectionIsSilent
    BY DEF GateInv, CommittedInv, NoRejectionIsSilent, Kept
  <1>2. QED
    BY <1>1, GateInvariant, PTL

(* Every committed batch was reported.                                     *)
THEOREM BatchesReported == Spec => []EveryBatchReported
  <1>1. GateInv => EveryBatchReported
    BY DEF GateInv, CommittedInv, EveryBatchReported, Reported
  <1>2. QED
    BY <1>1, GateInvariant, PTL

(* In strict mode a batch over SPARK_DQ_STRICT_MAX_INVALID_RATIO is never  *)
(* committed, on its first run or on a replay.                             *)
THEOREM StrictRatio == Spec => []StrictModeLimitsInvalid
  <1>1. TypeInv /\ GateInv => StrictModeLimitsInvalid
    <2> SUFFICES ASSUME TypeInv, GateInv, mode = "strict", NEW b \in log
                 PROVE  dropped_rows(b) * 100 <= MaxInvalid * input_rows(b)
      BY DEF StrictModeLimitsInvalid
    <2>1. dropped_rows(b) \in Nat /\ input_rows(b) \in Nat
      BY CountersType DEF TypeInv, TypeOK
    <2>2. dropped_rows(b) * 100 \in Nat /\ MaxInvalid * input_rows(b) \in Nat
      BY <2>1, ConstantsAssumption
    <2>3. ~(dropped_rows(b) * 100 > MaxInvalid * input_rows(b))
      BY DEF GateInv, CommittedInv, Tolerable, InvalidRatioExceeded
    <2>4. QED
      BY <2>2, <2>3
  <1>2. QED
    BY <1>1, TypeInvariant, GateInvariant, PTL

-----------------------------------------------------------------------------
(* What the gate loses.                                                    *)

(* A row that neither verdict accepts nor rejects, and that is not lost    *)
(* between them, was accepted by the main query or rejected by the other.  *)
LEMMA JudgedOneWay ==
  ASSUME NEW i, NEW main, NEW quality, ~LostBetween(i, main, quality)
  PROVE  _dq_is_valid(Topic[i], main) = "T" \/ _dq_is_valid(Topic[i], quality) = "F"
  <1> DEFINE c == Conditions(Topic[i], main)
             d == Conditions(Topic[i], quality)
  <1>1. ASSUME _dq_is_valid(Topic[i], main) = "F"
        PROVE  _dq_is_valid(Topic[i], quality) = "F"
    <2>1. PICK k \in 1..5 : c[k] = "T"
      BY <1>1 DEF _dq_is_valid
    <2>2. CASE k \in 1..4
      <3>1. d[k] = "T"
        BY <2>1, <2>2 DEF Conditions
      <3>2. QED
        BY <3>1 DEF _dq_is_valid
    <2>3. CASE k = 5
      <3>1. EventTimeLag(Topic[i], main) = "T"
        BY <2>1, <2>3 DEF Conditions
      <3>2. EventTimeLag(Topic[i], quality) = "T"
        BY <3>1 DEF LostBetween, EventTimeLag
      <3>3. d[5] = "T"
        BY <3>2 DEF Conditions
      <3>4. QED
        BY <3>3 DEF _dq_is_valid
    <2>4. QED
      BY <2>2, <2>3
  <1>2. _dq_is_valid(Topic[i], main) \in {"T", "F", "N"} /\ _dq_is_valid(Topic[i], main) # "N"
    BY DEF _dq_is_valid, LostBetween
  <1>3. QED
    BY <1>1, <1>2

(* Whatever fails and whenever the two queries begin and run, a row that   *)
(* shadow mode has judged twice is aggregated, quarantined or under a      *)
(* note, unless a NULL or the two times of its judgement explain the drop. *)
THEOREM DropsExplained == Spec => []DropsAreExplained
  <1>1. GateInv => DropsAreExplained
    <2> SUFFICES ASSUME GateInv, mode = "shadow", NEW m \in mainLog, NEW b \in log,
                        NEW i \in RowsOf(m) \cap RowsOf(b),
                        ~LossNoted(b), ~LostBetween(i, m.at, b.at)
                 PROVE  i \in aggregated \cup everKept
      BY DEF DropsAreExplained
    <2>1. CASE _dq_is_valid(Topic[i], m.at) = "T"
      BY <2>1 DEF aggregated, prepare_for_aggregate, valid_rows
    <2>2. CASE _dq_is_valid(Topic[i], b.at) = "F"
      BY <2>2 DEF GateInv, CommittedInv, Kept, invalid_rows
    <2>3. QED
      BY <2>1, <2>2, JudgedOneWay
  <1>2. QED
    BY <1>1, GateInvariant, PTL

-----------------------------------------------------------------------------
(* Retention.                                                              *)

(* Only a cleanup takes evidence away, and only evidence of ended days.    *)
LEMMA EvidenceLeavesExpired ==
  ASSUME [Next]_vars
  PROVE  quarantine \ quarantine' \subseteq ExpiredEvidence
  <1> USE DEF durable, offsets, ProcessEnds
  <1>1. CASE Tick \/ RowArrives \/ (\E q \in Queries : Begin(q)) \/ MainBatch \/ Plan \/ Commit
    BY <1>1 DEF Begin, Tick, RowArrives, MainBatch, Plan, Commit
  <1>2. CASE quarantine_invalid_batch \/ QuarantineWriteFails \/ QualityActionRaises
    BY <1>2 DEF quarantine_invalid_batch, QuarantineWriteFails, QualityActionRaises
  <1>3. CASE write_quality_event \/ EventInsertFails \/ EventFallbackRaises
    BY <1>3 DEF write_quality_event, EventInsertFails, EventFallbackRaises
  <1>4. CASE _maybe_cleanup_quality_artifacts \/ CleanupRaises
    BY <1>4, CleanupOnlyRemoves
  <1>5. CASE QualityExcept \/ QualityExceptRaises
    BY <1>5 DEF QualityExcept, QualityExceptRaises
  <1>6. CASE Shutdown \/ Crash \/ Restart \/ UNCHANGED vars
    BY <1>6 DEF Shutdown, Crash, Restart, vars
  <1>7. QED
    BY <1>1, <1>2, <1>3, <1>4, <1>5, <1>6 DEF Next, QualityStep

(* Retention of whole UTC days never removes evidence younger than         *)
(* SPARK_DQ_QUARANTINE_MAX_AGE_HOURS.                                      *)
THEOREM RetentionSafe == Spec => RetentionKeepsRecentEvidence
  <1>1. TypeInv /\ [Next]_vars => [\A e \in quarantine \ quarantine' : clock - e.at >= MaxAge]_vars
    <2> SUFFICES ASSUME TypeInv, [Next]_vars, NEW e \in quarantine \ quarantine'
                 PROVE  clock - e.at >= MaxAge
      OBVIOUS
    <2>1. DayEnd(e.at) <= clock - MaxAge
      BY EvidenceLeavesExpired DEF ExpiredEvidence
    <2>2. e.at \in Nat /\ clock \in Nat /\ MaxAge \in Nat
      BY ConstantsAssumption DEF TypeInv, TypeOK, Evidence
    <2>3. DayEnd(e.at) \in Nat /\ DayEnd(e.at) > e.at
      BY <2>2, DayEndsLater
    <2>4. QED
      BY <2>1, <2>2, <2>3
  <1>2. QED
    BY <1>1, TypeInvariant, PTL DEF Spec, RetentionKeepsRecentEvidence

(* A cleanup that is due and does not raise leaves no more fallback files  *)
(* than SPARK_DQ_FALLBACK_MAX_FILES.                                       *)
THEOREM FallbackBounded == Spec => CleanupBoundsFallback
  <1> DEFINE Bounds ==
        up' /\ faults' = faults /\ pc = "cleanup" /\ pc' # "cleanup" /\ cleanupDue /\ CleanupEnabled
          => Cardinality(files') <= MaxFiles
  <1>1. TypeInv /\ [Next]_vars => [Bounds]_vars
    <2> SUFFICES ASSUME TypeInv, [Next]_vars, up', faults' = faults, pc = "cleanup", pc' # "cleanup",
                        cleanupDue, CleanupEnabled
                 PROVE  Cardinality(files') <= MaxFiles
      OBVIOUS
    <2>1. faults \in Nat /\ IsFiniteSet(files)
      BY DEF TypeInv, TypeOK, InOrder
    <2>2. _maybe_cleanup_quality_artifacts
      <3>1. ~(Tick \/ RowArrives \/ (\E q \in Queries : Begin(q)) \/ MainBatch \/ UNCHANGED vars)
        BY DEF Begin, Tick, RowArrives, MainBatch, vars
      <3>2. ~(Plan \/ Commit \/ quarantine_invalid_batch \/ QuarantineWriteFails \/ QualityActionRaises)
        BY DEF Plan, Commit, quarantine_invalid_batch, QuarantineWriteFails, QualityActionRaises, At
      <3>3. ~(write_quality_event \/ EventInsertFails \/ EventFallbackRaises)
        BY DEF write_quality_event, EventInsertFails, EventFallbackRaises, At
      <3>4. ~(QualityExcept \/ QualityExceptRaises \/ Shutdown)
        BY DEF QualityExcept, QualityExceptRaises, Shutdown, At
      <3>5. ~Crash /\ ~Restart
        <4>1. ~Crash
          BY Zenon DEF Crash, ProcessEnds
        <4>2. ~Restart
          BY DEF Restart
        <4>3. QED
          BY <4>1, <4>2
      <3>6. ~CleanupRaises
        <4>1. faults' # faults + 1
          BY <2>1
        <4>2. QED
          BY <4>1, Zenon DEF CleanupRaises, Fault
      <3>7. QED
        BY <3>1, <3>2, <3>3, <3>4, <3>5, <3>6 DEF Next, QualityStep
    <2>3. cleanup_quality_artifacts
      BY <2>2 DEF _maybe_cleanup_quality_artifacts
    <2>4. QED
      BY <2>1, <2>3, CleanupLeaves
  <1>2. QED
    BY <1>1, TypeInvariant, PTL DEF Spec, CleanupBoundsFallback
=============================================================================
