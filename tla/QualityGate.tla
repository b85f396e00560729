---------------------------- MODULE QualityGate -----------------------------
(***************************************************************************)
(* The data-quality gate of a hot-path topic (spark_jobs/quality_gate.py   *)
(* and the gate methods of spark_jobs/silver/base.py).  Two streaming      *)
(* queries read the topic independently: the main one aggregates the rows  *)
(* the gate lets through, the quality one quarantines the rows the gate    *)
(* rejects and reports every batch.  The gate compares event times with    *)
(* the time of the micro-batch, so the two queries may judge one row       *)
(* differently.  Spark keeps the offsets and the time of a planned batch   *)
(* in its offset log: a replay sees the same rows at the same time.  Each  *)
(* query of a new checkpoint starts at the end of the topic, wherever that *)
(* is when it begins (startingOffsets=latest).                             *)
(***************************************************************************)
EXTENDS Integers, FiniteSets

CONSTANTS
  Topic,         \* Topic[i]: what the gate looks at in the i-th row
  NumRows,       \* bound: rows of the topic
  Modes,         \* values of SPARK_DQ_GATE_MODE
  Late, Future,  \* SPARK_DQ_MAX_EVENT_LAG_MS, SPARK_DQ_MAX_FUTURE_EVENT_MS
  MaxInvalid,    \* SPARK_DQ_STRICT_MAX_INVALID_RATIO, in percent
  DayLength,     \* clock ticks of a UTC day
  MaxAge,        \* SPARK_DQ_QUARANTINE_MAX_AGE_HOURS, in clock ticks
  MaxFiles,      \* SPARK_DQ_FALLBACK_MAX_FILES
  CleanupEnabled,  \* SPARK_DQ_CLEANUP_ENABLED
  BootTime,      \* clock when the topic and the checkpoints are created
  MaxMissed,     \* bound: rows that may arrive before both queries have begun
  MaxClock,      \* bound: time
  MaxFaults      \* bound: failing writes and Spark actions, and crashes

Rows == 1..NumRows
NoTime == -1
Queries == {"main", "quality"}
NotBegun == -1

(* A row as the gate sees it: whether its JSON parsed, whether a critical  *)
(* column is NULL, the signs of its non-negative columns, its bid and ask, *)
(* and its event time.                                                     *)
RowShape == [parsed : BOOLEAN, critical : BOOLEAN, signs : SUBSET {"ok", "negative", "null"},
             book : {"none", "ordered", "inverted", "null"}, time : Int]

ASSUME ConstantsAssumption ==
  /\ NumRows \in Nat /\ Topic \in [Rows -> RowShape]
  /\ Modes \subseteq {"shadow", "observe", "strict"}
  /\ Late \in Nat /\ Future \in Nat /\ MaxInvalid \in Nat
  /\ DayLength \in Nat \ {0} /\ MaxAge \in Nat /\ MaxFiles \in Nat \ {0}
  /\ CleanupEnabled \in BOOLEAN
  /\ BootTime \in Nat /\ MaxMissed \in Nat /\ MaxClock \in Nat /\ MaxFaults \in Nat

VARIABLES
  clock,        \* wall clock
  produced,     \* rows in the topic so far
  mode,         \* gate_mode()
  \* checkpoints
  first,        \* rows that were in the topic when each query began
  mainDone,     \* offset of the main query
  mainLog,      \* batches it has committed
  planned,      \* batch the quality query has planned
  log,          \* batches it has committed
  \* durable results
  quarantine,   \* quarantined rows, with the time of the write
  table,        \* batches with an event in stream.pipeline_quality_events
  files,        \* fallback files
  everKept,     \* history: rows ever quarantined
  noted,        \* history: <<batch, kind>> of the fallback files ever written
  \* the driver process
  up, pc,
  raised,       \* an exception is on its way out of write_quality_event
  cleanupDue,   \* the cleanup interval has passed
  faults

offsets == <<first, mainDone, mainLog>>
durable == <<quarantine, table, files, everKept, noted>>
vars == <<clock, produced, mode, offsets, planned, log, durable, up, pc, raised,
          cleanupDue, faults>>

Batches == [lo : Nat, hi : Nat, at : Nat]
NoBatch == [lo |-> 0, hi |-> 0, at |-> 0]
FileKinds == {"event", "quarantine_failed", "quality_event_error"}
Files == [batch : Batches, kind : FileKinds, at : Nat]
Evidence == [row : Rows, at : Nat]

RowsOf(b) == b.lo..b.hi

(* Rows whose batch the main query, and the quality query, has committed.  *)
Gated == UNION {RowsOf(b) : b \in mainLog}
Checked == UNION {RowsOf(b) : b \in log}

(* Offset of the quality query: what is left of the topic comes after it.  *)
QualityOffset == first["quality"] + Cardinality(Checked)

-----------------------------------------------------------------------------
(* apply_quality_gate.  Spark's conditions are three-valued: "T", "F" and, *)
(* for a comparison with NULL, "N".                                        *)

NegativeValue(r) ==
  IF "negative" \in r.signs THEN "T" ELSE IF "null" \in r.signs THEN "N" ELSE "F"

BidAskInverted(r) ==
  IF r.book = "inverted" THEN "T" ELSE IF r.book = "null" THEN "N" ELSE "F"

EventTimeLag(r, now) ==
  IF r.time # NoTime /\ (now - r.time > Late \/ now - r.time < -Future) THEN "T" ELSE "F"

Conditions(r, now) ==
  <<IF r.parsed THEN "F" ELSE "T", IF r.critical THEN "T" ELSE "F",
    NegativeValue(r), BidAskInverted(r), EventTimeLag(r, now)>>

(* The conjunction of the negated conditions.                              *)
_dq_is_valid(r, now) ==
  LET c == Conditions(r, now)
  IN  IF \E i \in 1..5 : c[i] = "T" THEN "F"
      ELSE IF \E i \in 1..5 : c[i] = "N" THEN "N" ELSE "T"

(* Mutant: the malformed rows are nobody's.                                *)
InvalidRowsThatParse(b) ==
  {i \in RowsOf(b) : Topic[i].parsed /\ _dq_is_valid(Topic[i], b.at) = "F"}

valid_rows(b) == {i \in RowsOf(b) : _dq_is_valid(Topic[i], b.at) = "T"}
invalid_rows(b) == {i \in RowsOf(b) : _dq_is_valid(Topic[i], b.at) = "F"}

prepare_for_aggregate(b) == IF mode = "observe" THEN RowsOf(b) ELSE valid_rows(b)

(* Rows fed into the Silver aggregate.                                     *)
aggregated == UNION {prepare_for_aggregate(b) : b \in mainLog}

(* The counters of build_quality_event.                                    *)
input_rows(b) == Cardinality(RowsOf(b))
dropped_rows(b) == Cardinality(invalid_rows(b))
parse_error_count(b) == Cardinality({i \in RowsOf(b) : ~Topic[i].parsed})

(* Mutant: rows that did not parse are left out of the ratio.              *)
RatioOfParsedRows(b) == (dropped_rows(b) - parse_error_count(b)) * 100 > MaxInvalid * input_rows(b)

InvalidRatioExceeded(b) == dropped_rows(b) * 100 > MaxInvalid * input_rows(b)

-----------------------------------------------------------------------------
Init ==
  /\ clock = BootTime /\ produced = 0 /\ mode \in Modes
  /\ first = [q \in Queries |-> NotBegun]
  /\ mainDone = 0 /\ mainLog = {} /\ planned = NoBatch /\ log = {}
  /\ quarantine = {} /\ table = {} /\ files = {}
  /\ everKept = {} /\ noted = {}
  /\ up = TRUE /\ pc = "idle"
  /\ raised = FALSE /\ cleanupDue = TRUE
  /\ faults = 0

Fault == faults < MaxFaults /\ faults' = faults + 1

(* Time passes; a tick is the cleanup interval.                            *)
Tick ==
  /\ clock < MaxClock
  /\ clock' = clock + 1
  /\ cleanupDue' = TRUE
  /\ UNCHANGED <<produced, mode, offsets, planned, log, durable, up, pc, raised, faults>>

RowArrives ==
  /\ produced < NumRows
  /\ produced < MaxMissed \/ \A q \in Queries : first[q] # NotBegun
  /\ produced' = produced + 1
  /\ UNCHANGED <<clock, mode, offsets, planned, log, durable, up, pc, raised, cleanupDue, faults>>

(* A query of a new checkpoint begins at the end of the topic, and keeps   *)
(* that offset: each of the two resolves it for itself.                    *)
Begin(q) ==
  /\ up /\ first[q] = NotBegun
  /\ first' = [first EXCEPT ![q] = produced]
  /\ mainDone' = IF q = "main" THEN produced ELSE mainDone
  /\ UNCHANGED <<clock, produced, mode, mainLog, planned, log, durable, up, pc, raised, cleanupDue,
                 faults>>

(* The main query plans the rows that have arrived, aggregates those that  *)
(* the gate lets through at this time, writes and commits (SilverWriter    *)
(* has the steps of the write and its replays).                            *)
MainBatch ==
  /\ up /\ first["main"] # NotBegun /\ mainDone < produced
  /\ mainLog' = mainLog \cup {[lo |-> mainDone + 1, hi |-> produced, at |-> clock]}
  /\ mainDone' = produced
  /\ UNCHANGED <<clock, produced, mode, first, planned, log, durable, up, pc, raised, cleanupDue,
                 faults>>

(* Mutant: a batch planned by an earlier process is not taken up again.    *)
PlanNewOnly ==
  /\ up /\ pc = "idle" /\ planned = NoBatch
  /\ first["quality"] # NotBegun /\ QualityOffset < produced
  /\ planned' = [lo |-> QualityOffset + 1, hi |-> produced, at |-> clock]
  /\ pc' = IF mode = "observe" THEN "event" ELSE "quarantine"
  /\ UNCHANGED <<clock, produced, mode, offsets, log, durable, up, raised, cleanupDue, faults>>

(* Spark plans the rows that have arrived since the last batch of the      *)
(* quality query, or takes up the batch that was planned and not           *)
(* committed, and calls process_quality_batch.                             *)
Plan ==
  /\ up /\ pc = "idle"
  /\ IF planned # NoBatch THEN UNCHANGED planned
     ELSE /\ first["quality"] # NotBegun /\ QualityOffset < produced
          /\ planned' = [lo |-> QualityOffset + 1, hi |-> produced, at |-> clock]
  /\ pc' = IF mode = "observe" THEN "event" ELSE "quarantine"
  /\ UNCHANGED <<clock, produced, mode, offsets, log, durable, up, raised, cleanupDue, faults>>

Commit ==
  /\ up /\ pc = "return"
  /\ log' = log \cup {planned}
  /\ planned' = NoBatch
  /\ pc' = "idle"
  /\ UNCHANGED <<clock, produced, mode, offsets, durable, up, raised, cleanupDue, faults>>

-----------------------------------------------------------------------------
(* process_quality_batch.                                                  *)

At(l) == up /\ pc = l

fallback_quality_event(kind) ==
  /\ files' = files \cup {[batch |-> planned, kind |-> kind, at |-> clock]}
  /\ noted' = noted \cup {<<planned, kind>>}

(* quarantine_invalid_batch writes the invalid rows, if there are any.     *)
quarantine_invalid_batch ==
  /\ At("quarantine")
  /\ quarantine' = quarantine \cup {[row |-> i, at |-> clock] : i \in invalid_rows(planned)}
  /\ everKept' = everKept \cup invalid_rows(planned)
  /\ pc' = "event"
  /\ UNCHANGED <<clock, produced, mode, offsets, planned, log, table, files, noted, up,
                 raised, cleanupDue, faults>>

(* Mutant: a failed write of the quarantine is only printed.               *)
QuarantineFailureForgotten ==
  /\ At("quarantine") /\ invalid_rows(planned) # {} /\ Fault
  /\ pc' = "event"
  /\ UNCHANGED <<clock, produced, mode, offsets, planned, log, durable, up, raised, cleanupDue>>

(* The write fails: a fallback file says so, and the handler goes on.      *)
QuarantineWriteFails ==
  /\ At("quarantine") /\ invalid_rows(planned) # {} /\ Fault
  /\ fallback_quality_event("quarantine_failed")
  /\ pc' = "event"
  /\ UNCHANGED <<clock, produced, mode, offsets, planned, log, quarantine, table, everKept, up,
                 raised, cleanupDue>>

(* A Spark action or the fallback write itself raises.                     *)
QualityActionRaises ==
  /\ up /\ pc \in {"quarantine", "event"} /\ Fault
  /\ pc' = "except"
  /\ UNCHANGED <<clock, produced, mode, offsets, planned, log, durable, up, raised, cleanupDue>>

(* write_quality_event: the insert succeeds, ...                           *)
write_quality_event ==
  /\ At("event")
  /\ table' = table \cup {planned}
  /\ raised' = FALSE
  /\ pc' = "cleanup"
  /\ UNCHANGED <<clock, produced, mode, offsets, planned, log, quarantine, files, everKept, noted,
                 up, cleanupDue, faults>>

(* ... or fails, as often as it likes, and the event goes to a fallback    *)
(* file, ...                                                               *)
EventInsertFails ==
  /\ At("event")
  /\ fallback_quality_event("event")
  /\ raised' = FALSE
  /\ pc' = "cleanup"
  /\ UNCHANGED <<clock, produced, mode, offsets, planned, log, quarantine, table, everKept, up,
                 cleanupDue, faults>>

(* ... or that fails as well.                                              *)
EventFallbackRaises ==
  /\ At("event") /\ Fault
  /\ raised' = TRUE
  /\ pc' = "cleanup"
  /\ UNCHANGED <<clock, produced, mode, offsets, planned, log, durable, up, cleanupDue>>

(* Evidence of a UTC day is removed when the whole day is past the cutoff. *)
DayEnd(t) == (t \div DayLength + 1) * DayLength

(* Mutant: the day counts as past when it has begun before the cutoff.     *)
ExpiredFromDayStart == {e \in quarantine : (e.at \div DayLength) * DayLength <= clock - MaxAge}

ExpiredEvidence == {e \in quarantine : DayEnd(e.at) <= clock - MaxAge}

ExpiredFiles == {f \in files : f.at < clock - MaxAge}

(* The oldest files of S, all but MaxFiles.  Among files of one time the   *)
(* names decide.                                                           *)
OldestExcess(S) ==
  {X \in SUBSET S :
     /\ Cardinality(X) = IF Cardinality(S) > MaxFiles THEN Cardinality(S) - MaxFiles ELSE 0
     /\ \A f \in X, g \in S \ X : f.at <= g.at}

(* Mutant: the number of files is looked at only when none has expired.    *)
CleanupByAgeOrCount ==
  \E excess \in OldestExcess(files) :
    LET gone == IF ExpiredFiles # {} THEN ExpiredFiles ELSE excess
    IN  /\ quarantine' = quarantine \ ExpiredEvidence
        /\ files' = files \ gone

cleanup_quality_artifacts ==
  \E excess \in OldestExcess(files \ ExpiredFiles) :
    /\ quarantine' = quarantine \ ExpiredEvidence
    /\ files' = files \ (ExpiredFiles \cup excess)

(* After the event, strict mode looks at the share of invalid rows.        *)
AfterEvent ==
  IF raised \/ (mode = "strict" /\ InvalidRatioExceeded(planned)) THEN "except" ELSE "return"

(* The finally clause of write_quality_event.                              *)
_maybe_cleanup_quality_artifacts ==
  /\ At("cleanup")
  /\ IF cleanupDue /\ CleanupEnabled THEN cleanup_quality_artifacts
     ELSE UNCHANGED <<quarantine, files>>
  /\ cleanupDue' = FALSE
  /\ pc' = AfterEvent
  /\ UNCHANGED <<clock, produced, mode, offsets, planned, log, table, everKept, noted, up, raised,
                 faults>>

(* The cleanup itself raises part way: some of what it meant to remove is  *)
(* gone, the exception is printed, and the handler goes on.                *)
CleanupRaises ==
  /\ At("cleanup") /\ cleanupDue /\ CleanupEnabled /\ Fault
  /\ \E excess \in OldestExcess(files \ ExpiredFiles) :
       \/ \E gone \in SUBSET ExpiredEvidence :
            quarantine' = quarantine \ gone /\ UNCHANGED files
       \/ \E gone \in SUBSET (ExpiredFiles \cup excess) :
            quarantine' = quarantine \ ExpiredEvidence /\ files' = files \ gone
  /\ cleanupDue' = FALSE
  /\ pc' = AfterEvent
  /\ UNCHANGED <<clock, produced, mode, offsets, planned, log, table, everKept, noted, up, raised>>

(* Mutant: other modes drop the exception without a trace.                 *)
QualityExceptSilent ==
  /\ At("except")
  /\ pc' = IF mode = "strict" THEN "failed" ELSE "return"
  /\ UNCHANGED <<clock, produced, mode, offsets, planned, log, durable, up, raised, cleanupDue, faults>>

(* The except clause: strict mode re-raises, the others leave a note.      *)
QualityExcept ==
  /\ At("except")
  /\ IF mode = "strict" THEN pc' = "failed" /\ UNCHANGED <<files, noted>>
     ELSE pc' = "return" /\ fallback_quality_event("quality_event_error")
  /\ UNCHANGED <<clock, produced, mode, offsets, planned, log, quarantine, table, everKept, up,
                 raised, cleanupDue, faults>>

(* The note cannot be written either, and that exception leaves.           *)
QualityExceptRaises ==
  /\ At("except") /\ mode # "strict" /\ Fault
  /\ pc' = "failed"
  /\ UNCHANGED <<clock, produced, mode, offsets, planned, log, durable, up, raised, cleanupDue>>

-----------------------------------------------------------------------------
(* A failed query or a crash ends the process; planned batches stay in the *)
(* offset log.                                                             *)
ProcessEnds ==
  /\ up' = FALSE
  /\ pc' = "idle"
  /\ raised' = FALSE /\ cleanupDue' = TRUE
  /\ UNCHANGED <<clock, produced, mode, offsets, planned, log, durable>>

Shutdown == up /\ pc = "failed" /\ ProcessEnds /\ UNCHANGED faults

Crash == up /\ Fault /\ ProcessEnds

Restart ==
  /\ ~up /\ up' = TRUE
  /\ UNCHANGED <<clock, produced, mode, offsets, planned, log, durable, pc, raised, cleanupDue, faults>>

-----------------------------------------------------------------------------
QualityStep ==
  \/ quarantine_invalid_batch \/ QuarantineWriteFails \/ QualityActionRaises
  \/ write_quality_event \/ EventInsertFails \/ EventFallbackRaises
  \/ _maybe_cleanup_quality_artifacts \/ CleanupRaises
  \/ QualityExcept \/ QualityExceptRaises

Next ==
  \/ Tick \/ RowArrives
  \/ (\E q \in Queries : Begin(q)) \/ MainBatch \/ Plan \/ QualityStep \/ Commit
  \/ Shutdown \/ Crash \/ Restart

Spec == Init /\ [][Next]_vars

(* The driver keeps scheduling both queries, and whoever operates the      *)
(* application starts it again after it has ended.                         *)
Fairness ==
  /\ \A q \in Queries : WF_vars(Begin(q))
  /\ WF_vars(MainBatch) /\ WF_vars(Plan) /\ WF_vars(QualityStep) /\ WF_vars(Commit)
  /\ WF_vars(Shutdown) /\ WF_vars(Restart)

FairSpec == Spec /\ Fairness

-----------------------------------------------------------------------------
(* Properties.                                                             *)

(* Every variable keeps its type.                                          *)
TypeOK ==
  /\ clock \in Nat /\ produced \in 0..NumRows
  /\ mode \in {"shadow", "observe", "strict"}
  /\ first \in [Queries -> {NotBegun} \cup 0..NumRows]
  /\ mainDone \in 0..NumRows /\ mainLog \subseteq Batches
  /\ planned \in Batches /\ log \subseteq Batches
  /\ quarantine \subseteq Evidence
  /\ table \subseteq Batches /\ files \subseteq Files
  /\ everKept \subseteq Rows /\ noted \subseteq Batches \X FileKinds
  /\ up \in BOOLEAN /\ raised \in BOOLEAN /\ cleanupDue \in BOOLEAN
  /\ pc \in {"idle", "quarantine", "event", "cleanup", "except", "return", "failed"}
  /\ faults \in Nat

(* A note in the fallback directory that rows of b may be missing.         *)
LossNoted(b) == <<b, "quarantine_failed">> \in noted \/ <<b, "quality_event_error">> \in noted

(* In shadow and strict mode, a committed batch of the quality query has   *)
(* all its rejected rows in the quarantine, or a note says that they may   *)
(* be missing, whichever write or Spark action failed.                     *)
NoRejectionIsSilent ==
  mode # "observe" => \A b \in log : invalid_rows(b) \subseteq everKept \/ LossNoted(b)

(* Every committed batch of the quality query was reported, to the table   *)
(* or to a fallback file.                                                  *)
EveryBatchReported ==
  \A b \in log :
    b \in table \/ <<b, "event">> \in noted \/ <<b, "quality_event_error">> \in noted

(* Strict mode never commits a batch with too large a share of rejected    *)
(* rows, even when it is replayed after the failure it caused.             *)
StrictModeLimitsInvalid ==
  mode = "strict" => \A b \in log : dropped_rows(b) * 100 <= MaxInvalid * input_rows(b)

(* Retention never removes evidence younger than its maximal age, although *)
(* it removes whole UTC days.                                              *)
RetentionKeepsRecentEvidence ==
  [][\A e \in quarantine \ quarantine' : clock - e.at >= MaxAge]_vars

(* A cleanup that does not raise leaves at most                            *)
(* SPARK_DQ_FALLBACK_MAX_FILES fallback files.                             *)
CleanupBoundsFallback ==
  [][up' /\ faults' = faults /\ pc = "cleanup" /\ pc' # "cleanup" /\ cleanupDue /\ CleanupEnabled
       => Cardinality(files') <= MaxFiles]_vars

(* Outside strict mode every row that arrives after a query has begun is   *)
(* gated by that query in the end: no invalid row, failing table or crash  *)
(* wedges it.                                                              *)
EveryRowIsGated ==
  \A i \in Rows :
    (mode # "strict" /\ i <= produced) ~>
      /\ first["main"] # NotBegun /\ (i > first["main"] => i \in Gated)
      /\ first["quality"] # NotBegun /\ (i > first["quality"] => i \in Checked)

(* The verdicts under which the gate loses row i of shadow mode, judged at *)
(* `main` by the main query and at `quality` by the other: a NULL verdict, *)
(* or an event time that is out of bounds for the first and within them    *)
(* for the second.                                                         *)
LostBetween(i, main, quality) ==
  \/ "N" \in {_dq_is_valid(Topic[i], main), _dq_is_valid(Topic[i], quality)}
  \/ EventTimeLag(Topic[i], main) = "T" /\ EventTimeLag(Topic[i], quality) = "F"

(* In shadow mode a row of two committed batches, one of each query, is in *)
(* the aggregate, in the quarantine or under a note, unless the two judged *)
(* its event time differently or a NULL made it nobody's.                  *)
DropsAreExplained ==
  mode = "shadow" =>
    \A m \in mainLog, b \in log : \A i \in RowsOf(m) \cap RowsOf(b) :
      i \in aggregated \cup everKept \/ LossNoted(b) \/ LostBetween(i, m.at, b.at)

(* "Invalid rows are quarantined in shadow mode": a row that both queries  *)
(* are done with was fed into the aggregate or is in the quarantine.       *)
DroppedRowsAreQuarantined ==
  mode = "shadow" =>
    \A i \in Gated \cap Checked :
      i \in aggregated \cup everKept \/ \E b \in log : i \in RowsOf(b) /\ LossNoted(b)
=============================================================================
