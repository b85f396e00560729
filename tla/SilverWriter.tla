---------------------------- MODULE SilverWriter ----------------------------
(***************************************************************************)
(* The write path of the Silver streaming application: every Structured    *)
(* Streaming query plans a micro-batch, hands it to its foreachBatch       *)
(* handler, and commits the batch when the handler returns.                *)
(*                                                                         *)
(*   - a query of Queries \ DirectQueries uses write_to_clickhouse         *)
(*     (spark_jobs/ch_writer.py): a failed insert is dead-lettered to two  *)
(*     local files and, by default, swallowed so that the batch commits;   *)
(*   - a query of DirectQueries (silver/oi.py, silver/price.py) inserts by *)
(*     itself and re-raises every failure.                                 *)
(*                                                                         *)
(* An exception that leaves a handler ends its query; silver_aggregator.py *)
(* then stops all the queries and the process exits.  After a restart a    *)
(* query runs again the batch after the last committed one, with the same  *)
(* rows (the offset log fixes them).  Spark and ClickHouse themselves are  *)
(* external: they are modelled from how the handlers use them.             *)
(***************************************************************************)
EXTENDS Integers, FiniteSets

CONSTANTS
  Queries,              \* the streaming queries of the application
  DirectQueries,        \* those that insert without write_to_clickhouse
  MaxBatch,             \* bound: number of micro-batches per query
  EmptyBatches,         \* <<q, b>> whose output has no rows
  Refusals,             \* what ClickHouse may always refuse: sets of <<q, b>>
  Exceptions,           \* exceptions a step may meet: sets of text markers
  PoisonException,      \* the exception of a refused batch
  FailFastEnabled,      \* CH_WRITER_FAIL_FAST
  FailFastConsecutive,  \* CH_WRITER_FAIL_FAST_CONSECUTIVE
  FailFastTypes,        \* CH_WRITER_FAIL_FAST_ERROR_TYPES
  RaiseModes,           \* values CH_WRITER_RAISE_AFTER_DLQ may have
  AuditStdout,          \* SPARK_WRITE_AUDIT_STDOUT
  CleanupEnabled,       \* DLQ_CLEANUP_ENABLED
  MaxFiles,             \* DLQ_MAX_FILES
  UnlinkMayFail,        \* whether removing a file may raise OSError
  MaxFaults,            \* bound: exceptions and failed file writes
  MaxCrashes            \* bound: process crashes

(* What _classify_ch_error looks for in the text of an exception.          *)
Markers == {"checkpoint", "spark", "connection", "timeout", "schema", "duplicate", "memory"}

ErrorTypes == {"spark_checkpoint_error", "spark_action_error", "ch_connection_error",
               "ch_timeout", "ch_schema_error", "ch_constraint_error",
               "ch_memory_error", "ch_unknown_error"}

ASSUME ConstantsAssumption ==
  /\ DirectQueries \subseteq Queries
  /\ MaxBatch \in Nat
  /\ Exceptions \subseteq SUBSET Markers
  /\ PoisonException \in SUBSET Markers
  /\ FailFastEnabled \in BOOLEAN /\ RaiseModes \subseteq BOOLEAN
  /\ AuditStdout \in BOOLEAN
  /\ CleanupEnabled \in BOOLEAN /\ UnlinkMayFail \in BOOLEAN
  /\ FailFastConsecutive \in Nat \ {0}
  /\ MaxFiles \in Nat \ {0}
  /\ MaxFaults \in Nat /\ MaxCrashes \in Nat

VARIABLES
  raiseAfterDlq,  \* RAISE_AFTER_DLQ, from the environment of the deployment
  refused,        \* the <<q, b>> ClickHouse always refuses (PoisonException)
  \* durable: checkpoint volume, ClickHouse, DLQ directory, audit events
  committed,   \* committed[q]: batches in the commit log of q's checkpoint
  stored,      \* stored[q]: batches whose rows are in q's table
  newest,      \* newest[q]: the batch applied last (its rows win a merge)
  inflight,    \* inflight[q]: inserts the client gave up on, still running
  dlq,         \* dead-letter files in DLQ_DIR
  purged,      \* history: dead-letter files removed by retention
  clock,       \* modification times of dead-letter files
  audit,       \* audit[q][b]: status of the last audit event built for batch b
  \* the driver process
  up,          \* the process runs
  pc,          \* pc[q]: where the handler of q is
  pdf,         \* pdf[q]: toPandas() has returned (pdf is not None)
  error,       \* error[q]: classified type of the exception being handled
  failures,    \* failures[q]: _failure_counts
  persisted,   \* persisted[q]: the local dlq_persisted
  file,        \* file[q]: modification time of the metadata file written
  cleanupDue,  \* a cleanup interval has passed since _last_cleanup_at
  \* bounds and history
  faults, crashes,
  streak       \* streak[q]: commits in a row, in this process, of batches
               \* that had rows and whose write failed

given   == <<raiseAfterDlq, refused>>
durable == <<committed, stored, newest, inflight, dlq, purged, clock, audit>>
local   == <<pdf, error, persisted, file>>
bounds  == <<faults, crashes>>
vars    == <<given, durable, up, pc, local, failures, cleanupDue, bounds, streak>>

Common  == Queries \ DirectQueries
Batches == 1..MaxBatch
Current(q) == committed[q] + 1
Empty(q, b) == <<q, b>> \in EmptyBatches

Files == [q : Queries, b : Batches, at : Nat, counted : BOOLEAN, data : BOOLEAN]

Statuses == {"none", "started", "success", "failed", "skipped_empty"}

Locations == {"idle", "collect", "insert", "except", "dlq_metadata", "dlq_data",
              "cleanup", "decide", "return", "failed"}

-----------------------------------------------------------------------------
(* Exceptions.                                                             *)

(* Mutant: the last branches are missing, and the classifier returns None. *)
ClassifyFallsThrough(e) ==
  IF "spark" \in e THEN "spark_action_error"
  ELSE IF "connection" \in e THEN "ch_connection_error" ELSE "None"

_classify_ch_error(e) ==
  IF "checkpoint" \in e THEN "spark_checkpoint_error"
  ELSE IF "spark" \in e THEN "spark_action_error"
  ELSE IF "connection" \in e THEN "ch_connection_error"
  ELSE IF "timeout" \in e THEN "ch_timeout"
  ELSE IF "schema" \in e THEN "ch_schema_error"
  ELSE IF "duplicate" \in e THEN "ch_constraint_error"
  ELSE IF "memory" \in e THEN "ch_memory_error"
  ELSE "ch_unknown_error"

_is_spark_operational_error(t) == t \in {"spark_checkpoint_error", "spark_action_error"}

(* Mutant: the threshold is off by one.                                    *)
FailFastOneLate(t, n) ==
  FailFastEnabled /\ n > FailFastConsecutive /\ ("*" \in FailFastTypes \/ t \in FailFastTypes)

_should_fail_fast(t, n) ==
  /\ FailFastEnabled
  /\ n >= FailFastConsecutive
  /\ "*" \in FailFastTypes \/ t \in FailFastTypes

(* Mutant: strict mode re-raises only errors that look transient.          *)
RaiseTransientOnly(t) == raiseAfterDlq /\ t = "ch_connection_error"

_should_raise_after_dlq(t) == raiseAfterDlq /\ ~_is_spark_operational_error(t)

(* One more fault of the bounded number of faults.                         *)
Fault == faults < MaxFaults /\ faults' = faults + 1

Goto(q, l) == pc' = [pc EXCEPT ![q] = l]

(* log_write_audit_event for the current batch of q builds the event, and  *)
(* prints it only if SPARK_WRITE_AUDIT_STDOUT asks for it.                 *)
log_write_audit_event(q, status) == audit' = [audit EXCEPT ![q][Current(q)] = status]

AuditLog(q, b) == IF AuditStdout THEN audit[q][b] ELSE "none"

-----------------------------------------------------------------------------
Init ==
  /\ raiseAfterDlq \in RaiseModes
  /\ refused \in Refusals
  /\ committed = [q \in Queries |-> 0]
  /\ stored = [q \in Queries |-> {}]
  /\ newest = [q \in Queries |-> 0]
  /\ inflight = [q \in Queries |-> {}]
  /\ dlq = {} /\ purged = {} /\ clock = 0
  /\ audit = [q \in Queries |-> [b \in Batches |-> "none"]]
  /\ up = TRUE
  /\ pc = [q \in Queries |-> "idle"]
  /\ pdf = [q \in Queries |-> FALSE]
  /\ error = [q \in Queries |-> "none"]
  /\ failures = [q \in Queries |-> 0]
  /\ persisted = [q \in Queries |-> "unbound"]
  /\ file = [q \in Queries |-> 0]
  /\ cleanupDue = TRUE
  /\ faults = 0 /\ crashes = 0
  /\ streak = [q \in Queries |-> 0]

(* Spark plans the next micro-batch, or runs again the one that a previous *)
(* process planned and did not commit, and calls the handler.              *)
Plan(q) ==
  /\ up /\ pc[q] = "idle" /\ committed[q] < MaxBatch
  /\ pdf' = [pdf EXCEPT ![q] = FALSE]
  /\ error' = [error EXCEPT ![q] = "none"]
  /\ persisted' = [persisted EXCEPT ![q] = "unbound"]
  /\ file' = [file EXCEPT ![q] = 0]
  /\ Goto(q, "collect")
  /\ UNCHANGED <<durable, up, failures, cleanupDue, bounds, streak>>

(* toPandas() returned an empty frame: audited and skipped.  The failure   *)
(* count is left alone.                                                    *)
SkipEmpty(q) ==
  /\ up /\ pc[q] = "collect" /\ Empty(q, Current(q))
  /\ pdf' = [pdf EXCEPT ![q] = TRUE]
  /\ log_write_audit_event(q, "skipped_empty")
  /\ Goto(q, "return")
  /\ UNCHANGED <<committed, stored, newest, inflight, dlq, purged, clock, up,
                 error, persisted, file, failures, cleanupDue, bounds, streak>>

(* toPandas() returned rows; the insert is announced.                      *)
Collect(q) ==
  /\ up /\ pc[q] = "collect" /\ ~Empty(q, Current(q))
  /\ pdf' = [pdf EXCEPT ![q] = TRUE]
  /\ log_write_audit_event(q, "started")
  /\ Goto(q, "insert")
  /\ UNCHANGED <<committed, stored, newest, inflight, dlq, purged, clock, up,
                 error, persisted, file, failures, cleanupDue, bounds, streak>>

(* An exception before the insert: in toPandas() (got = FALSE, pdf stays   *)
(* None) or in the conversions after it (got = TRUE).  The direct handlers *)
(* do this work outside their try statement.                               *)
CollectRaises(q, e, got) ==
  /\ up /\ pc[q] = "collect" /\ Fault
  /\ got => ~Empty(q, Current(q))
  /\ pdf' = [pdf EXCEPT ![q] = got]
  /\ error' = [error EXCEPT ![q] = _classify_ch_error(e)]
  /\ Goto(q, IF q \in DirectQueries THEN "failed" ELSE "except")
  /\ UNCHANGED <<durable, up, persisted, file, failures, cleanupDue, crashes, streak>>

-----------------------------------------------------------------------------
(* insert_df.                                                              *)

(* ClickHouse applies an insert of batch b: of the rows of a key written   *)
(* by several batches the ones inserted last survive a merge.              *)
Apply(q, b) ==
  /\ stored' = [stored EXCEPT ![q] = @ \cup {b}]
  /\ newest' = [newest EXCEPT ![q] = b]

(* The insert is acknowledged; the failure count of the table is reset     *)
(* (the direct handlers keep none).                                        *)
InsertSucceeds(q) ==
  /\ up /\ pc[q] = "insert" /\ <<q, Current(q)>> \notin refused
  /\ Apply(q, Current(q))
  /\ log_write_audit_event(q, "success")
  /\ failures' = [failures EXCEPT ![q] = 0]
  /\ Goto(q, "return")
  /\ UNCHANGED <<committed, inflight, dlq, purged, clock, up, local, cleanupDue, bounds, streak>>

(* The insert raises without effect, after its effect, or while the server *)
(* still works on it.                                                      *)
InsertRaises(q, e, effect) ==
  /\ up /\ pc[q] = "insert"
  /\ IF <<q, Current(q)>> \in refused
     THEN e = PoisonException /\ effect = "none" /\ UNCHANGED faults
     ELSE e \in Exceptions /\ Fault
  /\ error' = [error EXCEPT ![q] = _classify_ch_error(e)]
  /\ IF effect = "applied" THEN Apply(q, Current(q)) ELSE UNCHANGED <<stored, newest>>
  /\ inflight' = IF effect = "running"
                 THEN [inflight EXCEPT ![q] = @ \cup {Current(q)}] ELSE inflight
  /\ Goto(q, "except")
  /\ UNCHANGED <<committed, dlq, purged, clock, audit, up, pdf, persisted, file,
                 failures, cleanupDue, crashes, streak>>

(* The server ends an insert whose client is gone: applied or given up.    *)
LateInsertEnds(q, b, applied) ==
  /\ b \in inflight[q]
  /\ inflight' = [inflight EXCEPT ![q] = @ \ {b}]
  /\ IF applied THEN Apply(q, b) ELSE UNCHANGED <<stored, newest>>
  /\ UNCHANGED <<committed, dlq, purged, clock, audit, up, pc, local, failures,
                 cleanupDue, bounds, streak>>

-----------------------------------------------------------------------------
(* The except clauses.                                                     *)

(* oi.py, price.py: audit and re-raise.                                    *)
DirectExcept(q) ==
  /\ up /\ pc[q] = "except" /\ q \in DirectQueries
  /\ log_write_audit_event(q, "failed")
  /\ Goto(q, "failed")
  /\ UNCHANGED <<committed, stored, newest, inflight, dlq, purged, clock, up, local,
                 failures, cleanupDue, bounds, streak>>

(* Mutant: the failure is not audited.                                     *)
CommonExceptUnaudited(q) ==
  /\ up /\ pc[q] = "except" /\ q \in Common
  /\ failures' = [failures EXCEPT ![q] = @ + 1]
  /\ Goto(q, IF _is_spark_operational_error(error[q]) THEN "failed" ELSE "dlq_metadata")
  /\ UNCHANGED <<durable, up, local, cleanupDue, bounds, streak>>

(* write_to_clickhouse: count the failure, audit it, re-raise an error of  *)
(* Spark itself and dead-letter every other one.                           *)
CommonExcept(q) ==
  /\ up /\ pc[q] = "except" /\ q \in Common
  /\ failures' = [failures EXCEPT ![q] = @ + 1]
  /\ log_write_audit_event(q, "failed")
  /\ Goto(q, IF _is_spark_operational_error(error[q]) THEN "failed" ELSE "dlq_metadata")
  /\ UNCHANGED <<committed, stored, newest, inflight, dlq, purged, clock, up, local,
                 cleanupDue, bounds, streak>>

(* The metadata file; row_count is 0 when toPandas() failed, and then no   *)
(* data file follows.                                                      *)
WriteDlqMetadata(q) ==
  /\ up /\ pc[q] = "dlq_metadata"
  /\ clock' = clock + 1
  /\ file' = [file EXCEPT ![q] = clock']
  /\ dlq' = dlq \cup {[q |-> q, b |-> Current(q), at |-> clock', counted |-> pdf[q], data |-> FALSE]}
  /\ persisted' = [persisted EXCEPT ![q] = IF pdf[q] THEN @ ELSE "true"]
  /\ Goto(q, IF pdf[q] THEN "dlq_data" ELSE "cleanup")
  /\ UNCHANGED <<committed, stored, newest, inflight, purged, audit, up, pdf, error,
                 failures, cleanupDue, bounds, streak>>

(* The data file next to it.  If another query's cleanup has removed the   *)
(* metadata file meanwhile, the data file is left without one.             *)
WithData(S, t) == {[f EXCEPT !.data = (f.at = t) \/ @] : f \in S}

(* Mutant: the rows go next to the newest metadata file.                   *)
WriteDlqDataToNewest(q) ==
  /\ up /\ pc[q] = "dlq_data"
  /\ dlq' = WithData(dlq, clock)
  /\ purged' = WithData(purged, clock)
  /\ persisted' = [persisted EXCEPT ![q] = "true"]
  /\ Goto(q, "cleanup")
  /\ UNCHANGED <<committed, stored, newest, inflight, clock, audit, up, pdf, error,
                 file, failures, cleanupDue, bounds, streak>>

WriteDlqData(q) ==
  /\ up /\ pc[q] = "dlq_data"
  /\ dlq' = WithData(dlq, file[q])
  /\ purged' = WithData(purged, file[q])
  /\ persisted' = [persisted EXCEPT ![q] = "true"]
  /\ Goto(q, "cleanup")
  /\ UNCHANGED <<committed, stored, newest, inflight, clock, audit, up, pdf, error,
                 file, failures, cleanupDue, bounds, streak>>

(* Either write fails: printed, and dlq_persisted has no value.            *)
DlqWriteRaises(q) ==
  /\ up /\ pc[q] \in {"dlq_metadata", "dlq_data"} /\ Fault
  /\ Goto(q, "decide")
  /\ UNCHANGED <<durable, up, local, failures, cleanupDue, crashes, streak>>

(* The files _cleanup_old_dlq_files tries to remove by age, when it runs   *)
(* for the file `own`, written just now: those before some cut-off.        *)
Aged(own, cutoff) == {f \in dlq : f.at < cutoff /\ f.at < own}

(* Those it tries to remove by count, only if none was deleted by age: the *)
(* oldest ones, until MaxFiles - 1 are left.                               *)
Excess(deleted) ==
  IF deleted # {} \/ Cardinality(dlq) < MaxFiles THEN {}
  ELSE {f \in dlq : Cardinality({g \in dlq : g.at > f.at}) >= MaxFiles - 1}

(* What an attempt to remove the files S may remove.                       *)
Unlinked(S) == IF UnlinkMayFail THEN SUBSET S ELSE {S}

(* A file is counted in `deleted` only if its data file could be removed   *)
(* too.                                                                    *)
_cleanup_old_dlq_files(own) ==
  IF ~CleanupEnabled THEN UNCHANGED <<dlq, purged>>
  ELSE \E cutoff \in 0..clock : \E byAge \in Unlinked(Aged(own, cutoff)) :
         \E deleted \in Unlinked(byAge) : \E byCount \in Unlinked(Excess(deleted)) :
           /\ dlq' = dlq \ (byAge \cup byCount)
           /\ purged' = purged \cup byAge \cup byCount

(* The cleanup after a dead letter, at most once per interval.             *)
Cleanup(q) ==
  /\ up /\ pc[q] = "cleanup"
  /\ IF cleanupDue THEN _cleanup_old_dlq_files(file[q]) ELSE UNCHANGED <<dlq, purged>>
  /\ cleanupDue' = FALSE
  /\ Goto(q, "decide")
  /\ UNCHANGED <<committed, stored, newest, inflight, clock, audit, up, local, failures,
                 bounds, streak>>

CleanupIntervalElapses ==
  /\ up /\ ~cleanupDue
  /\ cleanupDue' = TRUE
  /\ UNCHANGED <<durable, up, pc, local, failures, bounds, streak>>

(* Mutant: dlq_persisted has an initial value, which nobody looks at.      *)
RaisesIfAsked(q) ==
  _should_raise_after_dlq(error[q]) \/ _should_fail_fast(error[q], failures[q])

(* The end of the except clause.  Reading an unassigned dlq_persisted      *)
(* raises UnboundLocalError, which leaves the handler like a re-raise.     *)
Raises(q) ==
  \/ persisted[q] = "unbound"
  \/ _should_raise_after_dlq(error[q])
  \/ _should_fail_fast(error[q], failures[q])

Decide(q) ==
  /\ up /\ pc[q] = "decide"
  /\ Goto(q, IF Raises(q) THEN "failed" ELSE "return")
  /\ UNCHANGED <<durable, up, local, failures, cleanupDue, bounds, streak>>

-----------------------------------------------------------------------------
(* The handler has returned: Spark writes the commit log.                  *)
Commit(q) ==
  /\ up /\ pc[q] = "return"
  /\ committed' = [committed EXCEPT ![q] = @ + 1]
  /\ streak' = [streak EXCEPT ![q] = IF error[q] # "none" THEN @ + 1
                                     ELSE IF Empty(q, Current(q)) THEN @ ELSE 0]
  /\ Goto(q, "idle")
  /\ UNCHANGED <<stored, newest, inflight, dlq, purged, clock, audit, up, local, failures,
                 cleanupDue, bounds>>

(* Everything in the driver process is gone; the server may go on with the *)
(* inserts that were under way.                                            *)
ProcessEnds ==
  /\ \E S \in SUBSET {q \in Queries : pc[q] = "insert" /\ <<q, Current(q)>> \notin refused} :
       inflight' = [q \in Queries |-> IF q \in S THEN inflight[q] \cup {Current(q)} ELSE inflight[q]]
  /\ up' = FALSE
  /\ pc' = [q \in Queries |-> "idle"]
  /\ pdf' = [q \in Queries |-> FALSE]
  /\ error' = [q \in Queries |-> "none"]
  /\ persisted' = [q \in Queries |-> "unbound"]
  /\ file' = [q \in Queries |-> 0]
  /\ failures' = [q \in Queries |-> 0]
  /\ streak' = [q \in Queries |-> 0]
  /\ cleanupDue' = TRUE
  /\ UNCHANGED <<committed, stored, newest, dlq, purged, clock, audit>>

(* Mutant: the driver waits for all its queries to end.                    *)
ShutdownWhenAllFailed ==
  /\ up /\ \A q \in Queries : pc[q] = "failed"
  /\ ProcessEnds
  /\ UNCHANGED bounds

(* awaitAnyTermination: one failed query takes all the others down.        *)
Shutdown ==
  /\ up /\ \E q \in Queries : pc[q] = "failed"
  /\ ProcessEnds
  /\ UNCHANGED bounds

(* A crash, SIGTERM or SIGINT at any point.                                *)
Crash ==
  /\ up /\ crashes < MaxCrashes
  /\ ProcessEnds
  /\ crashes' = crashes + 1
  /\ UNCHANGED faults

(* Mutant: the checkpoint volume is lost with the process.                 *)
RestartFromScratch ==
  /\ ~up
  /\ up' = TRUE
  /\ committed' = [q \in Queries |-> 0]
  /\ UNCHANGED <<stored, newest, inflight, dlq, purged, clock, audit, pc, local, failures,
                 cleanupDue, bounds, streak>>

Restart ==
  /\ ~up
  /\ up' = TRUE
  /\ UNCHANGED <<durable, pc, local, failures, cleanupDue, bounds, streak>>

-----------------------------------------------------------------------------
Handler(q) ==
  \/ SkipEmpty(q) \/ Collect(q) \/ InsertSucceeds(q)
  \/ \E e \in Exceptions, got \in BOOLEAN : CollectRaises(q, e, got)
  \/ \E e \in Exceptions \cup {PoisonException}, effect \in {"none", "applied", "running"} :
       InsertRaises(q, e, effect)
  \/ DirectExcept(q) \/ CommonExcept(q)
  \/ WriteDlqMetadata(q) \/ WriteDlqData(q) \/ DlqWriteRaises(q)
  \/ Cleanup(q) \/ Decide(q)

Act ==
  \/ \E q \in Queries :
       \/ Plan(q) \/ Handler(q) \/ Commit(q)
       \/ \E b \in Batches, applied \in BOOLEAN : LateInsertEnds(q, b, applied)
  \/ CleanupIntervalElapses \/ Shutdown \/ Crash \/ Restart

Next == Act /\ UNCHANGED given

Spec == Init /\ [][Next]_vars

(* A running driver keeps scheduling its queries, a failed query is        *)
(* noticed by awaitAnyTermination, and whoever operates the application    *)
(* submits it again after it has ended.                                    *)
Fairness ==
  /\ \A q \in Queries : /\ WF_vars(Plan(q) /\ UNCHANGED given)
                        /\ WF_vars(Handler(q) /\ UNCHANGED given)
                        /\ WF_vars(Commit(q) /\ UNCHANGED given)
  /\ WF_vars(Shutdown /\ UNCHANGED given)
  /\ WF_vars(Restart /\ UNCHANGED given)

FairSpec == Spec /\ Fairness

-----------------------------------------------------------------------------
(* Properties.                                                             *)

(* Every variable keeps its type.                                          *)
TypeOK ==
  /\ raiseAfterDlq \in RaiseModes
  /\ refused \in Refusals
  /\ committed \in [Queries -> 0..MaxBatch]
  /\ stored \in [Queries -> SUBSET Batches]
  /\ newest \in [Queries -> 0..MaxBatch]
  /\ inflight \in [Queries -> SUBSET Batches]
  /\ dlq \subseteq Files /\ purged \subseteq Files
  /\ clock \in Nat
  /\ audit \in [Queries -> [Batches -> Statuses]]
  /\ up \in BOOLEAN
  /\ pc \in [Queries -> Locations]
  /\ pdf \in [Queries -> BOOLEAN]
  /\ error \in [Queries -> ErrorTypes \cup {"none"}]
  /\ failures \in [Queries -> Nat]
  /\ persisted \in [Queries -> {"unbound", "true"}]
  /\ file \in [Queries -> Nat]
  /\ cleanupDue \in BOOLEAN
  /\ faults \in Nat /\ crashes \in Nat
  /\ streak \in [Queries -> Nat]

(* The dead letters ever written, whatever retention did to them since.    *)
Letters(q, b) == {f \in dlq \cup purged : f.q = q /\ f.b = b}

(* A dead letter of the batch is complete: it has the rows, or says that   *)
(* they were never collected (row_count 0).                                *)
DeadLettered(q, b) == \E f \in Letters(q, b) : f.data \/ ~f.counted

(* A batch with rows whose offsets Spark has committed, so that no replay  *)
(* will bring it back, is accounted for: write_to_clickhouse never         *)
(* swallows an exception without a complete dead letter, and oi.py and     *)
(* price.py never swallow one at all, whatever fails and wherever the      *)
(* process dies.                                                           *)
NoSilentLoss ==
  \A q \in Queries : \A b \in 1..committed[q] : 
    ~Empty(q, b) => b \in stored[q] \/ (q \in Common /\ DeadLettered(q, b))

(* With CH_WRITER_RAISE_AFTER_DLQ=1 the checkpoint never advances past a   *)
(* batch whose rows are not in the table.                                  *)
StrictModeCommitsOnlyStored ==
  raiseAfterDlq => \A q \in Queries : \A b \in 1..committed[q] : Empty(q, b) \/ b \in stored[q]

(* With CH_WRITER_FAIL_FAST=1 for all error types, a process never commits *)
(* FAIL_FAST_CONSECUTIVE failed batches of a query in a row: the batch     *)
(* that reaches the threshold ends the query instead.                      *)
FailFastBoundsFailedCommits ==
  FailFastEnabled /\ "*" \in FailFastTypes => \A q \in Queries : streak[q] < FailFastConsecutive

(* With SPARK_WRITE_AUDIT_STDOUT=1 the last audit event in the driver's    *)
(* log tells where the rows of a committed batch are.                      *)
AuditTellsTheOutcome ==
  AuditStdout =>
    \A q \in Queries : \A b \in 1..committed[q] :
      \/ AuditLog(q, b) = "success" /\ b \in stored[q]
      \/ AuditLog(q, b) = "failed" /\ q \in Common /\ DeadLettered(q, b)
      \/ AuditLog(q, b) = "skipped_empty" /\ Empty(q, b)

(* The rows a reader sees for a re-emitted window go back to those of an   *)
(* older batch only when the server ends an insert its client had given up *)
(* on: a replay after a crash never does it.                               *)
RegressesOnlyByLateInsert ==
  [][\A q \in Queries : newest'[q] < newest[q] => newest'[q] \in inflight[q]]_vars

(* _should_raise_after_dlq(error_type, dlq_persisted: bool) is called with *)
(* a Boolean.                                                              *)
DlqPersistedIsBool ==
  \A q \in Queries : pc[q] = "decide" => persisted[q] # "unbound"

(* Outside strict mode every batch is eventually committed: neither a      *)
(* refused batch of write_to_clickhouse, nor a crash, nor the failure of   *)
(* another query holds a query up for ever.  Only a refused batch of       *)
(* oi.py or price.py does: it is raised again at every replay, and each    *)
(* time the failed query takes the whole application down.                 *)
EveryBatchCommits ==
  \A q \in Queries :
    <>(committed[q] = MaxBatch \/ \E d \in DirectQueries : <<d, Current(d)>> \in refused)

-----------------------------------------------------------------------------
(* SilverWriter implements BatchDelivery: exceptions, swallowed or raised, *)
(* crashes, replays, late inserts and retention are steps of the abstract  *)
(* specification or leave its state alone.                                 *)
Aside == [q \in Queries |-> {b \in Batches : DeadLettered(q, b)}]

Delivery == INSTANCE BatchDelivery
              WITH Hollow <- EmptyBatches, done <- committed, landed <- stored, aside <- Aside

ImplementsBatchDelivery == Delivery!Spec
=============================================================================
