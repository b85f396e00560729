----------------------------- MODULE CvdStream ------------------------------
(***************************************************************************)
(* The path of a trade: collectors put the trades of the futures and the   *)
(* spot market into the partitions TopicRouting gives them, and the CVD    *)
(* query (silver/cvd.py) reads both topics, gates the rows, and keeps      *)
(* totals per window and symbol, which it writes to ClickHouse.            *)
(*                                                                         *)
(* Both topics are read under one watermark, and each batch reads at most  *)
(* a limit of either, fixed when the query starts from the lag found then  *)
(* (silver/base.py).  Kafka and Spark are external: a batch is planned,    *)
(* with its time and its watermark, in the checkpoint; a process that dies *)
(* before the commit leaves it to be run again as it was planned.          *)
(***************************************************************************)
EXTENDS TopicRouting, FiniteSets

CONSTANTS
  Symbols,          \* the collected symbols
  Arrivals,         \* <<market, symbol, d>>: trades may come d after their time
  Hashes,           \* values of _stable_hash
  WindowDuration,   \* WINDOW_DURATION
  WatermarkDelay,   \* CVD_WATERMARK_DELAY
  MaxEventLag,      \* SPARK_DQ_MAX_EVENT_LAG_MS
  MaxFuture,        \* SPARK_DQ_MAX_FUTURE_EVENT_MS
  Observe,          \* the gate's mode is "observe"
  MaxOffsets,       \* MaxOffsets[m]: CVD_FUTURES_MAX_OFFSETS, CVD_SPOT_MAX_OFFSETS
  LagSteps,         \* <<lag, limit>>: the limit for a lag above this one
  MaxTime,          \* bound: the clock
  MaxStamp,         \* bound: times of trades
  MaxTrades,        \* bound: trades
  MaxFaults,        \* bound: failed writes
  MaxCrashes        \* bound: process crashes

Markets == {"futures", "spot"}

(* get_topic for the trade streams of either market.                       *)
get_topic(m) == IF m = "spot" THEN "spot-trade" ELSE "binance-trade"

Partitions == 0..(get_topic_partition_count("binance-trade") - 1)

ASSUME StreamAssumption ==
  /\ \A m \in Markets : Hot(get_topic(m))
  /\ \A s \in Symbols : Listed(s)
  /\ Arrivals \subseteq Markets \X Symbols \X Int /\ Hashes \subseteq Nat
  /\ WindowDuration \in Nat \ {0} /\ WatermarkDelay \in Nat
  /\ MaxEventLag \in Nat /\ MaxFuture \in Nat /\ Observe \in BOOLEAN
  /\ MaxOffsets \in [Markets -> Nat \ {0}]
  /\ LagSteps \subseteq Nat \X (Nat \ {0})
  /\ MaxTime \in Nat /\ MaxStamp \in Nat /\ MaxTrades \in Nat /\ MaxFaults \in Nat /\ MaxCrashes \in Nat

VARIABLES
  now,
  log,        \* log[m][p]: the trades in partition p of m's topic
  \* the checkpoint of the query
  first,      \* first[m][p]: the offset at which the query began to read
  offsets,    \* offsets[m][p]: the offset up to which batches are committed, or
              \* NoOffsets before the first start
  plan,       \* the planned batch that is not committed, or NoPlan
  totals,     \* totals[k][m]: the state store; a window it has dropped has zeros
  watermark,  \* the watermark of the next batch to plan
  \* ClickHouse
  table,      \* table[k][m]: the last row of window and symbol k
  inflight,   \* inserts the client gave up on, still running
  stale,      \* history: windows whose last row went to a dead letter or was
              \* overwritten by an insert that ended late
  \* the driver process
  up,
  limit,      \* limit[m]: maxOffsetsPerTrigger
  written,    \* the handler of the planned batch has returned
  \* history
  counted, dropped, rejected,  \* trades of committed batches: in the totals,
                               \* late for the watermark, refused by the gate
  \* bounds
  faults, crashes

checkpoint == <<first, offsets, totals, watermark>>
history    == <<counted, dropped, rejected>>
vars       == <<now, log, checkpoint, plan, table, inflight, stale, up, limit, written, history,
                faults, crashes>>

NoPlan == [ends |-> << >>]
NoOffsets == << >>

(* A trade is named by its place: <<market, partition, offset>>.           *)
Places == Markets \X Partitions \X (1..MaxTrades)
Trade(t) == log[t[1]][t[2]][t[3]]
InLog == {t \in Places : t[3] <= Len(log[t[1]][t[2]])}

Keys == [start : 0..MaxStamp, s : Symbols]
Key(t) == [start |-> Trade(t).at - (Trade(t).at % WindowDuration), s |-> Trade(t).s]
WindowEnd(t) == Key(t).start + WindowDuration

Nowhere == [m \in Markets |-> [p \in Partitions |-> 0]]
Ends == [m \in Markets |-> [p \in Partitions |-> Len(log[m][p])]]
NoTotals == [k \in Keys |-> [m \in Markets |-> 0]]

-----------------------------------------------------------------------------
Init ==
  /\ now = 0 /\ log = [m \in Markets |-> [p \in Partitions |-> << >>]]
  /\ first = Nowhere /\ offsets = NoOffsets /\ plan = NoPlan /\ totals = NoTotals /\ watermark = 0
  /\ table = NoTotals /\ inflight = {} /\ stale = {}
  /\ up = FALSE /\ limit = MaxOffsets /\ written = FALSE
  /\ counted = {} /\ dropped = {} /\ rejected = {}
  /\ faults = 0 /\ crashes = 0

Tick ==
  /\ now < MaxTime
  /\ now' = now + 1
  /\ UNCHANGED <<log, checkpoint, plan, table, inflight, stale, up, limit, written, history,
                 faults, crashes>>

(* A collector's record of a trade of d ago (or ahead) is in Kafka.        *)
Arrive(m, s, d, hash) ==
  /\ Cardinality(InLog) < MaxTrades /\ now - d \in 0..MaxStamp
  /\ LET p == build_partition_route(get_topic(m), s, hash)
     IN  log' = [log EXCEPT ![m][p] = Append(@, [s |-> s, at |-> now - d])]
  /\ UNCHANGED <<now, checkpoint, plan, table, inflight, stale, up, limit, written, history,
                 faults, crashes>>

-----------------------------------------------------------------------------
(* The start of the query.                                                 *)

(* Mutant: the limit follows the lag.                                      *)
LimitIsLag(lag, fallback) == lag

(* The greatest step the lag is above decides.                             *)
_lag_to_max_offsets(lag, fallback) ==
  LET above == {step \in LagSteps : lag > step[1]}
  IN  IF above = {} THEN fallback
      ELSE (CHOOSE step \in above : \A other \in above : step[1] >= other[1])[2]

(* The trades of m's topic that the offsets o have not reached.            *)
Unread(m, o) == {t \in {m} \X Partitions \X (1..MaxTrades) : t[3] \in (o[m][t[2]] + 1)..Len(log[m][t[2]])}

(* The limit for the lag of the last planned batch, if there is a          *)
(* checkpoint and the exporter of Kafka's offsets answers; else the        *)
(* configured one.                                                         *)
_get_optimal_max_offsets(m, answers) ==
  IF ~answers \/ offsets = NoOffsets THEN MaxOffsets[m]
  ELSE LET planned == IF plan = NoPlan THEN offsets ELSE plan.ends
       IN  _lag_to_max_offsets(Cardinality(Unread(m, planned)), MaxOffsets[m])

(* Mutant: a restart begins at the latest offsets again.                   *)
StartAtLatest(answers) ==
  /\ ~up /\ up' = TRUE
  /\ limit' = [m \in Markets |-> _get_optimal_max_offsets(m, answers)]
  /\ offsets' = Ends /\ plan' = NoPlan
  /\ first' = IF crashes + faults = 0 THEN Ends ELSE first
  /\ UNCHANGED <<now, log, totals, watermark, table, inflight, stale, written, history,
                 faults, crashes>>

(* With a checkpoint the query goes on from it; without one it begins at   *)
(* the latest offsets.                                                     *)
Start(answers) ==
  /\ ~up /\ up' = TRUE
  /\ limit' = [m \in Markets |-> _get_optimal_max_offsets(m, answers)]
  /\ IF offsets = NoOffsets THEN first' = Ends /\ offsets' = Ends
     ELSE UNCHANGED <<first, offsets>>
  /\ UNCHANGED <<now, log, plan, totals, watermark, table, inflight, stale, written, history,
                 faults, crashes>>

-----------------------------------------------------------------------------
(* A micro-batch.                                                          *)

(* Spark divides the limit over the partitions in proportion to what they  *)
(* have, and gives each at least one.                                      *)
EndsWithin(m) ==
  LET size(p) == Len(log[m][p]) - offsets[m][p]
      lag == Cardinality(Unread(m, offsets))
  IN  [p \in Partitions |->
         IF size(p) = 0 THEN offsets[m][p]
         ELSE offsets[m][p] + AtMost(AtLeast((limit[m] * size(p)) \div lag, 1), size(p))]

(* The offsets, the time and the watermark of a batch are in the           *)
(* checkpoint before it runs.                                              *)
Plan ==
  /\ up /\ plan = NoPlan /\ \E m \in Markets : Unread(m, offsets) # {}
  /\ plan' = [ends |-> [m \in Markets |-> EndsWithin(m)], at |-> now, watermark |-> watermark]
  /\ UNCHANGED <<now, log, checkpoint, table, inflight, stale, up, limit, written, history, faults, crashes>>

Batch == {t \in Places : t[3] \in (offsets[t[1]][t[2]] + 1)..plan.ends[t[1]][t[2]]}

(* The gate compares the time of a trade with the time of the batch.       *)
lag_bad(t) ==
  plan.at - Trade(t).at > MaxEventLag \/ plan.at - Trade(t).at < -MaxFuture

(* prepare_for_aggregate: in mode "observe" every row goes on.             *)
prepare_for_aggregate == {t \in Batch : Observe \/ ~lag_bad(t)}

Late(t) == WindowEnd(t) <= plan.watermark
OnTime == {t \in prepare_for_aggregate : ~Late(t)}

(* The totals of every window after the batch.                             *)
aggregate ==
  LET rows == OnTime
  IN  [k \in Keys |-> [m \in Markets |->
         totals[k][m] + Cardinality({t \in rows : Key(t) = k /\ t[1] = m})]]

(* In mode "update" the windows the batch has touched are written.         *)
Touched == {Key(t) : t \in OnTime}

(* Mutant: the sums of the batch are written instead of the totals.        *)
OutputIncrements ==
  LET new == aggregate
      touched == Touched
  IN  [k \in Keys |-> IF k \in touched THEN [m \in Markets |-> new[k][m] - totals[k][m]] ELSE table[k]]

Output ==
  LET new == aggregate
      touched == Touched
  IN  [k \in Keys |-> IF k \in touched THEN new[k] ELSE table[k]]

(* write_to_clickhouse stores the rows; of the rows of a window the last   *)
(* one inserted is kept.                                                   *)
Write ==
  /\ up /\ plan # NoPlan /\ ~written
  /\ table' = Output
  /\ stale' = stale \ Touched
  /\ written' = TRUE
  /\ UNCHANGED <<now, log, checkpoint, plan, inflight, up, limit, history, faults, crashes>>

(* An insert that fails for the client has no effect, has had its effect,  *)
(* or goes on in the server.                                               *)
FailedInsert(effect) ==
  /\ effect # "none" => plan # NoPlan /\ ~written /\ Touched # {}
  /\ table' = IF effect = "applied" THEN Output ELSE table
  /\ inflight' = IF effect = "running"
                 THEN inflight \cup {[n |-> faults + crashes, keys |-> Touched, rows |-> aggregate]}
                 ELSE inflight

(* It writes a dead letter for the rows, and returns.                      *)
WriteDeadLetter(effect) ==
  /\ up /\ plan # NoPlan /\ ~written /\ Touched # {} /\ faults < MaxFaults
  /\ faults' = faults + 1
  /\ FailedInsert(effect)
  /\ stale' = IF effect = "applied" THEN stale \ Touched ELSE stale \cup Touched
  /\ written' = TRUE
  /\ UNCHANGED <<now, log, checkpoint, plan, up, limit, history, crashes>>

(* The server ends an insert whose client is gone: given up, or applied,   *)
(* and then its rows are the last ones.                                    *)
LateInsertEnds(i, applied) ==
  /\ i \in inflight /\ inflight' = inflight \ {i}
  /\ table' = [k \in Keys |-> IF applied /\ k \in i.keys THEN i.rows[k] ELSE table[k]]
  /\ stale' = stale \cup {k \in Keys : table'[k] # table[k]}
  /\ UNCHANGED <<now, log, checkpoint, plan, up, limit, written, history, faults, crashes>>

(* Mutant: the watermark is taken before the gate.                         *)
WatermarkOfBatch(S) ==
  CHOOSE w \in {watermark} \cup {Trade(t).at - WatermarkDelay : t \in Batch} :
    w >= watermark /\ \A t \in Batch : w >= Trade(t).at - WatermarkDelay

(* The watermark after a batch whose gated rows are S.                     *)
Watermark(S) ==
  CHOOSE w \in {watermark} \cup {Trade(t).at - WatermarkDelay : t \in S} :
    w >= watermark /\ \A t \in S : w >= Trade(t).at - WatermarkDelay

(* Windows the watermark has passed leave the state store.                 *)
Evict(T) == [k \in Keys |-> IF k.start + WindowDuration <= plan.watermark THEN NoTotals[k] ELSE T[k]]

Commit ==
  /\ up /\ written
  /\ offsets' = plan.ends /\ plan' = NoPlan /\ written' = FALSE
  /\ totals' = Evict(aggregate)
  /\ watermark' = Watermark(prepare_for_aggregate)
  /\ counted' = counted \cup OnTime
  /\ dropped' = dropped \cup (prepare_for_aggregate \ OnTime)
  /\ rejected' = rejected \cup (Batch \ prepare_for_aggregate)
  /\ UNCHANGED <<now, log, first, table, inflight, stale, up, limit, faults, crashes>>

(* The handler raises, and the process ends with the query.                *)
WriteRaises(effect) ==
  /\ up /\ plan # NoPlan /\ ~written /\ faults < MaxFaults
  /\ faults' = faults + 1
  /\ FailedInsert(effect)
  /\ stale' = IF effect = "applied" THEN stale \ Touched ELSE stale
  /\ up' = FALSE
  /\ UNCHANGED <<now, log, checkpoint, plan, limit, written, history, crashes>>

(* The process dies, perhaps in an insert.                                 *)
Crash(effect) ==
  /\ up /\ crashes < MaxCrashes
  /\ crashes' = crashes + 1
  /\ FailedInsert(effect)
  /\ stale' = IF effect = "applied" THEN stale \ Touched ELSE stale
  /\ up' = FALSE /\ written' = FALSE
  /\ UNCHANGED <<now, log, checkpoint, plan, limit, history, faults>>

-----------------------------------------------------------------------------
Effects == {"none", "applied", "running"}

Next ==
  \/ Tick
  \/ \E a \in Arrivals, hash \in Hashes : Arrive(a[1], a[2], a[3], hash)
  \/ \E answers \in BOOLEAN : Start(answers)
  \/ Plan \/ Write \/ Commit
  \/ \E effect \in Effects : WriteDeadLetter(effect) \/ WriteRaises(effect) \/ Crash(effect)
  \/ \E i \in inflight, applied \in BOOLEAN : LateInsertEnds(i, applied)

Spec == Init /\ [][Next]_vars

(* The trigger fires, a batch that is planned ends, and whoever operates   *)
(* the application starts it again.                                        *)
Fairness ==
  /\ WF_vars(Plan) /\ WF_vars(Write) /\ WF_vars(Commit)
  /\ WF_vars(\E answers \in BOOLEAN : Start(answers))

FairSpec == Spec /\ Fairness

-----------------------------------------------------------------------------
(* Properties.                                                             *)

(* Every variable keeps its type.                                          *)
TypeOK ==
  /\ now \in 0..MaxTime
  /\ log \in [Markets -> [Partitions -> Seq([s : Symbols, at : 0..MaxStamp])]]
  /\ first \in [Markets -> [Partitions -> Nat]]
  /\ offsets = NoOffsets \/ offsets \in [Markets -> [Partitions -> Nat]]
  /\ plan = NoPlan \/ plan \in [ends : [Markets -> [Partitions -> Nat]], at : 0..MaxTime, watermark : Int]
  /\ totals \in [Keys -> [Markets -> Nat]] /\ table \in [Keys -> [Markets -> Nat]]
  /\ watermark \in Int /\ stale \subseteq Keys
  /\ inflight \subseteq [n : Nat, keys : SUBSET Keys, rows : [Keys -> [Markets -> Nat]]]
  /\ up \in BOOLEAN /\ written \in BOOLEAN /\ limit \in [Markets -> Nat \ {0}]
  /\ counted \subseteq Places /\ dropped \subseteq Places /\ rejected \subseteq Places
  /\ faults \in Nat /\ crashes \in Nat

(* With a partition for every symbol, a partition of a high-frequency      *)
(* topic holds the records of one symbol only.                             *)
OnePartitionOneSymbol ==
  Len(RoutingSymbols) <= Cardinality(Partitions) =>
    \A t, u \in InLog : t[1] = u[1] /\ t[2] = u[2] => Trade(t).s = Trade(u).s

(* A trade is dropped as late only if a trade that the gate accepted in an *)
(* earlier batch has overtaken it: one that is WatermarkDelay past the end *)
(* of its window.  Nothing else makes a trade late, neither the other      *)
(* market's clock, nor limits, nor replays, nor a trade the gate refused.  *)
OnlyOvertakenTradesAreLate ==
  [][\A t \in dropped' \ dropped :
       \E u \in counted \cup dropped : Trade(u).at >= WindowEnd(t) + WatermarkDelay]_vars

(* What a row of window and symbol k counts of market m in the trades S.   *)
Exact(S, k, m) == Cardinality({t \in S : Key(t) = k /\ t[1] = m})

(* Whatever is run again, the row of a window counts every trade that was  *)
(* accepted once, unless its last row went to a dead letter or an insert   *)
(* that ended late has replaced it: the next row makes up for that.  A     *)
(* batch that is not committed may be ahead.  Even a row that is not exact *)
(* counts no trade twice.                                                  *)
TotalsAreExact ==
  LET accepted == counted \cup (IF plan = NoPlan THEN {} ELSE OnTime)
  IN  \A k \in Keys, m \in Markets :
        /\ table[k][m] <= Exact(accepted, k, m)
        /\ k \notin stale => table[k][m] \in {Exact(counted, k, m), Exact(accepted, k, m)}

(* However often the process ends, every trade that reaches Kafka after    *)
(* the query began is judged in the end: counted, dropped as late, or      *)
(* refused by the gate.                                                    *)
CatchesUp ==
  []<>(/\ offsets # NoOffsets
       /\ {t \in InLog : t[3] > first[t[1]][t[2]]} = counted \cup dropped \cup rejected)
=============================================================================
