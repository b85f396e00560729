---------------------------- MODULE DriverCaches ----------------------------
(***************************************************************************)
(* What two Silver jobs remember in the driver process between batches.    *)
(*                                                                         *)
(* silver/price.py: queries over quotes keep the last quote of either      *)
(* market in a dictionary; the mark-price query, on a thread of its own,   *)
(* copies them into its rows if they are fresh.  silver/oi.py: the change  *)
(* of the open interest is against the value of the row before, which a    *)
(* dictionary remembers over batches.                                      *)
(*                                                                         *)
(* Neither is in a checkpoint: the end of the process, which the failure   *)
(* of any handler brings about, empties both.  The dictionaries are keyed  *)
(* by symbol and symbols do not interact: one is modelled.                 *)
(***************************************************************************)
EXTENDS Integers, Sequences, FiniteSets

CONSTANTS
  Quotes,         \* [m, skew, has]: a quote of market m, stamped skew ahead of
                  \* the clock, of which the columns has are not NULL
  RollupModes,    \* values of PRICE_USE_BOOKTICKER_ROLLUP
  ObserveModes,   \* whether the gate's mode is "observe"
  EnabledJobs,    \* the sets of jobs that may be ENABLED
  StaleAfter,     \* BOOKTICKER_STALE_AFTER_SEC
  MaxEventLag,    \* SPARK_DQ_MAX_EVENT_LAG_MS
  MaxFuture,      \* SPARK_DQ_MAX_FUTURE_EVENT_MS
  PerWindow,      \* snapshots of the open interest in a window
  MaxTime,        \* bound: the clock
  MaxQuotes,      \* bound: quotes of a topic
  MaxSnapshots,   \* bound: snapshots of the open interest
  MaxFaults       \* bound: failed inserts and crashes

Markets == {"futures", "spot"}
Topics == Markets \cup {"rollup"}
Columns == {"bid", "ask", "time"}

ASSUME CachesAssumption ==
  /\ Quotes \subseteq [m : Markets, skew : Int, has : SUBSET Columns]
  /\ RollupModes \subseteq BOOLEAN /\ ObserveModes \subseteq BOOLEAN
  /\ EnabledJobs \subseteq SUBSET {"price", "oi"}
  /\ StaleAfter \in Nat /\ MaxEventLag \in Nat /\ MaxFuture \in Nat
  /\ PerWindow \in Nat \ {0}
  /\ MaxTime \in Nat /\ MaxQuotes \in Nat /\ MaxSnapshots \in Nat /\ MaxFaults \in Nat

VARIABLES
  now,
  rollup, observe, enabled,  \* the configuration
  \* Kafka and the checkpoints
  quotes,     \* quotes[t]: the quotes in topic t
  read,       \* read[t]: how many of them the query over t has committed
  polled,     \* the snapshots 1..polled of the open interest are in Kafka
  oiDone,     \* of which the open-interest query has committed 1..oiDone
  oiPlan,     \* and planned a batch up to oiPlan
  \* ClickHouse
  price,      \* the last row of stream.price, or NoRow
  oi,         \* oi[w]: the row of window w, or NoRow
  stored,     \* history: the values ever inserted into stream.oi
  \* the driver process
  book,       \* book[m]: where the columns of the cached quote come from, or NoBook
  pc, row,    \* the mark-price handler, and its row so far
  oiPc, oiRows,  \* the open-interest handler, and its rows
  prev,       \* _prev_oi, or None
  faults

config  == <<rollup, observe, enabled>>
kafka   == <<quotes, polled>>
priceVars == <<read, price, book, pc, row>>
oiVars  == <<oiDone, oiPlan, oi, stored, oiPc, oiRows, prev>>
vars    == <<now, config, kafka, priceVars, oiVars, faults>>

None == 0
NoRow == [at |-> -1]
NoBook == << >>
PriceRows == [at : Nat, futures : Int, spot : Int, until : Nat]
OiRows == [at : Nat, base : Nat]
WindowOf(v) == v \div PerWindow
Windows == 0..MaxSnapshots

-----------------------------------------------------------------------------
Init ==
  /\ now = 1 /\ rollup \in RollupModes /\ observe \in ObserveModes
  /\ enabled \in EnabledJobs
  /\ quotes = [t \in Topics |-> << >>] /\ read = [t \in Topics |-> 0]
  /\ polled = 0 /\ oiDone = 0 /\ oiPlan = 0
  /\ price = NoRow /\ oi = [w \in Windows |-> NoRow] /\ stored = {}
  /\ book = [m \in Markets |-> NoBook] /\ pc = "idle" /\ row = NoRow
  /\ oiPc = "idle" /\ oiRows = << >> /\ prev = None
  /\ faults = 0

Tick ==
  /\ now < MaxTime /\ now' = now + 1
  /\ UNCHANGED <<config, kafka, priceVars, oiVars, faults>>

(* The topic a market's quotes are read from.                              *)
TopicOf(m) == IF rollup THEN "rollup" ELSE m

QuoteArrives(q) ==
  LET t == TopicOf(q.m)
  IN  /\ "price" \in enabled /\ Len(quotes[t]) < MaxQuotes /\ now + q.skew > 0
      /\ quotes' = [quotes EXCEPT ![t] = Append(@, [m |-> q.m, at |-> now + q.skew, has |-> q.has])]
      /\ UNCHANGED <<now, config, polled, priceVars, oiVars, faults>>

-----------------------------------------------------------------------------
(* The cached quotes.                                                      *)

(* Mutant: NULL is no reason to reject a row.                              *)
PassesNulls(q) == observe \/ now - q.at \in -MaxFuture..MaxEventLag

(* prepare_for_aggregate after the gate: every row if it only observes.    *)
Passes(q) == observe \/ (q.has = Columns /\ now - q.at \in -MaxFuture..MaxEventLag)

(* The rows of the next n of topic t that the handler gets.                *)
Given(t, n) == {i \in (read[t] + 1)..(read[t] + n) : Passes(quotes[t][i])}

(* What last(ignorenulls) may return for the columns of the rows R of t: a *)
(* column that is NULL in the last row comes from another row.             *)
LastOf(t, R) ==
  {pick \in [Columns -> R] :
     \E i \in R : \A c \in Columns :
       IF c \in quotes[t][i].has THEN pick[c] = i ELSE c \in quotes[t][pick[c]].has}

(* _update_futures_bt and _update_spot_bt: nothing, if a column is NULL.   *)
_update_bt(m, n) ==
  LET picks == LastOf(m, Given(m, n))
  IN  IF picks = {} THEN book' = book
      ELSE \E pick \in picks : book' = [book EXCEPT ![m] = pick]

(* Rows in the order of their times, the ones with a NULL left out.        *)
Newest(m, R) ==
  LET whole == {i \in R : quotes["rollup"][i].m = m /\ quotes["rollup"][i].has = Columns}
  IN  {[c \in Columns |-> i] : i \in {j \in whole :
         \A k \in whole : quotes["rollup"][k].at <= quotes["rollup"][j].at}}

_update_rollup_bt(n) ==
  LET newest(m) == Newest(m, Given("rollup", n))
  IN  \E b \in [Markets -> UNION {newest(m) \cup {book[m]} : m \in Markets}] :
        /\ \A m \in Markets : IF newest(m) = {} THEN b[m] = book[m] ELSE b[m] \in newest(m)
        /\ book' = b

(* A batch of a quote query, with its commit: nothing the handler does     *)
(* survives a process that ends in between.                                *)
UpdateBook(t, n) ==
  /\ n <= Len(quotes[t]) - read[t]
  /\ IF t = "rollup" THEN _update_rollup_bt(n) ELSE _update_bt(t, n)
  /\ read' = [read EXCEPT ![t] = @ + n]
  /\ UNCHANGED <<now, config, kafka, price, pc, row, oiVars, faults>>

-----------------------------------------------------------------------------
(* The mark-price handler.                                                 *)

(* batch_processed_at_sec is taken once.                                   *)
StartMerge ==
  /\ "price" \in enabled /\ pc = "idle" /\ pc' = "futures"
  /\ row' = [at |-> now, futures |-> None, spot |-> None, until |-> now]
  /\ UNCHANGED <<now, config, kafka, read, price, book, oiVars, faults>>

EventTime(m) == quotes[TopicOf(m)][book[m]["time"]].at

(* Mutant: whatever is cached is used.                                     *)
Cached(m) == book[m] # NoBook

Fresh(m) == book[m] # NoBook /\ row.at - EventTime(m) <= StaleAfter

(* A stale quote leaves zeros, as no quote does.                           *)
_apply_bookticker_snapshot(m) == IF Fresh(m) THEN EventTime(m) ELSE None

ReadFutures ==
  /\ pc = "futures" /\ pc' = "spot"
  /\ row' = [row EXCEPT !.futures = _apply_bookticker_snapshot("futures")]
  /\ UNCHANGED <<now, config, kafka, read, price, book, oiVars, faults>>

ReadSpot ==
  /\ pc = "spot" /\ pc' = "insert"
  /\ row' = [row EXCEPT !.spot = _apply_bookticker_snapshot("spot"), !.until = now]
  /\ UNCHANGED <<now, config, kafka, read, price, book, oiVars, faults>>

InsertPrice ==
  /\ pc = "insert" /\ pc' = "idle"
  /\ price' = row /\ row' = NoRow
  /\ UNCHANGED <<now, config, kafka, read, book, oiVars, faults>>

-----------------------------------------------------------------------------
(* The open interest.                                                      *)

Poll ==
  /\ "oi" \in enabled /\ polled < MaxSnapshots /\ polled' = polled + 1
  /\ UNCHANGED <<now, config, quotes, priceVars, oiVars, faults>>

OiPlan ==
  /\ oiPlan = oiDone /\ oiPc = "idle"
  /\ oiPlan' \in (oiDone + 1)..polled
  /\ UNCHANGED <<now, config, kafka, priceVars, oiDone, oi, stored, oiPc, oiRows, prev, faults>>

(* One value for every window of the batch, in any order.                  *)
Batches ==
  LET touched == {WindowOf(v) : v \in (oiDone + 1)..oiPlan}
  IN  {s \in [1..Cardinality(touched) -> (oiDone + 1)..oiPlan] :
         {WindowOf(s[i]) : i \in DOMAIN s} = touched}

(* The change of a row is against the row before it in the batch, that of  *)
(* the first one against the last row of the batch before.                 *)
_calc_change_pct ==
  /\ oiPc = "idle" /\ oiPlan > oiDone /\ oiPc' = "insert"
  /\ \E s \in Batches :
       /\ oiRows' = [i \in DOMAIN s |-> [at |-> s[i], base |-> IF i = 1 THEN prev ELSE s[i - 1]]]
       /\ prev' = s[Len(s)]
  /\ UNCHANGED <<now, config, kafka, priceVars, oiDone, oiPlan, oi, stored, faults>>

InsertOi ==
  /\ oiPc = "insert" /\ oiPc' = "commit"
  /\ oi' = [w \in Windows |->
              IF \E i \in DOMAIN oiRows : WindowOf(oiRows[i].at) = w
              THEN oiRows[CHOOSE i \in DOMAIN oiRows : WindowOf(oiRows[i].at) = w] ELSE oi[w]]
  /\ stored' = stored \cup {oiRows[i].at : i \in DOMAIN oiRows}
  /\ UNCHANGED <<now, config, kafka, priceVars, oiDone, oiPlan, oiRows, prev, faults>>

OiCommit ==
  /\ oiPc = "commit" /\ oiPc' = "idle"
  /\ oiDone' = oiPlan /\ oiRows' = << >>
  /\ UNCHANGED <<now, config, kafka, priceVars, oiPlan, oi, stored, prev, faults>>

-----------------------------------------------------------------------------
(* The end of the process: the checkpoints and ClickHouse remain.          *)
ProcessEnds ==
  /\ faults < MaxFaults /\ faults' = faults + 1
  /\ book' = [m \in Markets |-> NoBook] /\ pc' = "idle" /\ row' = NoRow
  /\ oiPc' = "idle" /\ oiRows' = << >> /\ prev' = None
  /\ UNCHANGED <<now, config, kafka, read, price, oiDone, oiPlan, oi, stored>>

(* Mutant: the failure is logged and the batch goes on to its commit.      *)
InsertOiFailureLogged ==
  /\ oiPc = "insert" /\ oiPc' = "commit"
  /\ faults < MaxFaults /\ faults' = faults + 1
  /\ UNCHANGED <<now, config, kafka, priceVars, oiDone, oiPlan, oi, stored, oiRows, prev>>

(* The handlers raise again what an insert raises.                         *)
InsertOiRaises == oiPc = "insert" /\ ProcessEnds
InsertPriceRaises == pc = "insert" /\ ProcessEnds

Crash == ProcessEnds

-----------------------------------------------------------------------------
Next ==
  \/ Tick
  \/ \E q \in Quotes : QuoteArrives(q)
  \/ \E t \in Topics, n \in 1..MaxQuotes : UpdateBook(t, n)
  \/ StartMerge \/ ReadFutures \/ ReadSpot \/ InsertPrice \/ InsertPriceRaises
  \/ Poll \/ OiPlan \/ _calc_change_pct \/ InsertOi \/ InsertOiRaises \/ OiCommit
  \/ Crash

Spec == Init /\ [][Next]_vars

-----------------------------------------------------------------------------
(* Properties.                                                             *)

(* Every variable keeps its type, and a query is never ahead of its topic. *)
TypeOK ==
  /\ now \in Nat /\ rollup \in BOOLEAN /\ observe \in BOOLEAN
  /\ quotes \in [Topics -> Seq([m : Markets, at : Int, has : SUBSET Columns])]
  /\ read \in [Topics -> Nat] /\ \A t \in Topics : read[t] <= Len(quotes[t])
  /\ polled \in Nat /\ oiDone \in Nat /\ oiPlan \in Nat
  /\ oiDone <= oiPlan /\ oiPlan <= polled /\ polled <= MaxSnapshots
  /\ book \in [Markets -> {NoBook} \cup [Columns -> Nat]]
  /\ pc \in {"idle", "futures", "spot", "insert"} /\ row \in PriceRows \cup {NoRow}
  /\ price \in PriceRows \cup {NoRow}
  /\ oiPc \in {"idle", "insert", "commit"} /\ oiRows \in Seq(OiRows)
  /\ oi \in [Windows -> OiRows \cup {NoRow}] /\ stored \subseteq Nat /\ prev \in Nat
  /\ faults \in 0..MaxFaults

(* Unless the gate only observes, the cached bid, ask and time are those   *)
(* of one quote that was sent, although last() takes every column by       *)
(* itself.                                                                 *)
BookHoldsRealQuotes ==
  ~observe => \A m \in Markets : book[m] # NoBook =>
    /\ \E i \in 1..read[TopicOf(m)] : book[m] = [c \in Columns |-> i]
    /\ quotes[TopicOf(m)][book[m]["time"]].m = m

(* Unless the gate only observes, a stored row with quotes of both         *)
(* markets, from which the basis is computed, has quotes whose times are   *)
(* no further apart than a quote may be stale or ahead, and the handler    *)
(* took, however the quote queries and the handler interleave.             *)
BasisIsContemporary ==
  (~observe /\ price # NoRow /\ price.futures # None /\ price.spot # None) =>
    LET apart == StaleAfter + MaxFuture + (price.until - price.at)
    IN  price.futures - price.spot \in -apart..apart

(* A stored change of the open interest is against a value that was itself *)
(* stored: what the dictionary remembers of a batch that was not inserted  *)
(* never becomes the base of a later row.                                  *)
BaseWasStored ==
  \A w \in Windows : oi[w] # NoRow => oi[w].base \in stored \cup {None}
=============================================================================
