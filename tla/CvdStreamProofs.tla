-------------------------- MODULE CvdStreamProofs ---------------------------
(***************************************************************************)
(* Proofs about TopicRouting and CvdStream, for any partitions, symbols,   *)
(* lanes, hashes, limits, delays, windows and faults.                      *)
(***************************************************************************)
EXTENDS CvdStream, FiniteSetTheorems, WellFoundedInduction, TLAPS

-----------------------------------------------------------------------------
(* Numbers.                                                                *)

LEMMA LeastNatural ==
  ASSUME NEW T \in SUBSET Nat, T # {}
  PROVE  \E x \in T : \A y \in T : x <= y
  <1> DEFINE R == {ss \in Nat \X Nat : ss[1] < ss[2]}
  <1>1. IsWellFoundedOn(R, Nat)
    <2>1. R = OpToRel(<, Nat)
      BY Zenon DEF OpToRel
    <2>2. QED
      BY <2>1, NatLessThanWellFounded, Zenon
  <1> HIDE DEF R
  <1>2. PICK x \in T : \A y \in T : ~(<<y, x>> \in R)
    BY <1>1, WFMin
  <1>3. ASSUME NEW y \in T PROVE x <= y
    <2>1. x \in Nat /\ y \in Nat /\ <<y, x>> \notin R
      BY <1>2
    <2>2. <<y, x>> \in R <=> y < x
      BY <2>1 DEF R
    <2>3. QED
      BY <2>1, <2>2
  <1>4. QED
    BY <1>2, <1>3

(* A set of integers with an upper bound has a greatest element.           *)
LEMMA Greatest ==
  ASSUME NEW S \in SUBSET Int, S # {}, NEW b \in Int, \A x \in S : x <= b
  PROVE  \E x \in S : \A y \in S : x >= y
  <1> DEFINE T == {n \in Nat : b - n \in S}
  <1>1. T # {}
    <2>1. PICK x \in S : x \in Int /\ x <= b
      OBVIOUS
    <2>2. b - x \in Nat /\ b - (b - x) = x
      BY <2>1
    <2>3. QED
      BY <2>1, <2>2
  <1>2. PICK n \in T : \A k \in T : n <= k
    BY <1>1, LeastNatural
  <1>3. ASSUME NEW y \in S PROVE b - n >= y
    <2>1. y \in Int /\ y <= b
      OBVIOUS
    <2>2. b - y \in Nat /\ b - (b - y) = y
      BY <2>1
    <2>3. b - y \in T
      BY <2>2
    <2>4. n <= b - y /\ n \in Nat
      BY <1>2, <2>3
    <2>5. QED
      BY <2>1, <2>4
  <1>4. QED
    BY <1>2, <1>3

-----------------------------------------------------------------------------
(* Routing.                                                                *)

(* Two symbols' spans do not overlap when there are partitions for all.    *)
LEMMA SpansDisjoint ==
  ASSUME NEW n \in Nat, NEW P \in Nat, n <= P, NEW i \in 0..(n - 1), NEW j \in 0..(n - 1), i < j
  PROVE  Span(i, n, P).end <= Span(j, n, P).first
  <1> DEFINE base == P \div n
             extra == P % n
  <1>1. base \in Nat /\ extra \in 0..(n - 1)
    OBVIOUS
  <1>2. AtMost(i, extra) + (IF i < extra THEN 1 ELSE 0) <= AtMost(j, extra)
    BY <1>1 DEF AtMost
  <1>3. AtMost(i, extra) \in Nat /\ AtMost(j, extra) \in Nat
    BY <1>1 DEF AtMost
  <1>4. base * i + base <= base * j
    <2> HIDE DEF base
    <2>1. PICK d \in Nat : j = i + 1 + d
      <3>1. j - i - 1 \in Nat /\ j = i + 1 + (j - i - 1)
        OBVIOUS
      <3>2. QED
        BY <3>1
    <2>2. base * j = base * i + base + base * d
      BY <1>1, <2>1
    <2>3. base * d \in Nat /\ base * i \in Nat
      BY <1>1, <2>1
    <2>4. QED
      BY <1>1, <2>2, <2>3
  <1>5. /\ Span(i, n, P).end = base * i + AtMost(i, extra) + base + (IF i < extra THEN 1 ELSE 0)
        /\ Span(j, n, P).first = base * j + AtMost(j, extra)
    BY DEF Span
  <1>6. base * i \in Nat /\ base * j \in Nat
    BY <1>1
  <1> HIDE DEF base, extra
  <1>7. QED
    BY <1>1, <1>2, <1>3, <1>4, <1>5, <1>6

(* A span has at least one partition, and they are partitions there are.   *)
LEMMA SpanInside ==
  ASSUME NEW n \in Nat, NEW P \in Nat, n <= P, NEW i \in 0..(n - 1)
  PROVE  /\ Span(i, n, P).first \in Nat /\ Span(i, n, P).end \in Nat
         /\ Span(i, n, P).first < Span(i, n, P).end
  <1> DEFINE base == P \div n
             extra == P % n
  <1>1. base \in Nat /\ base >= 1 /\ extra \in 0..(n - 1)
    OBVIOUS
  <1>2. AtMost(i, extra) \in Nat /\ base * i \in Nat
    BY <1>1 DEF AtMost
  <1>3. /\ Span(i, n, P).first = base * i + AtMost(i, extra)
        /\ Span(i, n, P).end = base * i + AtMost(i, extra) + base + (IF i < extra THEN 1 ELSE 0)
    BY DEF Span
  <1> HIDE DEF base, extra
  <1>4. QED
    BY <1>1, <1>2, <1>3

(* A symbol of the universe has an index of its own.                       *)
LEMMA IndexOf ==
  ASSUME NEW s, Listed(s)
  PROVE  /\ Universe(s) = RoutingSymbols
         /\ Index(s) \in 0..(Len(RoutingSymbols) - 1) /\ RoutingSymbols[Index(s) + 1] = s
  <1>1. RoutingSymbols \in Seq({RoutingSymbols[i] : i \in DOMAIN RoutingSymbols})
    BY RoutingAssumption
  <1>2. DOMAIN RoutingSymbols = 1..Len(RoutingSymbols) /\ Len(RoutingSymbols) \in Nat
    BY <1>1
  <1>3. Universe(s) = RoutingSymbols
    BY DEF Universe
  <1>4. PICK i \in DOMAIN RoutingSymbols : i = (CHOOSE k \in DOMAIN RoutingSymbols : RoutingSymbols[k] = s)
                                          /\ RoutingSymbols[i] = s
    BY DEF Listed
  <1>5. Index(s) = i - 1
    BY <1>3, <1>4 DEF Index
  <1>6. i \in Nat /\ Index(s) + 1 = i
    BY <1>2, <1>4, <1>5
  <1>7. QED
    BY <1>2, <1>3, <1>4, <1>5, <1>6

(* However lanes are overridden, there is at least one and none outside    *)
(* the span.                                                               *)
LEMMA LanesInside ==
  ASSUME NEW topic, NEW s, NEW shards \in Nat \ {0}
  PROVE  get_active_lane_count(topic, s, shards) \in 1..shards
  <1> DEFINE O == Overrides(topic, s)
             least == CHOOSE i \in O : \A j \in O : i <= j
  <1>1. CASE shards <= 1 \/ O = {}
    BY <1>1 DEF get_active_lane_count
  <1>2. CASE shards > 1 /\ O # {}
    <2>1. O \subseteq 1..4
      BY DEF Overrides
    <2>2. \E i \in O : \A j \in O : i <= j
      <3>1. CASE 1 \in O
        BY <2>1, <3>1
      <3>2. CASE 1 \notin O /\ 2 \in O
        BY <2>1, <3>2
      <3>3. CASE 1 \notin O /\ 2 \notin O /\ 3 \in O
        BY <2>1, <3>3
      <3>4. CASE 1 \notin O /\ 2 \notin O /\ 3 \notin O
        BY <1>2, <2>1, <3>4
      <3>5. QED
        BY <3>1, <3>2, <3>3, <3>4
    <2>3. least \in O
      BY <2>2
    <2>4. LaneKeys(topic, s)[least] \in DOMAIN ActiveLanes
      BY <2>3 DEF Overrides
    <2>5. ActiveLanes[LaneKeys(topic, s)[least]] \in Nat \ {0}
      BY <2>4, RoutingAssumption
    <2>6. get_active_lane_count(topic, s, shards) = AtLeast(AtMost(ActiveLanes[LaneKeys(topic, s)[least]], shards), 1)
      BY <1>2 DEF get_active_lane_count
    <2> HIDE DEF least
    <2>7. QED
      BY <2>5, <2>6 DEF AtLeast, AtMost
  <1>3. QED
    BY <1>1, <1>2

Hosts(s) == LET span == Span(Index(s), Len(RoutingSymbols), Cardinality(Partitions))
            IN  span.first..(span.end - 1)

LEMMA HotCount ==
  ASSUME NEW m \in Markets
  PROVE  /\ Hot(get_topic(m)) /\ Cardinality(Partitions) \in Nat
         /\ get_topic_partition_count(get_topic(m)) = Cardinality(Partitions)
  <1>1. \A k \in Markets : Hot(get_topic(k))
    BY StreamAssumption
  <1>2. /\ "futures" \in Markets /\ get_topic("futures") = "binance-trade"
    BY DEF Markets, get_topic
  <1>3. Hot("binance-trade") /\ Hot(get_topic(m))
    BY <1>1, <1>2
  <1>4. \A t \in HighFrequencyTopics : get_topic_partition_count(t) = AtLeast(HotPartitions, 1)
    BY DEF get_topic_partition_count
  <1>5. get_topic_partition_count(get_topic(m)) = get_topic_partition_count("binance-trade")
    BY <1>3, <1>4 DEF Hot
  <1>6. get_topic_partition_count("binance-trade") \in Nat
    BY <1>3, <1>4, RoutingAssumption DEF Hot, AtLeast
  <1>7. Cardinality(Partitions) = get_topic_partition_count("binance-trade")
    BY <1>6, FS_Interval DEF Partitions
  <1>8. QED
    BY <1>3, <1>5, <1>6, <1>7

(* A record is put into the span of its symbol.                            *)
LEMMA RouteInSpan ==
  ASSUME NEW m \in Markets, NEW s \in Symbols, NEW hash \in Nat,
         Len(RoutingSymbols) <= Cardinality(Partitions)
  PROVE  build_partition_route(get_topic(m), s, hash) \in Hosts(s)
  <1> DEFINE n == Len(RoutingSymbols)
             P == Cardinality(Partitions)
             span == Span(Index(s), n, P)
             lanes == get_active_lane_count(get_topic(m), s, AtLeast(span.end - span.first, 1))
  <1>1. Listed(s)
    BY StreamAssumption
  <1>2. Universe(s) = RoutingSymbols /\ Index(s) \in 0..(n - 1)
    BY <1>1, IndexOf
  <1>3. n \in Nat
    BY RoutingAssumption
  <1>4. P \in Nat /\ get_symbol_partition_span(get_topic(m), s) = span
    BY <1>2, HotCount DEF get_symbol_partition_span
  <1>5. span.first \in Nat /\ span.end \in Nat /\ span.first < span.end
    BY <1>2, <1>3, <1>4, SpanInside
  <1>6. AtLeast(span.end - span.first, 1) = span.end - span.first /\ span.end - span.first \in Nat \ {0}
    BY <1>5 DEF AtLeast
  <1>7. lanes \in 1..(span.end - span.first)
    BY <1>6, LanesInside
  <1>8. build_partition_route(get_topic(m), s, hash) = span.first + (hash % lanes)
    BY <1>4 DEF build_partition_route
  <1>9. Hosts(s) = span.first..(span.end - 1)
    BY DEF Hosts
  <1> HIDE DEF span, lanes
  <1>10. hash % lanes \in 0..(lanes - 1)
    BY <1>5, <1>7
  <1>11. QED
    BY <1>5, <1>7, <1>8, <1>9, <1>10

(* No partition is in the spans of two symbols.                            *)
LEMMA HostsDisjoint ==
  ASSUME NEW s \in Symbols, NEW u \in Symbols, NEW p \in Hosts(s), p \in Hosts(u),
         Len(RoutingSymbols) <= Cardinality(Partitions)
  PROVE  s = u
  <1> DEFINE n == Len(RoutingSymbols)
             P == Cardinality(Partitions)
  <1>1. Listed(s) /\ Listed(u)
    BY StreamAssumption
  <1>2. /\ Index(s) \in 0..(n - 1) /\ RoutingSymbols[Index(s) + 1] = s
        /\ Index(u) \in 0..(n - 1) /\ RoutingSymbols[Index(u) + 1] = u
    BY <1>1, IndexOf
  <1>3. n \in Nat /\ P \in Nat
    BY RoutingAssumption, HotCount DEF Markets
  <1>4. /\ Span(Index(s), n, P).first \in Nat /\ Span(Index(s), n, P).end \in Nat
        /\ Span(Index(u), n, P).first \in Nat /\ Span(Index(u), n, P).end \in Nat
    BY <1>2, <1>3, SpanInside
  <1>5. /\ p \in Span(Index(s), n, P).first..(Span(Index(s), n, P).end - 1)
        /\ p \in Span(Index(u), n, P).first..(Span(Index(u), n, P).end - 1)
    BY DEF Hosts
  <1>6. ~(Index(s) < Index(u))
    <2> SUFFICES ASSUME Index(s) < Index(u) PROVE FALSE
      OBVIOUS
    <2>1. Span(Index(s), n, P).end <= Span(Index(u), n, P).first
      BY <1>2, <1>3, SpansDisjoint
    <2>2. QED
      BY <1>4, <1>5, <2>1
  <1>7. ~(Index(u) < Index(s))
    <2> SUFFICES ASSUME Index(u) < Index(s) PROVE FALSE
      OBVIOUS
    <2>1. Span(Index(u), n, P).end <= Span(Index(s), n, P).first
      BY <1>2, <1>3, SpansDisjoint
    <2>2. QED
      BY <1>4, <1>5, <2>1
  <1>8. Index(s) = Index(u)
    BY <1>2, <1>3, <1>6, <1>7
  <1>9. QED
    BY <1>2, <1>8

-----------------------------------------------------------------------------
(* The log.                                                                *)

Record == [s : Symbols, at : 0..MaxStamp]
Logs == [Markets -> [Partitions -> Seq(Record)]]

(* Nothing that is in the log changes.                                     *)
LEMMA LogAppended ==
  ASSUME log \in Logs, now \in 0..MaxTime, NEW m \in Markets, NEW s \in Symbols, NEW d \in Int, NEW hash \in Nat,
         Arrive(m, s, d, hash)
  PROVE  /\ log' \in Logs
         /\ \A k \in Markets, p \in Partitions :
              /\ Len(log'[k][p]) \in Nat /\ Len(log'[k][p]) >= Len(log[k][p])
              /\ \A i \in 1..Len(log[k][p]) : log'[k][p][i] = log[k][p][i]
              /\ \A i \in 1..Len(log'[k][p]) :
                   \/ i \in 1..Len(log[k][p])
                   \/ /\ k = m /\ p = build_partition_route(get_topic(m), s, hash)
                      /\ log'[k][p][i] = [s |-> s, at |-> now - d]
  <1> DEFINE route == build_partition_route(get_topic(m), s, hash)
             new == [s |-> s, at |-> now - d]
  <1> HIDE DEF route
  <1>1. new \in Record
    BY DEF Arrive, Record
  <1> HIDE DEF new
  <1>2. log' = [log EXCEPT ![m] = [log[m] EXCEPT ![route] = Append(log[m][route], new)]]
    BY DEF Arrive, route, new
  <1>3. \A k \in Markets, p \in Partitions : log[k][p] \in Seq(Record)
    BY DEF Logs
  <1>4. \A k \in Markets, p \in Partitions :
          log'[k][p] = IF k = m /\ p = route THEN Append(log[k][p], new) ELSE log[k][p]
    BY <1>2 DEF Logs
  <1>5. log' \in Logs
    <2>1. DOMAIN log' = Markets /\ \A k \in Markets : DOMAIN log'[k] = Partitions
      BY <1>2 DEF Logs
    <2>2. ASSUME NEW k \in Markets, NEW p \in Partitions
          PROVE  log'[k][p] \in Seq(Record)
      <3>1. log[k][p] \in Seq(Record)
        BY <1>3
      <3>2. Append(log[k][p], new) \in Seq(Record)
        BY <1>1, <3>1
      <3>3. QED
        BY <1>4, <3>1, <3>2
    <2>3. \A k \in Markets : log'[k] \in [Partitions -> Seq(Record)]
      <3>1. \A k \in Markets : log'[k] = [p \in Partitions |-> log'[k][p]]
        BY <1>2 DEF Logs
      <3>2. QED
        BY <2>1, <2>2, <3>1
    <2>4. log' = [k \in Markets |-> log'[k]]
      BY <1>2 DEF Logs
    <2>5. QED
      BY <2>3, <2>4 DEF Logs
  <1>6. ASSUME NEW k \in Markets, NEW p \in Partitions
        PROVE  /\ Len(log'[k][p]) \in Nat /\ Len(log'[k][p]) >= Len(log[k][p])
               /\ \A i \in 1..Len(log[k][p]) : log'[k][p][i] = log[k][p][i]
               /\ \A i \in 1..Len(log'[k][p]) :
                    \/ i \in 1..Len(log[k][p])
                    \/ k = m /\ p = route /\ log'[k][p][i] = new
    <2>1. log[k][p] \in Seq(Record) /\ Len(log[k][p]) \in Nat
      BY <1>3
    <2>2. CASE k = m /\ p = route
      <3>1. log'[k][p] = Append(log[k][p], new)
        BY <1>4, <2>2
      <3>2. /\ Len(log'[k][p]) = Len(log[k][p]) + 1 /\ log'[k][p][Len(log[k][p]) + 1] = new
            /\ \A i \in 1..Len(log[k][p]) : log'[k][p][i] = log[k][p][i]
        BY <1>1, <2>1, <3>1
      <3>3. ASSUME NEW i \in 1..Len(log'[k][p])
            PROVE  i \in 1..Len(log[k][p]) \/ log'[k][p][i] = new
        <4>1. i \in 1..Len(log[k][p]) \/ i = Len(log[k][p]) + 1
          BY <2>1, <3>2
        <4>2. QED
          BY <3>2, <4>1
      <3>4. Len(log'[k][p]) \in Nat /\ Len(log'[k][p]) >= Len(log[k][p])
        BY <2>1, <3>2
      <3>5. QED
        BY <2>2, <3>2, <3>3, <3>4
    <2>3. CASE ~(k = m /\ p = route)
      BY <1>4, <2>1, <2>3
    <2>4. QED
      BY <2>2, <2>3
  <1>7. QED
    BY <1>5, <1>6 DEF route, new

(* Time passes and the log grows by whole records, placed in the span of   *)
(* their symbol.                                                           *)
LogInv ==
  /\ now \in 0..MaxTime /\ log \in Logs
  /\ Len(RoutingSymbols) <= Cardinality(Partitions) =>
       \A m \in Markets, p \in Partitions : \A i \in 1..Len(log[m][p]) : p \in Hosts(log[m][p][i].s)

LEMMA LogStep == LogInv /\ [Next]_vars => LogInv'
  <1> SUFFICES ASSUME LogInv, [Next]_vars PROVE LogInv'
    OBVIOUS
  <1>1. ASSUME log' = log, now' \in 0..MaxTime PROVE LogInv'
    BY <1>1 DEF LogInv, Logs, Record
  <1>2. ASSUME NEW a \in Arrivals, NEW hash \in Hashes, Arrive(a[1], a[2], a[3], hash) PROVE LogInv'
    <2>1. a[1] \in Markets /\ a[2] \in Symbols /\ a[3] \in Int /\ hash \in Nat
      BY StreamAssumption
    <2>2. /\ log' \in Logs
          /\ \A k \in Markets, p \in Partitions : \A i \in 1..Len(log'[k][p]) :
               \/ i \in 1..Len(log[k][p]) /\ log'[k][p][i] = log[k][p][i]
               \/ /\ p = build_partition_route(get_topic(a[1]), a[2], hash)
                  /\ log'[k][p][i] = [s |-> a[2], at |-> now - a[3]]
      BY <1>2, <2>1, LogAppended DEF LogInv
    <2>3. ASSUME Len(RoutingSymbols) <= Cardinality(Partitions)
          PROVE  build_partition_route(get_topic(a[1]), a[2], hash) \in Hosts(a[2])
      BY <2>1, <2>3, RouteInSpan
    <2>4. ASSUME Len(RoutingSymbols) <= Cardinality(Partitions),
                 NEW k \in Markets, NEW p \in Partitions, NEW i \in 1..Len(log'[k][p])
          PROVE  p \in Hosts(log'[k][p][i].s)
      <3>1. CASE i \in 1..Len(log[k][p]) /\ log'[k][p][i] = log[k][p][i]
        BY <2>4, <3>1 DEF LogInv
      <3>2. CASE /\ p = build_partition_route(get_topic(a[1]), a[2], hash)
                 /\ log'[k][p][i] = [s |-> a[2], at |-> now - a[3]]
        BY <2>3, <2>4, <3>2
      <3>3. QED
        BY <2>2, <3>1, <3>2
    <2>5. now' = now
      BY <1>2 DEF Arrive
    <2>6. QED
      BY <2>2, <2>4, <2>5 DEF LogInv, Hosts
  <1>3. now \in 0..MaxTime
    BY DEF LogInv
  <1>4. Tick => log' = log /\ now' \in 0..MaxTime
    BY <1>3, StreamAssumption DEF Tick
  <1>5. QED
    BY <1>1, <1>2, <1>3, <1>4
    DEF Next, vars, Start, Plan, Write, WriteDeadLetter, LateInsertEnds, WriteRaises, Commit, Crash

LEMMA LogInit == Init => LogInv
  <1> SUFFICES ASSUME Init PROVE LogInv
    OBVIOUS
  <1>1. log \in Logs
    BY DEF Init, Logs
  <1>2. \A m \in Markets, p \in Partitions : Len(log[m][p]) = 0
    BY DEF Init
  <1>3. QED
    BY <1>1, <1>2, StreamAssumption DEF LogInv, Init

(* A place of the log holds a record.                                      *)
LEMMA TradeIsRecord ==
  ASSUME LogInv, NEW t \in InLog
  PROVE  t \in Places /\ Trade(t) \in Record /\ t[3] \in 1..Len(log[t[1]][t[2]])
  <1>1. t \in Places /\ t[1] \in Markets /\ t[2] \in Partitions /\ t[3] \in Nat /\ t[3] >= 1
        /\ t[3] <= Len(log[t[1]][t[2]])
    BY StreamAssumption DEF InLog, Places
  <1>2. log[t[1]][t[2]] \in Seq(Record)
    BY <1>1 DEF LogInv, Logs
  <1>3. QED
    BY <1>1, <1>2 DEF Trade

(* With a partition for every symbol, the spans of config.py keep symbols  *)
(* apart: however lanes are overridden and whatever the hashes, no         *)
(* partition of a trade topic gets records of two symbols.                 *)
THEOREM SymbolsKeptApart == Spec => []OnePartitionOneSymbol
  <1>1. LogInv => OnePartitionOneSymbol
    <2> SUFFICES ASSUME LogInv, Len(RoutingSymbols) <= Cardinality(Partitions),
                        NEW t \in InLog, NEW u \in InLog, t[1] = u[1], t[2] = u[2]
                 PROVE  Trade(t).s = Trade(u).s
      BY DEF OnePartitionOneSymbol
    <2>1. /\ Trade(t) \in Record /\ t \in Places /\ t[3] \in 1..Len(log[t[1]][t[2]])
          /\ Trade(u) \in Record /\ u \in Places /\ u[3] \in 1..Len(log[u[1]][u[2]])
      BY TradeIsRecord
    <2>2. t[1] \in Markets /\ t[2] \in Partitions
      BY <2>1 DEF Places
    <2>3. t[2] \in Hosts(Trade(t).s) /\ t[2] \in Hosts(Trade(u).s)
      BY <2>1, <2>2 DEF LogInv, Trade
    <2>4. Trade(t).s \in Symbols /\ Trade(u).s \in Symbols
      BY <2>1 DEF Record
    <2>5. QED
      BY <2>3, <2>4, HostsDisjoint
  <1>2. QED
    BY <1>1, LogInit, LogStep, PTL DEF Spec

-----------------------------------------------------------------------------
(* Offsets and limits.                                                     *)

Offsets == [Markets -> [Partitions -> Nat]]

(* The offsets o are in the log.                                           *)
Inside(o) == o \in Offsets /\ \A m \in Markets, p \in Partitions : o[m][p] <= Len(log[m][p])

LEMMA PlacesFinite == IsFiniteSet(Places)
  <1> DEFINE pairs == (Markets \X Partitions) \X (1..MaxTrades)
             f == [x \in pairs |-> <<x[1][1], x[1][2], x[2]>>]
  <1>1. IsFiniteSet(Markets)
    <2>1. IsFiniteSet({"futures"}) /\ IsFiniteSet({"spot"})
      BY FS_Singleton
    <2>2. Markets = {"futures"} \cup {"spot"}
      BY DEF Markets
    <2>3. QED
      BY <2>1, <2>2, FS_Union
  <1>2. IsFiniteSet(Partitions)
    <2>1. Cardinality(Partitions) \in Nat /\ get_topic_partition_count("binance-trade") \in Nat
      <3>1. "futures" \in Markets /\ get_topic("futures") = "binance-trade"
        BY DEF Markets, get_topic
      <3>2. QED
        BY <3>1, HotCount
    <2>2. QED
      BY <2>1, FS_Interval DEF Partitions
  <1>3. IsFiniteSet(1..MaxTrades)
    BY StreamAssumption, FS_Interval
  <1>4. IsFiniteSet(pairs)
    <2>1. IsFiniteSet(Markets \X Partitions)
      BY <1>1, <1>2, FS_Product
    <2>2. QED
      BY <1>3, <2>1, FS_Product
  <1>5. f \in Surjection(pairs, Places)
    <2>1. f \in [pairs -> Places]
      BY DEF Places
    <2>2. ASSUME NEW t \in Places PROVE \E x \in pairs : f[x] = t
      <3>1. <<<<t[1], t[2]>>, t[3]>> \in pairs /\ t = <<t[1], t[2], t[3]>>
        BY DEF Places
      <3>2. f[<<<<t[1], t[2]>>, t[3]>>] = t
        BY <3>1
      <3>3. QED
        BY <3>1, <3>2
    <2>3. QED
      BY <2>1, <2>2 DEF Surjection
  <1>6. QED
    BY <1>4, <1>5, FS_Surjection

(* While there is room for a trade, no partition is full.                  *)
LEMMA Room ==
  ASSUME log \in Logs, Cardinality(InLog) < MaxTrades, NEW m \in Markets, NEW p \in Partitions
  PROVE  Len(log[m][p]) < MaxTrades
  <1> SUFFICES ASSUME Len(log[m][p]) >= MaxTrades PROVE FALSE
    <2>1. Len(log[m][p]) \in Nat /\ MaxTrades \in Nat
      BY StreamAssumption DEF Logs
    <2>2. QED
      BY <2>1
  <1> DEFINE f == [i \in 1..MaxTrades |-> <<m, p, i>>]
  <1>1. Len(log[m][p]) \in Nat /\ MaxTrades \in Nat
    BY StreamAssumption DEF Logs
  <1>2. ASSUME NEW i \in 1..MaxTrades PROVE <<m, p, i>> \in InLog
    <2>1. <<m, p, i>> \in Places /\ i <= Len(log[m][p])
      BY <1>1 DEF Places
    <2>2. QED
      BY <2>1 DEF InLog
  <1>3. f \in Injection(1..MaxTrades, InLog)
    <2>1. f \in [1..MaxTrades -> InLog]
      BY <1>2
    <2>2. \A i, j \in 1..MaxTrades : f[i] = f[j] => i = j
      OBVIOUS
    <2> HIDE DEF f
    <2>3. QED
      BY <2>1, <2>2 DEF Injection, IsInjective
  <1>4. IsFiniteSet(InLog)
    BY PlacesFinite, FS_Subset DEF InLog
  <1>5. Cardinality(1..MaxTrades) <= Cardinality(InLog)
    BY <1>3, <1>4, FS_Injection
  <1>6. Cardinality(1..MaxTrades) = MaxTrades
    BY <1>1, FS_Interval
  <1>7. Cardinality(InLog) \in Nat
    BY <1>4, FS_CardinalityType
  <1>8. QED
    BY <1>1, <1>5, <1>6, <1>7

LEMMA UnreadCount ==
  ASSUME NEW m \in Markets, NEW o
  PROVE  IsFiniteSet(Unread(m, o)) /\ Cardinality(Unread(m, o)) \in Nat
  <1>1. Unread(m, o) \subseteq Places
    BY DEF Unread, Places
  <1>2. QED
    BY <1>1, PlacesFinite, FS_Subset, FS_CardinalityType

(* The limit of a query is positive, whatever lag it finds.                *)
LEMMA LimitPositive ==
  ASSUME NEW m \in Markets, NEW answers
  PROVE  _get_optimal_max_offsets(m, answers) \in Nat \ {0}
  <1>1. MaxOffsets[m] \in Nat \ {0}
    BY StreamAssumption
  <1>2. ASSUME NEW lag \in Nat PROVE _lag_to_max_offsets(lag, MaxOffsets[m]) \in Nat \ {0}
    <2> DEFINE above == {step \in LagSteps : lag > step[1]}
               lags == {step[1] : step \in above}
    <2>1. CASE above = {}
      BY <1>1, <2>1 DEF _lag_to_max_offsets
    <2>2. CASE above # {}
      <3>1. \A step \in above : step[1] \in Nat /\ step[2] \in Nat \ {0} /\ step[1] <= lag
        BY StreamAssumption
      <3>2. lags \in SUBSET Int /\ lags # {} /\ \A l \in lags : l <= lag
        BY <2>2, <3>1
      <3>3. \E l \in lags : \A k \in lags : l >= k
        <4>1. lag \in Int
          OBVIOUS
        <4> HIDE DEF lags
        <4>2. QED
          BY <3>2, <4>1, Greatest
      <3>4. \E step \in above : \A other \in above : step[1] >= other[1]
        BY <3>3
      <3>5. (CHOOSE step \in above : \A other \in above : step[1] >= other[1]) \in above
        BY <3>4
      <3>6. (CHOOSE step \in above : \A other \in above : step[1] >= other[1])[2] \in Nat \ {0}
        BY <3>1, <3>5
      <3>7. QED
        BY <2>2, <3>6 DEF _lag_to_max_offsets
    <2>3. QED
      BY <2>1, <2>2
  <1>3. \A o : Cardinality(Unread(m, o)) \in Nat
    BY UnreadCount
  <1>4. QED
    BY <1>1, <1>2, <1>3 DEF _get_optimal_max_offsets

(* What is left of the log after the committed offsets contains the batch. *)
LEMMA EndsInside ==
  ASSUME log \in Logs, Inside(offsets), limit \in [Markets -> Nat \ {0}],
         \A m \in Markets, p \in Partitions : Len(log[m][p]) <= MaxTrades,
         NEW m \in Markets, NEW p \in Partitions
  PROVE  /\ EndsWithin(m)[p] \in Nat /\ EndsWithin(m)[p] >= offsets[m][p]
         /\ EndsWithin(m)[p] <= Len(log[m][p])
  <1> DEFINE size == Len(log[m][p]) - offsets[m][p]
             lag == Cardinality(Unread(m, offsets))
  <1>1. Len(log[m][p]) \in Nat /\ offsets[m][p] \in Nat /\ offsets[m][p] <= Len(log[m][p])
    BY DEF Logs, Inside, Offsets
  <1>2. size \in Nat
    BY <1>1
  <1>3. lag \in Nat
    BY UnreadCount
  <1>4. CASE size = 0
    BY <1>1, <1>4 DEF EndsWithin
  <1>5. CASE size # 0
    <2>1. <<m, p, offsets[m][p] + 1>> \in Unread(m, offsets)
      <3>1. offsets[m][p] + 1 \in (offsets[m][p] + 1)..Len(log[m][p])
        BY <1>1, <1>5
      <3>2. offsets[m][p] + 1 \in 1..MaxTrades
        <4>1. Len(log[m][p]) <= MaxTrades /\ MaxTrades \in Nat
          BY StreamAssumption
        <4>2. QED
          BY <1>1, <3>1, <4>1
      <3>3. QED
        BY <3>1, <3>2 DEF Unread
    <2>2. lag # 0
      BY <2>1, UnreadCount, FS_EmptySet
    <2>3. limit[m] \in Nat
      OBVIOUS
    <2>4. limit[m] * size \in Nat
      BY <1>2, <2>3
    <2>5. (limit[m] * size) \div lag \in Nat
      <3> HIDE DEF size, lag
      <3> DEFINE x == limit[m] * size
      <3>1. x \in Nat
        BY <2>4
      <3> HIDE DEF x
      <3>2. x \div lag \in Nat
        BY <1>3, <2>2, <3>1
      <3>3. QED
        BY <3>2 DEF x
    <2>6. EndsWithin(m)[p] = offsets[m][p] + AtMost(AtLeast((limit[m] * size) \div lag, 1), size)
      BY <1>5 DEF EndsWithin
    <2>7. AtMost(AtLeast((limit[m] * size) \div lag, 1), size) \in 1..size
      <3> DEFINE y == (limit[m] * size) \div lag
      <3>1. y \in Nat
        BY <2>5
      <3> HIDE DEF y, size, lag
      <3>2. AtMost(AtLeast(y, 1), size) \in 1..size
        BY <1>2, <1>5, <3>1 DEF AtMost, AtLeast
      <3>3. QED
        BY <3>2 DEF y
    <2>8. QED
      BY <1>1, <2>6, <2>7
  <1>6. QED
    BY <1>4, <1>5

-----------------------------------------------------------------------------
(* Type correctness.                                                       *)

(* How far the query is: nothing beyond the log is committed or planned, a *)
(* batch begins where the last one ended and keeps the watermark it was    *)
(* planned with, and there is no watermark before the first start.         *)
FlowInv ==
  /\ \A m \in Markets, p \in Partitions : Len(log[m][p]) <= MaxTrades
  /\ watermark \in Nat /\ (offsets = NoOffsets => watermark = 0)
  /\ offsets = NoOffsets \/ Inside(offsets)
  /\ up => Inside(offsets)
  /\ written => plan # NoPlan
  /\ plan # NoPlan => /\ Inside(offsets) /\ Inside(plan.ends)
                      /\ \A m \in Markets, p \in Partitions : offsets[m][p] <= plan.ends[m][p]
                      /\ plan.at <= now /\ plan.watermark = watermark
  /\ dropped \subseteq InLog

TypeInv == TypeOK /\ LogInv /\ FlowInv

(* What a step does to the log.                                            *)
LEMMA ArriveKeeps ==
  ASSUME TypeInv, NEW a \in Arrivals, NEW hash \in Hashes, Arrive(a[1], a[2], a[3], hash)
  PROVE  /\ log' \in Logs /\ now' = now
         /\ \A m \in Markets, p \in Partitions :
              Len(log'[m][p]) <= MaxTrades /\ Len(log'[m][p]) >= Len(log[m][p])
         /\ \A t \in InLog : t \in InLog' /\ Trade(t)' = Trade(t)
  <1>1. a[1] \in Markets /\ a[2] \in Symbols /\ a[3] \in Int /\ hash \in Nat
    BY StreamAssumption
  <1>2. log \in Logs /\ now \in 0..MaxTime
    BY DEF TypeInv, LogInv
  <1>3. /\ log' \in Logs
        /\ \A k \in Markets, p \in Partitions :
             /\ Len(log'[k][p]) \in Nat /\ Len(log'[k][p]) >= Len(log[k][p])
             /\ \A i \in 1..Len(log[k][p]) : log'[k][p][i] = log[k][p][i]
             /\ \A i \in 1..Len(log'[k][p]) :
                  i \in 1..Len(log[k][p]) \/ log'[k][p][i] = [s |-> a[2], at |-> now - a[3]]
    BY <1>1, <1>2, LogAppended
  <1>4. now' = now
    BY DEF Arrive
  <1>5. ASSUME NEW m \in Markets, NEW p \in Partitions
        PROVE  Len(log'[m][p]) <= MaxTrades
    <2>1. Len(log[m][p]) < MaxTrades
      BY <1>2, Room DEF Arrive
    <2>2. Len(log[m][p]) \in Nat /\ MaxTrades \in Nat
      BY <1>2, StreamAssumption DEF Logs
    <2>3. Len(log'[m][p]) <= Len(log[m][p]) + 1
      <3> DEFINE r == build_partition_route(get_topic(a[1]), a[2], hash)
                 new == [s |-> a[2], at |-> now - a[3]]
      <3> HIDE DEF r, new
      <3>1. log' = [log EXCEPT ![a[1]] = [log[a[1]] EXCEPT ![r] = Append(log[a[1]][r], new)]]
        BY DEF Arrive, r, new
      <3>2. log'[m][p] = log[m][p] \/ log'[m][p] = Append(log[m][p], new)
        BY <3>1, <1>1, <1>2 DEF Logs
      <3>3. log[m][p] \in Seq(Record)
        BY <1>2 DEF Logs
      <3>4. CASE log'[m][p] = Append(log[m][p], new)
        <4>1. Len(Append(log[m][p], new)) = Len(log[m][p]) + 1
          BY <3>3
        <4>2. QED
          BY <4>1, <3>4, <2>2
      <3>5. QED
        BY <2>2, <3>2, <3>4
    <2>4. QED
      BY <1>3, <2>1, <2>2, <2>3
  <1>6. ASSUME NEW t \in InLog PROVE t \in InLog' /\ Trade(t)' = Trade(t)
    <2>1. t \in Places /\ t[3] \in 1..Len(log[t[1]][t[2]])
      BY TradeIsRecord DEF TypeInv
    <2>2. t[1] \in Markets /\ t[2] \in Partitions
      BY <2>1 DEF Places
    <2>3. /\ log'[t[1]][t[2]][t[3]] = log[t[1]][t[2]][t[3]]
          /\ Len(log'[t[1]][t[2]]) \in Nat /\ Len(log'[t[1]][t[2]]) >= Len(log[t[1]][t[2]])
      BY <1>3, <2>1, <2>2
    <2>4. Len(log[t[1]][t[2]]) \in Nat
      BY <1>2, <2>2 DEF Logs
    <2>5. t[3] <= Len(log'[t[1]][t[2]])
      BY <2>1, <2>3, <2>4
    <2>6. QED
      BY <2>1, <2>3, <2>5 DEF InLog, Trade
  <1>7. QED
    BY <1>3, <1>4, <1>5, <1>6

(* A batch is in the log.                                                  *)
LEMMA BatchInLog ==
  ASSUME TypeInv, plan # NoPlan
  PROVE  Batch \subseteq InLog
  <1> SUFFICES ASSUME NEW t \in Batch PROVE t \in InLog
    OBVIOUS
  <1>1. t \in Places /\ t[3] \in (offsets[t[1]][t[2]] + 1)..plan.ends[t[1]][t[2]]
    BY DEF Batch
  <1>2. t[1] \in Markets /\ t[2] \in Partitions /\ t[3] \in Nat
    BY <1>1, StreamAssumption DEF Places
  <1>3. /\ Inside(offsets) /\ Inside(plan.ends) /\ log \in Logs
    BY DEF TypeInv, FlowInv, LogInv
  <1>4. /\ offsets[t[1]][t[2]] \in Nat /\ plan.ends[t[1]][t[2]] \in Nat
        /\ plan.ends[t[1]][t[2]] <= Len(log[t[1]][t[2]]) /\ Len(log[t[1]][t[2]]) \in Nat
    BY <1>2, <1>3 DEF Inside, Offsets, Logs
  <1>5. t[3] <= Len(log[t[1]][t[2]])
    BY <1>1, <1>2, <1>4
  <1>6. QED
    BY <1>1, <1>5 DEF InLog

(* A window begins within the times there are and ends after its trades.   *)
LEMMA KeyOfTrade ==
  ASSUME LogInv, NEW t \in InLog
  PROVE  Key(t) \in Keys /\ WindowEnd(t) \in Int /\ WindowEnd(t) > Trade(t).at
  <1>1. Trade(t).at \in 0..MaxStamp /\ Trade(t).s \in Symbols
    BY TradeIsRecord DEF Record
  <1>2. WindowDuration \in Nat \ {0} /\ MaxStamp \in Nat
    BY StreamAssumption
  <1> DEFINE at == Trade(t).at
  <1> HIDE DEF at
  <1>3. at % WindowDuration \in 0..(WindowDuration - 1) /\ at % WindowDuration <= at
    BY <1>1, <1>2 DEF at
  <1>4. at - (at % WindowDuration) \in 0..MaxStamp /\ at - (at % WindowDuration) + WindowDuration > at
    BY <1>1, <1>2, <1>3 DEF at
  <1>5. QED
    BY <1>1, <1>2, <1>4 DEF Key, Keys, WindowEnd, at

(* The new watermark is the old one or that of a trade, and no smaller.    *)
LEMMA NextWatermark ==
  ASSUME LogInv, watermark \in Nat, NEW S \in SUBSET InLog
  PROVE  /\ Watermark(S) \in Nat /\ Watermark(S) >= watermark
         /\ Watermark(S) = watermark \/ \E t \in S : Watermark(S) = Trade(t).at - WatermarkDelay
  <1> DEFINE W == {watermark} \cup {Trade(t).at - WatermarkDelay : t \in S}
  <1>1. \A t \in S : Trade(t).at \in 0..MaxStamp
    BY TradeIsRecord DEF Record
  <1>2. MaxStamp \in Nat /\ WatermarkDelay \in Nat
    BY StreamAssumption
  <1>3. W \in SUBSET Int /\ W # {} /\ \A w \in W : w <= watermark + MaxStamp
    BY <1>1, <1>2
  <1>4. PICK w \in W : \A v \in W : w >= v
    <2>1. watermark + MaxStamp \in Int
      BY <1>2
    <2> HIDE DEF W
    <2>2. QED
      BY <1>3, <2>1, Greatest
  <1>5. w >= watermark /\ \A t \in S : w >= Trade(t).at - WatermarkDelay
    BY <1>4
  <1>6. Watermark(S) \in W /\ Watermark(S) >= watermark
    BY <1>4, <1>5 DEF Watermark
  <1>7. Watermark(S) \in Int
    BY <1>3, <1>6
  <1>8. QED
    BY <1>6, <1>7

(* The totals of a batch are numbers.                                      *)
LEMMA TotalsType ==
  ASSUME TypeOK
  PROVE  aggregate \in [Keys -> [Markets -> Nat]]
  <1>1. OnTime \subseteq Places
    BY DEF OnTime, prepare_for_aggregate, Batch
  <1>2. ASSUME NEW k \in Keys, NEW m \in Markets
        PROVE  totals[k][m] + Cardinality({t \in OnTime : Key(t) = k /\ t[1] = m}) \in Nat
    <2>1. {t \in OnTime : Key(t) = k /\ t[1] = m} \in SUBSET Places
      BY <1>1
    <2>2. Cardinality({t \in OnTime : Key(t) = k /\ t[1] = m}) \in Nat
      BY <2>1, PlacesFinite, FS_Subset, FS_CardinalityType
    <2>3. totals[k][m] \in Nat
      BY DEF TypeOK
    <2>4. QED
      BY <2>2, <2>3
  <1>3. QED
    BY <1>2 DEF aggregate

(* The inserts there may be.                                               *)
Inserts == [n : Nat, keys : SUBSET Keys, rows : [Keys -> [Markets -> Nat]]]

(* What a batch writes.                                                    *)
LEMMA OutputType ==
  ASSUME TypeInv, plan # NoPlan
  PROVE  Touched \subseteq Keys /\ Output \in [Keys -> [Markets -> Nat]]
  <1>1. Touched \subseteq Keys
    <2>1. OnTime \subseteq InLog
      BY BatchInLog DEF OnTime, prepare_for_aggregate
    <2>2. QED
      BY <2>1, KeyOfTrade DEF Touched, TypeInv
  <1>2. \A k \in Keys : aggregate[k] \in [Markets -> Nat] /\ table[k] \in [Markets -> Nat]
    BY TotalsType DEF TypeInv, TypeOK
  <1>3. QED
    BY <1>1, <1>2 DEF Output

(* What an insert that fails for the client leaves behind.                 *)
LEMMA FailedInsertType ==
  ASSUME TypeInv, NEW effect, FailedInsert(effect)
  PROVE  table' \in [Keys -> [Markets -> Nat]] /\ inflight' \subseteq Inserts
  <1>1. table \in [Keys -> [Markets -> Nat]] /\ inflight \subseteq Inserts /\ faults + crashes \in Nat
    BY DEF TypeInv, TypeOK, Inserts
  <1>2. CASE effect = "applied"
    BY <1>1, <1>2, OutputType DEF FailedInsert
  <1>3. CASE effect = "running"
    <2>1. plan # NoPlan /\ inflight' = inflight \cup {[n |-> faults + crashes, keys |-> Touched, rows |-> aggregate]}
          /\ table' = table
      BY <1>3 DEF FailedInsert
    <2>2. Touched \subseteq Keys /\ aggregate \in [Keys -> [Markets -> Nat]]
      BY <2>1, OutputType, TotalsType DEF TypeInv
    <2>3. [n |-> faults + crashes, keys |-> Touched, rows |-> aggregate] \in Inserts
      BY <1>1, <2>2 DEF Inserts
    <2>4. QED
      BY <1>1, <2>1, <2>3
  <1>4. CASE effect # "applied" /\ effect # "running"
    BY <1>1, <1>4 DEF FailedInsert
  <1>5. QED
    BY <1>2, <1>3, <1>4

LEMMA TypeInit == Init => TypeInv
  <1> SUFFICES ASSUME Init PROVE TypeInv
    OBVIOUS
  <1>1. LogInv
    BY LogInit
  <1>2. Nowhere \in Offsets /\ NoTotals \in [Keys -> [Markets -> Nat]]
    BY DEF Nowhere, Offsets, NoTotals
  <1>3. up \in BOOLEAN /\ written \in BOOLEAN
    BY DEF Init
  <1>4. limit \in [Markets -> Nat \ {0}] /\ log \in Logs /\ now \in 0..MaxTime
    BY <1>1, StreamAssumption DEF Init, LogInv
  <1>5. TypeOK
    BY <1>2, <1>3, <1>4 DEF Init, TypeOK, Logs, Record, Offsets
  <1>6. \A m \in Markets, p \in Partitions : Len(log[m][p]) = 0
    BY DEF Init
  <1>7. \A m \in Markets, p \in Partitions : Len(log[m][p]) <= MaxTrades
    BY <1>6, StreamAssumption
  <1>8. FlowInv
    BY <1>7 DEF Init, FlowInv
  <1>9. QED
    BY <1>1, <1>5, <1>8 DEF TypeInv

(* The log that Arrive leaves behind contains what the old one contained.  *)
LEMMA StillInside ==
  ASSUME log \in Logs, log' \in Logs, NEW o, Inside(o),
         \A m \in Markets, p \in Partitions : Len(log'[m][p]) >= Len(log[m][p])
  PROVE  o \in Offsets /\ \A m \in Markets, p \in Partitions : o[m][p] <= Len(log'[m][p])
  <1> SUFFICES ASSUME NEW m \in Markets, NEW p \in Partitions PROVE o[m][p] <= Len(log'[m][p])
    BY DEF Inside
  <1>1. o[m][p] \in Nat /\ o[m][p] <= Len(log[m][p])
    BY DEF Inside, Offsets
  <1>2. Len(log[m][p]) \in Nat /\ Len(log'[m][p]) \in Nat
    BY DEF Logs
  <1>3. QED
    BY <1>1, <1>2

LEMMA TypeStep == TypeInv /\ [Next]_vars => TypeInv'
  <1> SUFFICES ASSUME TypeInv, [Next]_vars PROVE TypeInv'
    OBVIOUS
  <1>0. TypeOK /\ LogInv /\ FlowInv /\ LogInv'
    BY LogStep DEF TypeInv
  <1>1. now \in Nat /\ now' \in 0..MaxTime /\ log \in Logs /\ log' \in Logs
    BY <1>0 DEF LogInv
  <1>2. ASSUME UNCHANGED vars PROVE TypeInv'
    <2>1. TypeOK'
      BY <1>0, <1>2 DEF TypeOK, vars, checkpoint, history
    <2>2. FlowInv'
      BY <1>0, <1>2 DEF FlowInv, Inside, InLog, vars, checkpoint, history
    <2>3. QED
      BY <1>0, <2>1, <2>2 DEF TypeInv
  <1>3. ASSUME Tick PROVE TypeInv'
    <2>1. now' = now + 1 /\ UNCHANGED <<log, checkpoint, plan, table, inflight, stale, up, limit, written,
                                       history, faults, crashes>>
      BY <1>3 DEF Tick
    <2>2. TypeOK'
      BY <1>0, <1>1, <2>1 DEF TypeOK, checkpoint, history
    <2>3. \A x \in Int : x <= now => x <= now'
      BY <1>1, <2>1
    <2>5. plan # NoPlan => plan.at <= now'
      <3>1. plan # NoPlan => plan.at \in Int
        BY <1>0 DEF TypeOK
      <3>2. QED
        BY <1>0, <2>3, <3>1 DEF FlowInv
    <2>6. FlowInv'
      BY <1>0, <2>1, <2>5 DEF FlowInv, Inside, InLog, checkpoint, history
    <2>7. QED
      BY <1>0, <2>2, <2>6 DEF TypeInv
  <1>4. ASSUME NEW a \in Arrivals, NEW hash \in Hashes, Arrive(a[1], a[2], a[3], hash) PROVE TypeInv'
    <2>1. UNCHANGED <<now, checkpoint, plan, table, inflight, stale, up, limit, written, history, faults, crashes>>
      BY <1>4 DEF Arrive
    <2>2. /\ \A m \in Markets, p \in Partitions :
               Len(log'[m][p]) <= MaxTrades /\ Len(log'[m][p]) >= Len(log[m][p])
          /\ \A t \in InLog : t \in InLog'
      BY <1>4, ArriveKeeps
    <2>3. TypeOK'
      BY <1>0, <1>1, <2>1 DEF TypeOK, Logs, Record, checkpoint, history
    <2>4. \A o : Inside(o) => o \in Offsets /\ \A m \in Markets, p \in Partitions : o[m][p] <= Len(log'[m][p])
      BY <1>1, <2>2, StillInside
    <2>5. Inside(offsets) => Inside(offsets)'
      BY <2>1, <2>4 DEF Inside, checkpoint
    <2>6. plan # NoPlan => Inside(plan.ends)'
      BY <1>0, <2>1, <2>4 DEF Inside, FlowInv
    <2>7. dropped' \subseteq InLog'
      BY <1>0, <2>1, <2>2 DEF FlowInv, history
    <2>8. FlowInv'
      BY <1>0, <2>1, <2>2, <2>5, <2>6, <2>7 DEF FlowInv, checkpoint, history
    <2>9. QED
      BY <1>0, <2>3, <2>8 DEF TypeInv
  <1>5. ASSUME NEW answers \in BOOLEAN, Start(answers) PROVE TypeInv'
    <2>1. /\ up' = TRUE /\ UNCHANGED <<now, log, plan, totals, watermark, table, inflight, stale, written>>
          /\ UNCHANGED <<history, faults, crashes>>
      BY <1>5 DEF Start
    <2>2. Inside(Ends)
      <3>1. Ends \in Offsets
        BY <1>1 DEF Ends, Offsets, Logs
      <3>2. \A m \in Markets, p \in Partitions : Ends[m][p] = Len(log[m][p]) /\ Len(log[m][p]) \in Nat
        BY <1>1 DEF Ends, Logs
      <3>3. QED
        BY <3>1, <3>2 DEF Inside
    <2>3. \/ UNCHANGED <<first, offsets>> /\ offsets # NoOffsets
          \/ offsets = NoOffsets /\ first' = Ends /\ offsets' = Ends
      BY <1>5 DEF Start
    <2>4. Inside(offsets)' /\ first' \in Offsets /\ offsets' \in Offsets
      BY <1>0, <2>1, <2>2, <2>3 DEF Inside, FlowInv, TypeOK, Offsets
    <2>5. limit' \in [Markets -> Nat \ {0}]
      BY <1>5, LimitPositive DEF Start
    <2>6. up' \in BOOLEAN
      BY <2>1
    <2>7. TypeOK'
      BY <1>0, <2>1, <2>4, <2>5, <2>6 DEF TypeOK, Offsets, history
    <2>8. plan # NoPlan => offsets # NoOffsets \/ Inside(NoOffsets)
      BY <1>0 DEF FlowInv
    <2>9. ~Inside(NoOffsets)
      <3>1. NoOffsets \notin Offsets
        <4>1. DOMAIN NoOffsets = {}
          BY DEF NoOffsets
        <4>2. \A o \in Offsets : DOMAIN o = Markets
          BY DEF Offsets
        <4>3. Markets # {}
          BY DEF Markets
        <4>4. QED
          BY <4>1, <4>2, <4>3
      <3>2. QED
        BY <3>1 DEF Inside
    <2>10. plan # NoPlan => offsets' = offsets
      BY <2>3, <2>8, <2>9
    <2>11. offsets' # NoOffsets
      BY <2>1, <2>4, <2>9 DEF Inside
    <2>12. plan # NoPlan => Inside(plan.ends)'
      BY <1>0, <2>1 DEF FlowInv, Inside
    <2>13. FlowInv'
      BY <1>0, <2>1, <2>4, <2>10, <2>11, <2>12 DEF FlowInv, InLog, history
    <2>14. QED
      BY <1>0, <2>7, <2>13 DEF TypeInv
  <1>6. ASSUME Plan PROVE TypeInv'
    <2>1. /\ up /\ UNCHANGED <<now, log, checkpoint, table, inflight, stale, up, limit, written, history, faults, crashes>>
          /\ plan' = [ends |-> [m \in Markets |-> EndsWithin(m)], at |-> now, watermark |-> watermark]
      BY <1>6 DEF Plan
    <2>2. Inside(offsets) /\ limit \in [Markets -> Nat \ {0}]
      BY <1>0, <2>1 DEF FlowInv, TypeOK
    <2>3. \A m \in Markets, p \in Partitions :
            /\ EndsWithin(m)[p] \in Nat /\ EndsWithin(m)[p] >= offsets[m][p]
            /\ EndsWithin(m)[p] <= Len(log[m][p])
      BY <1>0, <1>1, <2>2, EndsInside DEF FlowInv
    <2>4. \A m \in Markets : EndsWithin(m) \in [Partitions -> Nat]
      <3>1. \A m \in Markets : EndsWithin(m) = [p \in Partitions |-> EndsWithin(m)[p]]
        BY DEF EndsWithin
      <3>2. QED
        BY <2>3, <3>1
    <2>5. /\ plan'.ends \in Offsets /\ plan'.at = now /\ plan'.watermark = watermark
          /\ \A m \in Markets, p \in Partitions : plan'.ends[m][p] = EndsWithin(m)[p]
      BY <2>1, <2>4 DEF Offsets
    <2>6. \A m \in Markets, p \in Partitions :
            plan'.ends[m][p] <= Len(log[m][p]) /\ offsets[m][p] <= plan'.ends[m][p]
      <3> SUFFICES ASSUME NEW m \in Markets, NEW p \in Partitions
                   PROVE  plan'.ends[m][p] <= Len(log[m][p]) /\ offsets[m][p] <= plan'.ends[m][p]
        OBVIOUS
      <3>1. offsets[m][p] \in Nat
        BY <2>2 DEF Inside, Offsets
      <3>2. QED
        BY <2>3, <2>5, <3>1
    <2>8. now \in 0..MaxTime /\ watermark \in Int
      BY <1>0 DEF LogInv, FlowInv
    <2>9. plan' \in [ends : [Markets -> [Partitions -> Nat]], at : 0..MaxTime, watermark : Int]
      BY <2>1, <2>5, <2>8 DEF Offsets
    <2>10. TypeOK'
      BY <1>0, <2>1, <2>9 DEF TypeOK, checkpoint, history
    <2>11. Inside(plan.ends)' /\ Inside(offsets)'
      BY <2>1, <2>2, <2>5, <2>6 DEF Inside, checkpoint
    <2>12. plan = NoPlan /\ ~written
      BY <1>0, <1>6 DEF Plan, FlowInv
    <2>13. now <= now
      BY <1>1
    <2>14. FlowInv'
      BY <1>0, <2>1, <2>2, <2>5, <2>6, <2>11, <2>12, <2>13 DEF FlowInv, InLog, checkpoint, history
    <2>15. QED
      BY <1>0, <2>10, <2>14 DEF TypeInv
  <1>7. ASSUME NEW effect, Write \/ WriteDeadLetter(effect) PROVE TypeInv'
    <2>1. /\ plan # NoPlan /\ written' = TRUE
          /\ UNCHANGED <<now, log, checkpoint, plan, up, limit, history, crashes>>
      BY <1>7 DEF Write, WriteDeadLetter
    <2>2. Touched \subseteq Keys /\ Output \in [Keys -> [Markets -> Nat]]
      BY <2>1, OutputType DEF TypeInv
    <2>3. /\ table' \in [Keys -> [Markets -> Nat]] /\ stale' \subseteq Keys
          /\ inflight' \subseteq Inserts
      <3>1. Write => inflight' = inflight /\ table' = Output /\ stale' = stale \ Touched
        BY DEF Write
      <3>2. WriteDeadLetter(effect) => FailedInsert(effect) /\ stale' \subseteq stale \cup Touched
        BY DEF WriteDeadLetter
      <3>3. FailedInsert(effect) => table' \in [Keys -> [Markets -> Nat]] /\ inflight' \subseteq Inserts
        BY <1>0, FailedInsertType
      <3>4. stale \subseteq Keys /\ inflight \subseteq Inserts
        BY <1>0 DEF TypeOK, Inserts
      <3>5. QED
        BY <1>7, <2>2, <3>1, <3>2, <3>3, <3>4
    <2>4. written' \in BOOLEAN
      BY <2>1
    <2>5. faults' \in Nat
      BY <1>0, <1>7 DEF Write, WriteDeadLetter, TypeOK
    <2>6. TypeOK'
      BY <1>0, <2>1, <2>3, <2>4, <2>5 DEF TypeOK, Inserts, checkpoint, history
    <2>7. FlowInv'
      BY <1>0, <2>1 DEF FlowInv, Inside, InLog, checkpoint, history
    <2>8. QED
      BY <1>0, <2>6, <2>7 DEF TypeInv
  <1>8. ASSUME NEW effect, WriteRaises(effect) \/ Crash(effect) PROVE TypeInv'
    <2>1. /\ up' = FALSE /\ written' \in {written, FALSE} /\ FailedInsert(effect)
          /\ stale' = IF effect = "applied" THEN stale \ Touched ELSE stale
          /\ UNCHANGED <<now, log, checkpoint, plan, limit, history>>
      BY <1>8 DEF WriteRaises, Crash
    <2>2. up' \in BOOLEAN /\ written' \in BOOLEAN
      BY <1>0, <2>1 DEF TypeOK
    <2>3. faults' \in Nat /\ crashes' \in Nat
      BY <1>0, <1>8 DEF WriteRaises, Crash, TypeOK
    <2>4. table' \in [Keys -> [Markets -> Nat]] /\ inflight' \subseteq Inserts /\ stale' \subseteq Keys
      <3>1. stale \subseteq Keys
        BY <1>0 DEF TypeOK
      <3>2. QED
        BY <1>0, <2>1, <3>1, FailedInsertType
    <2>5. TypeOK'
      BY <1>0, <2>1, <2>2, <2>3, <2>4 DEF TypeOK, Inserts, checkpoint, history
    <2>6. ~up' /\ (written' => plan # NoPlan)
      <3>1. written => plan # NoPlan
        BY <1>0 DEF FlowInv
      <3>2. CASE written' = written
        BY <2>1, <3>1, <3>2
      <3>3. CASE written' = FALSE
        BY <2>1, <3>3
      <3>4. QED
        BY <2>1, <3>2, <3>3
    <2>7. UNCHANGED <<now, log, checkpoint, plan, history>>
      BY <2>1
    <2>8. FlowInv'
      BY <1>0, <2>6, <2>7 DEF FlowInv, Inside, InLog, checkpoint, history
    <2>9. QED
      BY <1>0, <2>5, <2>8 DEF TypeInv
  <1>l. ASSUME NEW i \in inflight, NEW applied \in BOOLEAN, LateInsertEnds(i, applied) PROVE TypeInv'
    <2>1. /\ UNCHANGED <<now, log, checkpoint, plan, up, limit, written, history, faults, crashes>>
          /\ inflight' = inflight \ {i}
          /\ table' = [k \in Keys |-> IF applied /\ k \in i.keys THEN i.rows[k] ELSE table[k]]
          /\ stale' = stale \cup {k \in Keys : table'[k] # table[k]}
      BY <1>l DEF LateInsertEnds
    <2>2. inflight \subseteq Inserts /\ stale \subseteq Keys /\ table \in [Keys -> [Markets -> Nat]]
      BY <1>0 DEF TypeOK, Inserts
    <2>3. i.rows \in [Keys -> [Markets -> Nat]]
      BY <2>2 DEF Inserts
    <2>4. table' \in [Keys -> [Markets -> Nat]]
      BY <2>1, <2>2, <2>3
    <2>5. inflight' \subseteq Inserts /\ stale' \subseteq Keys
      BY <2>1, <2>2
    <2>6. TypeOK'
      BY <1>0, <2>1, <2>4, <2>5 DEF TypeOK, Inserts, checkpoint, history
    <2>7. FlowInv'
      BY <1>0, <2>1 DEF FlowInv, Inside, InLog, checkpoint, history
    <2>8. QED
      BY <1>0, <2>6, <2>7 DEF TypeInv
  <1>9. ASSUME Commit PROVE TypeInv'
    <2>1. /\ plan # NoPlan /\ offsets' = plan.ends /\ plan' = NoPlan /\ written' = FALSE
          /\ UNCHANGED <<now, log, first, table, inflight, stale, up, limit, faults, crashes>>
      BY <1>0, <1>9 DEF Commit, FlowInv
    <2>2. Batch \subseteq InLog /\ prepare_for_aggregate \subseteq Batch /\ OnTime \subseteq prepare_for_aggregate
      BY <2>1, BatchInLog DEF prepare_for_aggregate, OnTime
    <2>3. watermark' = Watermark(prepare_for_aggregate) /\ watermark' \in Nat
      <3>1. prepare_for_aggregate \in SUBSET InLog
        BY <2>2
      <3>2. QED
        BY <1>0, <1>9, <3>1, NextWatermark DEF Commit, FlowInv
    <2>4. totals' \in [Keys -> [Markets -> Nat]]
      <3>1. \A k \in Keys : aggregate[k] \in [Markets -> Nat] /\ NoTotals[k] \in [Markets -> Nat]
        BY <1>0, TotalsType DEF NoTotals
      <3>2. totals' = Evict(aggregate)
        BY <1>9 DEF Commit
      <3>3. QED
        BY <3>1, <3>2 DEF Evict
    <2>5. InLog \subseteq Places
      BY DEF InLog
    <2>6. /\ counted' = counted \cup OnTime /\ dropped' = dropped \cup (prepare_for_aggregate \ OnTime)
          /\ rejected' = rejected \cup (Batch \ prepare_for_aggregate)
      BY <1>9 DEF Commit
    <2>7. /\ counted' \subseteq Places /\ dropped' \subseteq Places /\ rejected' \subseteq Places
          /\ dropped' \subseteq InLog
      BY <1>0, <2>2, <2>5, <2>6 DEF TypeOK, FlowInv
    <2>8. Inside(plan.ends)
      BY <1>0, <2>1 DEF FlowInv
    <2>9. written' \in BOOLEAN /\ offsets' \in Offsets
      BY <2>1, <2>8 DEF Inside
    <2>10. TypeOK'
      <3>1. watermark' \in Int
        BY <2>3
      <3>2. UNCHANGED <<now, log, first, table, inflight, stale, up, limit, faults, crashes>> /\ plan' = NoPlan
        BY <2>1
      <3>3. QED
        BY <1>0, <2>4, <2>7, <2>9, <3>1, <3>2 DEF TypeOK, Offsets
    <2>11. Inside(offsets)' /\ InLog' = InLog
      BY <2>1, <2>8 DEF Inside, InLog
    <2>12. offsets' # NoOffsets
      <3>1. DOMAIN NoOffsets = {} /\ Markets # {} /\ DOMAIN offsets' = Markets
        BY <2>9 DEF NoOffsets, Markets, Offsets
      <3>2. QED
        BY <3>1
    <2>13. FlowInv'
      BY <1>0, <2>1, <2>3, <2>7, <2>11, <2>12 DEF FlowInv
    <2>14. QED
      BY <1>0, <2>10, <2>13 DEF TypeInv
  <1>10. QED
    BY <1>2, <1>3, <1>4, <1>5, <1>6, <1>7, <1>8, <1>9, <1>l DEF Next

(* TypeOK is an invariant: in particular limits stay positive, and the     *)
(* offsets, totals and places stay what they are through every replay.     *)
THEOREM TypeCorrect == Spec => []TypeOK
  <1>1. TypeInv => TypeOK
    BY DEF TypeInv
  <1>2. QED
    BY <1>1, TypeInit, TypeStep, PTL DEF Spec

-----------------------------------------------------------------------------
(* Dropped trades.                                                         *)

(* The watermark, once there is one, is that of an accepted trade of an    *)
(* earlier batch.                                                          *)
SeenInv ==
  /\ counted \subseteq InLog
  /\ watermark = 0 \/ \E u \in counted \cup dropped : watermark = Trade(u).at - WatermarkDelay

LEMMA SeenStep == TypeInv /\ SeenInv /\ [Next]_vars => SeenInv'
  <1> SUFFICES ASSUME TypeInv, SeenInv, [Next]_vars PROVE SeenInv'
    OBVIOUS
  <1>0. TypeOK /\ LogInv /\ FlowInv
    BY DEF TypeInv
  <1>1. ASSUME UNCHANGED <<log, watermark, counted, dropped>> PROVE SeenInv'
    BY <1>1 DEF SeenInv, InLog, Trade
  <1>2. ASSUME NEW a \in Arrivals, NEW hash \in Hashes, Arrive(a[1], a[2], a[3], hash) PROVE SeenInv'
    <2>1. UNCHANGED <<watermark, counted, dropped>>
      BY <1>2 DEF Arrive, checkpoint, history
    <2>2. \A t \in InLog : t \in InLog' /\ Trade(t)' = Trade(t)
      BY <1>2, ArriveKeeps
    <2>3. counted \cup dropped \subseteq InLog
      BY <1>0 DEF SeenInv, FlowInv
    <2>4. QED
      BY <2>1, <2>2, <2>3 DEF SeenInv
  <1>3. ASSUME Commit PROVE SeenInv'
    <2>1. plan # NoPlan /\ UNCHANGED log
      BY <1>0, <1>3 DEF Commit, FlowInv
    <2>2. /\ counted' = counted \cup OnTime /\ dropped' = dropped \cup (prepare_for_aggregate \ OnTime)
          /\ watermark' = Watermark(prepare_for_aggregate)
      BY <1>3 DEF Commit
    <2>3. prepare_for_aggregate \in SUBSET InLog /\ OnTime \subseteq prepare_for_aggregate
      BY <2>1, BatchInLog DEF prepare_for_aggregate, OnTime
    <2>4. \/ watermark' = watermark
          \/ \E t \in prepare_for_aggregate : watermark' = Trade(t).at - WatermarkDelay
      BY <1>0, <2>2, <2>3, NextWatermark DEF FlowInv
    <2>5. prepare_for_aggregate \subseteq counted' \cup dropped'
      BY <2>2
    <2>6. counted' \subseteq InLog'
      BY <2>1, <2>2, <2>3 DEF SeenInv, InLog
    <2>7. \A t : Trade(t)' = Trade(t)
      BY <2>1 DEF Trade
    <2>8. watermark' = 0 \/ \E u \in counted' \cup dropped' : watermark' = Trade(u)'.at - WatermarkDelay
      BY <2>2, <2>4, <2>5, <2>7 DEF SeenInv
    <2>9. QED
      BY <2>6, <2>8 DEF SeenInv
  <1>4. QED
    BY <1>1, <1>2, <1>3
    DEF Next, vars, Tick, Start, Plan, Write, WriteDeadLetter, LateInsertEnds, WriteRaises, Crash,
        checkpoint, history

LEMMA OvertakenStep ==
  ASSUME TypeInv, SeenInv, [Next]_vars, NEW t \in dropped' \ dropped
  PROVE  \E u \in counted \cup dropped : Trade(u).at >= WindowEnd(t) + WatermarkDelay
  <1>0. LogInv /\ FlowInv
    BY DEF TypeInv
  <1>1. Commit
    BY DEF Next, vars, Tick, Arrive, Start, Plan, Write, WriteDeadLetter, LateInsertEnds, WriteRaises,
           Crash, checkpoint, history
  <1>2. plan # NoPlan /\ t \in prepare_for_aggregate \ OnTime
    BY <1>0, <1>1 DEF Commit, FlowInv
  <1>3. t \in InLog /\ Late(t)
    BY <1>2, BatchInLog DEF prepare_for_aggregate, OnTime
  <1>4. Trade(t).at \in 0..MaxStamp /\ WindowEnd(t) \in Int /\ WindowEnd(t) > Trade(t).at
    BY <1>0, <1>3, TradeIsRecord, KeyOfTrade DEF Record
  <1>5. plan.watermark = watermark /\ watermark \in Nat
    BY <1>0, <1>2 DEF FlowInv
  <1>6. WindowEnd(t) <= watermark /\ watermark # 0
    BY <1>3, <1>4, <1>5, StreamAssumption DEF Late
  <1>7. PICK u \in counted \cup dropped : watermark = Trade(u).at - WatermarkDelay
    BY <1>6 DEF SeenInv
  <1>8. Trade(u).at \in 0..MaxStamp
    BY <1>0, <1>7, TradeIsRecord DEF SeenInv, FlowInv, Record
  <1>9. Trade(u).at >= WindowEnd(t) + WatermarkDelay
    BY <1>4, <1>5, <1>6, <1>7, <1>8, StreamAssumption
  <1>10. QED
    BY <1>7, <1>9

(* The futures and the spot topic share one watermark in cvd.py.  Whatever *)
(* the limits, delays, lags, crashes and replays, what makes a trade late  *)
(* is a trade that an earlier batch accepted, the watermark delay past the *)
(* end of its window.                                                      *)
THEOREM LateIsOvertaken == Spec => OnlyOvertakenTradesAreLate
  <1>1. Init => SeenInv
    BY DEF Init, SeenInv
  <1>2. TypeInv /\ SeenInv /\ [Next]_vars =>
          [\A t \in dropped' \ dropped :
             \E u \in counted \cup dropped : Trade(u).at >= WindowEnd(t) + WatermarkDelay]_vars
    BY OvertakenStep
  <1>3. QED
    BY <1>1, <1>2, SeenStep, TypeInit, TypeStep, PTL DEF Spec, OnlyOvertakenTradesAreLate

-----------------------------------------------------------------------------
(* The totals.                                                             *)

(* The accepted trades of the batch that is not committed.                 *)
Running == IF plan = NoPlan THEN {} ELSE OnTime

(* What is counted is committed: no batch holds it again.                  *)
CountedInv == \A t \in counted : t \in InLog /\ offsets # NoOffsets /\ t[3] <= offsets[t[1]][t[2]]

(* The totals of a window that may still get trades are exact; the state   *)
(* store has forgotten only windows the watermark has passed.              *)
StateInv ==
  \A k \in Keys, m \in Markets :
    k.start + WindowDuration > watermark => totals[k][m] = Exact(counted, k, m)

(* The table is as of the last batch or, if a handler has run, as of this  *)
(* one; it is certain to be as of this one once the handler has returned.  *)
RowsInv ==
  \A k \in Keys \ stale, m \in Markets :
    /\ table[k][m] \in {Exact(counted, k, m), Exact(counted \cup Running, k, m)}
    /\ written => table[k][m] = Exact(counted \cup Running, k, m)

(* No row, in the table or on its way to it, counts a trade twice.         *)
BoundInv ==
  \A k \in Keys, m \in Markets :
    /\ table[k][m] <= Exact(counted \cup Running, k, m)
    /\ \A i \in inflight : k \in i.keys => i.rows[k][m] <= Exact(counted \cup Running, k, m)

ExactInv == CountedInv /\ StateInv /\ RowsInv /\ BoundInv

(* What a row counts is a number, and grows by the trades of a batch.      *)
LEMMA ExactSum ==
  ASSUME NEW S \in SUBSET Places, NEW T \in SUBSET Places, S \cap T = {}, NEW k, NEW m
  PROVE  /\ Exact(S, k, m) \in Nat /\ Exact(T, k, m) \in Nat
         /\ Exact(S \cup T, k, m) = Exact(S, k, m) + Exact(T, k, m)
  <1> DEFINE A == {t \in S : Key(t) = k /\ t[1] = m}
             B == {t \in T : Key(t) = k /\ t[1] = m}
  <1>1. IsFiniteSet(A) /\ IsFiniteSet(B)
    <2>1. A \in SUBSET Places /\ B \in SUBSET Places
      OBVIOUS
    <2>2. QED
      BY <2>1, PlacesFinite, FS_Subset
  <1>2. {t \in S \cup T : Key(t) = k /\ t[1] = m} = A \cup B /\ A \cap B = {}
    OBVIOUS
  <1>3. /\ Exact(S, k, m) = Cardinality(A) /\ Exact(T, k, m) = Cardinality(B)
        /\ Exact(S \cup T, k, m) = Cardinality(A \cup B)
    BY <1>2 DEF Exact
  <1> HIDE DEF A, B
  <1>4. Cardinality(A) \in Nat /\ Cardinality(B) \in Nat
    BY <1>1, FS_CardinalityType
  <1>5. Cardinality(A \cup B) = Cardinality(A) + Cardinality(B) - Cardinality(A \cap B)
    BY <1>1, FS_Union
  <1>6. Cardinality(A \cap B) = 0
    BY <1>2, FS_EmptySet
  <1>7. QED
    BY <1>3, <1>4, <1>5, <1>6

(* More trades count for no less.                                          *)
LEMMA ExactGrows ==
  ASSUME NEW S \in SUBSET Places, NEW T \in SUBSET Places, S \subseteq T, NEW k, NEW m
  PROVE  /\ Exact(S, k, m) \in Nat /\ Exact(T, k, m) \in Nat
         /\ Exact(S, k, m) <= Exact(T, k, m)
  <1> DEFINE A == {t \in S : Key(t) = k /\ t[1] = m}
             B == {t \in T : Key(t) = k /\ t[1] = m}
  <1>1. B \in SUBSET Places /\ A \in SUBSET B
    OBVIOUS
  <1>2. IsFiniteSet(B)
    BY <1>1, PlacesFinite, FS_Subset
  <1>3. Exact(S, k, m) = Cardinality(A) /\ Exact(T, k, m) = Cardinality(B)
    BY DEF Exact
  <1> HIDE DEF A, B
  <1>4. IsFiniteSet(A) /\ Cardinality(A) <= Cardinality(B)
    BY <1>1, <1>2, FS_Subset
  <1>5. QED
    BY <1>2, <1>3, <1>4, FS_CardinalityType

(* A batch holds nothing that is counted.                                  *)
LEMMA BatchIsNew ==
  ASSUME TypeInv, CountedInv, plan # NoPlan
  PROVE  counted \cap OnTime = {} /\ counted \in SUBSET Places /\ OnTime \in SUBSET Places
  <1>1. OnTime \subseteq Batch /\ Batch \subseteq Places
    BY DEF OnTime, prepare_for_aggregate, Batch
  <1>2. counted \subseteq Places
    BY DEF TypeInv, TypeOK
  <1>3. ASSUME NEW t \in counted, t \in OnTime PROVE FALSE
    <2>1. t \in Places /\ t[3] \in (offsets[t[1]][t[2]] + 1)..plan.ends[t[1]][t[2]]
      BY <1>1, <1>3 DEF Batch
    <2>2. t[1] \in Markets /\ t[2] \in Partitions /\ t[3] \in Nat
      BY <2>1, StreamAssumption DEF Places
    <2>3. Inside(offsets) /\ Inside(plan.ends)
      BY DEF TypeInv, FlowInv
    <2>4. offsets[t[1]][t[2]] \in Nat /\ plan.ends[t[1]][t[2]] \in Nat
      BY <2>2, <2>3 DEF Inside, Offsets
    <2>5. t[3] <= offsets[t[1]][t[2]]
      BY DEF CountedInv
    <2>6. QED
      BY <2>1, <2>2, <2>4, <2>5
  <1>4. QED
    BY <1>1, <1>2, <1>3

(* The totals after a batch, of the windows the watermark has not passed.  *)
LEMMA AggregateIsExact ==
  ASSUME TypeInv, CountedInv, StateInv, plan # NoPlan, NEW k \in Keys, NEW m \in Markets,
         k.start + WindowDuration > watermark
  PROVE  aggregate[k][m] = Exact(counted \cup OnTime, k, m)
  <1>1. totals[k][m] = Exact(counted, k, m)
    BY DEF StateInv
  <1>2. Exact(counted \cup OnTime, k, m) = Exact(counted, k, m) + Exact(OnTime, k, m)
    BY BatchIsNew, ExactSum
  <1>3. aggregate[k][m] = totals[k][m] + Exact(OnTime, k, m)
    BY DEF aggregate, Exact
  <1>4. QED
    BY <1>1, <1>2, <1>3

(* A batch touches no window that the watermark has passed, and of the     *)
(* windows it does not touch it counts nothing.                            *)
LEMMA TouchedWindows ==
  ASSUME TypeInv, plan # NoPlan
  PROVE  /\ Touched \subseteq Keys
         /\ \A k \in Touched : k.start + WindowDuration > watermark
         /\ \A k \in Keys \ Touched, m \in Markets : Exact(counted \cup OnTime, k, m) = Exact(counted, k, m)
  <1>1. LogInv /\ plan.watermark = watermark /\ watermark \in Nat
    BY DEF TypeInv, FlowInv
  <1>2. OnTime \subseteq InLog
    BY BatchInLog DEF OnTime, prepare_for_aggregate
  <1>3. ASSUME NEW t \in OnTime PROVE Key(t) \in Keys /\ Key(t).start + WindowDuration > watermark
    <2>1. Key(t) \in Keys /\ WindowEnd(t) \in Int
      BY <1>1, <1>2, KeyOfTrade
    <2>2. ~(WindowEnd(t) <= watermark)
      BY <1>1 DEF OnTime, Late
    <2>3. QED
      BY <1>1, <2>1, <2>2 DEF WindowEnd
  <1>4. ASSUME NEW k \in Keys \ Touched, NEW m \in Markets
        PROVE  Exact(counted \cup OnTime, k, m) = Exact(counted, k, m)
    <2>1. {t \in counted \cup OnTime : Key(t) = k /\ t[1] = m} = {t \in counted : Key(t) = k /\ t[1] = m}
      BY DEF Touched
    <2>2. QED
      BY <2>1 DEF Exact
  <1>5. QED
    BY <1>3, <1>4 DEF Touched

(* Rows stay right while nothing is written and no trade changes.          *)
LEMMA RowsSame ==
  ASSUME RowsInv, UNCHANGED <<table, inflight, stale>>, written' => written,
         \A k, m : /\ Exact(counted, k, m)' = Exact(counted, k, m)
                   /\ Exact(counted \cup Running, k, m)' = Exact(counted \cup Running, k, m)
  PROVE  RowsInv'
  <1> SUFFICES ASSUME NEW k \in Keys \ stale, NEW m \in Markets
               PROVE  /\ table'[k][m] \in {Exact(counted, k, m)', Exact(counted \cup Running, k, m)'}
                      /\ written' => table'[k][m] = Exact(counted \cup Running, k, m)'
    BY DEF RowsInv
  <1>1. table[k][m] \in {Exact(counted, k, m), Exact(counted \cup Running, k, m)}
    BY DEF RowsInv
  <1>2. written => table[k][m] = Exact(counted \cup Running, k, m)
    BY DEF RowsInv
  <1>3. table'[k][m] \in {Exact(counted, k, m)', Exact(counted \cup Running, k, m)'}
    BY <1>1
  <1>4. written' => table'[k][m] = Exact(counted \cup Running, k, m)'
    BY <1>2
  <1>5. QED
    BY <1>3, <1>4

(* No row counts too much while none is written and no trade is taken back.*)
LEMMA BoundSame ==
  ASSUME BoundInv, TypeInv, UNCHANGED table, inflight' \subseteq inflight,
         \A k, m : /\ Exact(counted \cup Running, k, m) \in Nat
                   /\ Exact(counted \cup Running, k, m)' \in Nat
                   /\ Exact(counted \cup Running, k, m) <= Exact(counted \cup Running, k, m)'
  PROVE  BoundInv'
  <1> SUFFICES ASSUME NEW k \in Keys, NEW m \in Markets
               PROVE  /\ table'[k][m] <= Exact(counted \cup Running, k, m)'
                      /\ \A i \in inflight' : k \in i.keys => i.rows[k][m] <= Exact(counted \cup Running, k, m)'
    BY DEF BoundInv
  <1>1. table[k][m] \in Nat /\ \A i \in inflight : i.rows[k][m] \in Nat
    BY DEF TypeInv, TypeOK
  <1>2. /\ table[k][m] <= Exact(counted \cup Running, k, m)
        /\ \A i \in inflight : k \in i.keys => i.rows[k][m] <= Exact(counted \cup Running, k, m)
    BY DEF BoundInv
  <1>3. /\ Exact(counted \cup Running, k, m) \in Nat /\ Exact(counted \cup Running, k, m)' \in Nat
        /\ Exact(counted \cup Running, k, m) <= Exact(counted \cup Running, k, m)'
    OBVIOUS
  <1>4. table'[k][m] <= Exact(counted \cup Running, k, m)'
    BY <1>1, <1>2, <1>3
  <1>5. ASSUME NEW i \in inflight', k \in i.keys PROVE i.rows[k][m] <= Exact(counted \cup Running, k, m)'
    <2>1. i \in inflight
      OBVIOUS
    <2>2. i.rows[k][m] \in Nat /\ i.rows[k][m] <= Exact(counted \cup Running, k, m)
      BY <1>1, <1>2, <1>5, <2>1
    <2> HIDE DEF Running
    <2>3. QED
      BY <1>3, <2>2
  <1>6. QED
    BY <1>4, <1>5

(* The trades that are counted or about to be are places.                  *)
LEMMA SeenPlaces ==
  ASSUME TypeInv
  PROVE  /\ counted \in SUBSET Places /\ Running \in SUBSET Places
         /\ \A k, m : Exact(counted \cup Running, k, m) \in Nat
  <1>1. counted \in SUBSET Places
    BY DEF TypeInv, TypeOK
  <1>2. Running \in SUBSET Places
    BY DEF Running, OnTime, prepare_for_aggregate, Batch
  <1>3. QED
    BY <1>1, <1>2, ExactGrows

(* What the batch writes is exact, for the windows it touches and for      *)
(* those whose rows were; and it counts no trade twice.                    *)
LEMMA OutputIsExact ==
  ASSUME TypeInv, ExactInv, plan # NoPlan, NEW k \in Keys, NEW m \in Markets
  PROVE  /\ k \in Touched => aggregate[k][m] = Exact(counted \cup OnTime, k, m)
         /\ k \notin stale \ Touched => Output[k][m] = Exact(counted \cup OnTime, k, m)
         /\ Output[k][m] <= Exact(counted \cup OnTime, k, m)
  <1>1. CountedInv /\ StateInv /\ RowsInv /\ BoundInv /\ Running = OnTime
    BY DEF ExactInv, Running
  <1>2. Exact(counted \cup OnTime, k, m) \in Nat
    BY <1>1, SeenPlaces
  <1>3. CASE k \in Touched
    <2>1. aggregate[k][m] = Exact(counted \cup OnTime, k, m)
      BY <1>1, <1>3, TouchedWindows, AggregateIsExact
    <2>2. Output[k] = aggregate[k]
      BY <1>3 DEF Output
    <2>3. QED
      BY <1>2, <2>1, <2>2
  <1>4. CASE k \notin Touched
    <2>1. Output[k] = table[k]
      BY <1>4 DEF Output
    <2>2. Exact(counted \cup OnTime, k, m) = Exact(counted, k, m)
      BY <1>4, TouchedWindows
    <2>3. k \notin stale => table[k][m] = Exact(counted \cup OnTime, k, m)
      BY <1>1, <2>2 DEF RowsInv
    <2>4. table[k][m] <= Exact(counted \cup OnTime, k, m)
      BY <1>1 DEF BoundInv
    <2>5. QED
      BY <1>4, <2>1, <2>3, <2>4
  <1>5. QED
    BY <1>3, <1>4

(* A batch that is cut off leaves rows that count no trade twice.          *)
LEMMA WrittenIsBound ==
  ASSUME TypeInv, ExactInv, plan # NoPlan, Running' = Running, UNCHANGED <<log, counted>>,
         table' = table \/ table' = Output,
         \A i \in inflight' : i \in inflight \/ (i.keys = Touched /\ i.rows = aggregate)
  PROVE  BoundInv'
  <1>1. Running = OnTime
    BY DEF Running
  <1>2. \A k, m : Exact(counted \cup Running, k, m)' = Exact(counted \cup OnTime, k, m)
    BY <1>1 DEF Exact, Key, Trade
  <1> SUFFICES ASSUME NEW k \in Keys, NEW m \in Markets
               PROVE  /\ table'[k][m] <= Exact(counted \cup OnTime, k, m)
                      /\ \A i \in inflight' : k \in i.keys => i.rows[k][m] <= Exact(counted \cup OnTime, k, m)
    BY <1>2 DEF BoundInv
  <1>3. /\ table[k][m] <= Exact(counted \cup OnTime, k, m)
        /\ \A i \in inflight : k \in i.keys => i.rows[k][m] <= Exact(counted \cup OnTime, k, m)
    BY <1>1 DEF ExactInv, BoundInv
  <1>4. /\ k \in Touched => aggregate[k][m] = Exact(counted \cup OnTime, k, m)
        /\ Output[k][m] <= Exact(counted \cup OnTime, k, m)
    BY OutputIsExact
  <1>5. Exact(counted \cup OnTime, k, m) \in Nat
    BY <1>1, SeenPlaces
  <1>6. table'[k][m] <= Exact(counted \cup OnTime, k, m)
    BY <1>3, <1>4
  <1>7. ASSUME NEW i \in inflight', k \in i.keys PROVE i.rows[k][m] <= Exact(counted \cup OnTime, k, m)
    <2>1. CASE i \in inflight
      BY <1>3, <1>7, <2>1
    <2>2. CASE i.keys = Touched /\ i.rows = aggregate
      <3>1. i.rows[k][m] = Exact(counted \cup OnTime, k, m)
        BY <1>4, <1>7, <2>2
      <3>2. QED
        BY <1>5, <3>1
    <2>3. QED
      BY <2>1, <2>2
  <1>8. QED
    BY <1>6, <1>7

(* The invariant is inductive.                                             *)
LEMMA ExactStep == TypeInv /\ ExactInv /\ [Next]_vars => ExactInv'
  <1> SUFFICES ASSUME TypeInv, ExactInv, [Next]_vars PROVE ExactInv'
    OBVIOUS
  <1>0. TypeOK /\ LogInv /\ FlowInv /\ CountedInv /\ StateInv /\ RowsInv /\ BoundInv /\ TypeInv'
    BY TypeStep DEF TypeInv, ExactInv
  <1>n. \A k, m : Exact(counted \cup Running, k, m) \in Nat
    BY SeenPlaces
  <1>1. ASSUME UNCHANGED <<log, offsets, plan, totals, watermark, table, inflight, stale, counted>>,
               written' => written
        PROVE  ExactInv'
    <2>1. CountedInv'
      BY <1>0, <1>1 DEF CountedInv, InLog
    <2>2. StateInv'
      BY <1>0, <1>1 DEF StateInv, Exact, Key, Trade
    <2>3. OnTime' = OnTime
      BY <1>1 DEF OnTime, prepare_for_aggregate, Batch, lag_bad, Late, WindowEnd, Key, Trade
    <2>4. Running' = Running
      BY <1>1, <2>3 DEF Running
    <2>5. \A k, m : /\ Exact(counted, k, m)' = Exact(counted, k, m)
                    /\ Exact(counted \cup Running, k, m)' = Exact(counted \cup Running, k, m)
      BY <1>1, <2>4 DEF Exact, Key, Trade
    <2>6. RowsInv'
      BY <1>0, <1>1, <2>5, RowsSame
    <2>7. BoundInv'
      BY <1>0, <1>1, <1>n, <2>5, BoundSame
    <2>8. QED
      BY <2>1, <2>2, <2>6, <2>7 DEF ExactInv
  <1>2. ASSUME NEW a \in Arrivals, NEW hash \in Hashes, Arrive(a[1], a[2], a[3], hash) PROVE ExactInv'
    <2>1. UNCHANGED <<offsets, plan, totals, watermark, table, inflight, stale, written, counted>>
      BY <1>2 DEF Arrive, checkpoint, history
    <2>2. \A t \in InLog : t \in InLog' /\ Trade(t)' = Trade(t)
      BY <1>2, ArriveKeeps
    <2>3. \A t \in InLog : Key(t)' = Key(t) /\ WindowEnd(t)' = WindowEnd(t)
      BY <2>2 DEF Key, WindowEnd
    <2>4. Running' = Running /\ Running \subseteq InLog
      <3>1. CASE plan = NoPlan
        BY <2>1, <3>1 DEF Running
      <3>2. CASE plan # NoPlan
        <4>1. Batch' = Batch /\ Batch \subseteq InLog
          BY <2>1, <3>2, BatchInLog DEF Batch
        <4>2. prepare_for_aggregate' = prepare_for_aggregate
          BY <2>1, <2>2, <4>1 DEF prepare_for_aggregate, lag_bad
        <4>3. prepare_for_aggregate \subseteq InLog
          BY <4>1 DEF prepare_for_aggregate
        <4>4. OnTime' = OnTime /\ OnTime \subseteq InLog
          BY <2>1, <2>3, <4>2, <4>3 DEF OnTime, Late
        <4>5. QED
          BY <2>1, <3>2, <4>4 DEF Running
      <3>3. QED
        BY <3>1, <3>2
    <2>5. CountedInv'
      BY <1>0, <2>1, <2>2 DEF CountedInv
    <2>6. \A k, m : /\ Exact(counted, k, m)' = Exact(counted, k, m)
                    /\ Exact(counted \cup Running, k, m)' = Exact(counted \cup Running, k, m)
      <3>1. counted \subseteq InLog
        BY <1>0 DEF CountedInv
      <3>2. ASSUME NEW k, NEW m
            PROVE  /\ {t \in counted' : Key(t)' = k /\ t[1] = m} = {t \in counted : Key(t) = k /\ t[1] = m}
                   /\ {t \in counted' \cup Running' : Key(t)' = k /\ t[1] = m}
                        = {t \in counted \cup Running : Key(t) = k /\ t[1] = m}
        BY <2>1, <2>3, <2>4, <3>1
      <3>3. QED
        BY <3>2 DEF Exact
    <2>7. StateInv'
      BY <1>0, <2>1, <2>6 DEF StateInv
    <2>8. RowsInv'
      BY <1>0, <2>1, <2>6, RowsSame
    <2>9. BoundInv'
      BY <1>0, <1>n, <2>1, <2>6, BoundSame
    <2>10. QED
      BY <2>5, <2>7, <2>8, <2>9 DEF ExactInv
  <1>3. ASSUME NEW answers \in BOOLEAN, Start(answers) PROVE ExactInv'
    <2>1. UNCHANGED <<log, plan, totals, watermark, table, inflight, stale, written, counted>>
      BY <1>3 DEF Start, history
    <2>2. CASE offsets # NoOffsets
      BY <1>1, <1>3, <2>1, <2>2 DEF Start
    <2>3. CASE offsets = NoOffsets
      <3>1. counted = {}
        BY <1>0, <2>3 DEF CountedInv
      <3>2. plan = NoPlan
        <4>1. DOMAIN NoOffsets = {} /\ Markets # {} /\ \A o \in Offsets : DOMAIN o = Markets
          BY DEF NoOffsets, Markets, Offsets
        <4>2. QED
          BY <1>0, <2>3, <4>1 DEF FlowInv, Inside
      <3>3. Running = {} /\ Running' = {}
        BY <2>1, <3>2 DEF Running
      <3>4. CountedInv'
        BY <2>1, <3>1 DEF CountedInv
      <3>5. StateInv'
        BY <1>0, <2>1 DEF StateInv, Exact, Key, Trade
      <3>6. \A k, m : /\ Exact(counted, k, m)' = Exact(counted, k, m)
                      /\ Exact(counted \cup Running, k, m)' = Exact(counted \cup Running, k, m)
        BY <2>1, <3>3 DEF Exact, Key, Trade
      <3>7. RowsInv'
        BY <1>0, <2>1, <3>6, RowsSame
      <3>8. BoundInv'
        BY <1>0, <1>n, <2>1, <3>6, BoundSame
      <3>9. QED
        BY <3>4, <3>5, <3>7, <3>8 DEF ExactInv
    <2>4. QED
      BY <2>2, <2>3
  <1>4. ASSUME Plan PROVE ExactInv'
    <2>1. plan = NoPlan /\ UNCHANGED <<log, offsets, totals, watermark, table, inflight, stale, written, counted>>
      BY <1>4 DEF Plan, checkpoint, history
    <2>2. Running = {} /\ ~written
      BY <1>0, <2>1 DEF Running, FlowInv
    <2>3. CountedInv'
      BY <1>0, <2>1 DEF CountedInv, InLog
    <2>4. StateInv'
      BY <1>0, <2>1 DEF StateInv, Exact, Key, Trade
    <2>5. ASSUME NEW k \in Keys \ stale, NEW m \in Markets PROVE table[k][m] = Exact(counted, k, m)
      <3>1. counted \cup Running = counted
        BY <2>2
      <3>2. QED
        BY <1>0, <3>1 DEF RowsInv
    <2>6. \A k, m : Exact(counted, k, m)' = Exact(counted, k, m)
      BY <2>1 DEF Exact, Key, Trade
    <2>7. RowsInv'
      BY <2>1, <2>2, <2>5, <2>6 DEF RowsInv
    <2>8. BoundInv'
      <3>1. counted \in SUBSET Places /\ counted \cup Running = counted
        BY <2>2, SeenPlaces
      <3>2. Running' \in SUBSET Places
        BY DEF Running, OnTime, prepare_for_aggregate, Batch
      <3>3. ASSUME NEW k, NEW m
            PROVE  /\ Exact(counted \cup Running, k, m)' \in Nat
                   /\ Exact(counted \cup Running, k, m) <= Exact(counted \cup Running, k, m)'
        <4>1. Exact(counted \cup Running, k, m)' = Exact(counted \cup Running', k, m)
          BY <2>1 DEF Exact, Key, Trade
        <4>2. /\ Exact(counted \cup Running', k, m) \in Nat
              /\ Exact(counted, k, m) <= Exact(counted \cup Running', k, m)
          BY <3>1, <3>2, ExactGrows
        <4>3. QED
          BY <3>1, <4>1, <4>2
      <3>4. QED
        BY <1>0, <1>n, <2>1, <3>3, BoundSame
    <2>9. QED
      BY <2>3, <2>4, <2>7, <2>8 DEF ExactInv
  <1>5. ASSUME NEW effect \in Effects, Write \/ WriteDeadLetter(effect) \/ WriteRaises(effect) \/ Crash(effect)
        PROVE  ExactInv'
    <2>1. UNCHANGED <<log, offsets, plan, totals, watermark, counted>>
      BY <1>5 DEF Write, WriteDeadLetter, WriteRaises, Crash, checkpoint, history
    <2>2. CountedInv' /\ StateInv'
      BY <1>0, <2>1 DEF CountedInv, InLog, StateInv, Exact, Key, Trade
    <2>3. Running' = Running
      BY <2>1 DEF Running, OnTime, prepare_for_aggregate, Batch, lag_bad, Late, WindowEnd, Key, Trade
    <2>4. \A k, m : /\ Exact(counted, k, m)' = Exact(counted, k, m)
                    /\ Exact(counted \cup Running, k, m)' = Exact(counted \cup Running, k, m)
      BY <2>1, <2>3 DEF Exact, Key, Trade
    <2>5. CASE UNCHANGED <<table, inflight, stale>> /\ (written' => written)
      <3>1. RowsInv'
        BY <1>0, <2>4, <2>5, RowsSame
      <3>2. BoundInv'
        BY <1>0, <1>n, <2>4, <2>5, BoundSame
      <3>3. QED
        BY <2>2, <3>1, <3>2 DEF ExactInv
    <2>6. ASSUME plan # NoPlan, ~written,
                 \/ table' = Output /\ stale' = stale \ Touched
                 \/ table' = table /\ stale' = stale \cup Touched
                 \/ table' = table /\ stale' = stale /\ ~written',
                 \A i \in inflight' : i \in inflight \/ (i.keys = Touched /\ i.rows = aggregate)
          PROVE  ExactInv'
      <3>1. Running = OnTime
        BY <2>6 DEF Running
      <3>2. BoundInv'
        BY <2>1, <2>3, <2>6, WrittenIsBound
      <3>3. ASSUME NEW k \in Keys \ stale', NEW m \in Markets
            PROVE  /\ table'[k][m] \in {Exact(counted, k, m), Exact(counted \cup OnTime, k, m)}
                   /\ written' => table'[k][m] = Exact(counted \cup OnTime, k, m)
        <4>1. CASE table' = Output /\ stale' = stale \ Touched
          BY <2>6, <3>3, <4>1, OutputIsExact
        <4>2. CASE table' = table /\ stale' = stale \cup Touched
          <5>1. k \notin stale /\ k \notin Touched /\ Output[k] = table[k]
            BY <3>3, <4>2 DEF Output
          <5>2. Output[k][m] = Exact(counted \cup OnTime, k, m)
            BY <2>6, <5>1, OutputIsExact
          <5>3. QED
            BY <4>2, <5>1, <5>2
        <4>3. CASE table' = table /\ stale' = stale /\ ~written'
          <5>1. k \in Keys \ stale /\ table'[k][m] = table[k][m]
            BY <3>3, <4>3
          <5>2. table[k][m] \in {Exact(counted, k, m), Exact(counted \cup OnTime, k, m)}
            BY <1>0, <3>1, <5>1 DEF RowsInv
          <5>3. QED
            BY <4>3, <5>1, <5>2
        <4>4. QED
          BY <2>6, <4>1, <4>2, <4>3
      <3>4. RowsInv'
        <4> SUFFICES ASSUME NEW k \in Keys \ stale', NEW m \in Markets
                     PROVE  /\ table'[k][m] \in {Exact(counted, k, m)', Exact(counted \cup Running, k, m)'}
                            /\ written' => table'[k][m] = Exact(counted \cup Running, k, m)'
          BY DEF RowsInv
        <4>1. /\ Exact(counted, k, m)' = Exact(counted, k, m)
              /\ Exact(counted \cup Running, k, m)' = Exact(counted \cup OnTime, k, m)
          BY <2>4, <3>1
        <4>2. /\ table'[k][m] \in {Exact(counted, k, m), Exact(counted \cup OnTime, k, m)}
              /\ written' => table'[k][m] = Exact(counted \cup OnTime, k, m)
          BY <3>3
        <4>3. QED
          BY <4>1, <4>2, Zenon
      <3>5. QED
        BY <2>2, <3>2, <3>4 DEF ExactInv
    <2>7. ASSUME FailedInsert(effect)
          PROVE  /\ effect = "applied" => plan # NoPlan /\ ~written /\ table' = Output /\ inflight' = inflight
                 /\ effect = "running" => plan # NoPlan /\ ~written /\ table' = table
                 /\ effect = "none" => table' = table /\ inflight' = inflight
                 /\ \A i \in inflight' : i \in inflight \/ (i.keys = Touched /\ i.rows = aggregate)
      <3>1. /\ effect = "applied" => plan # NoPlan /\ ~written /\ table' = Output /\ inflight' = inflight
            /\ effect = "running" => plan # NoPlan /\ ~written /\ table' = table
            /\ effect = "none" => table' = table /\ inflight' = inflight
        BY <2>7 DEF FailedInsert
      <3>2. \/ inflight' = inflight
            \/ inflight' = inflight \cup {[n |-> faults + crashes, keys |-> Touched, rows |-> aggregate]}
        BY <2>7 DEF FailedInsert
      <3>3. \A i \in inflight' : i \in inflight \/ (i.keys = Touched /\ i.rows = aggregate)
        BY <3>2
      <3>4. QED
        BY <3>1, <3>3
    <2>8. CASE Write
      <3>1. /\ plan # NoPlan /\ ~written /\ table' = Output /\ stale' = stale \ Touched
            /\ inflight' = inflight
        BY <2>8 DEF Write
      <3>2. \A i \in inflight' : i \in inflight \/ (i.keys = Touched /\ i.rows = aggregate)
        BY <3>1
      <3>3. QED
        BY <2>6, <3>1, <3>2
    <2>9. CASE WriteDeadLetter(effect)
      <3>1. /\ plan # NoPlan /\ ~written /\ FailedInsert(effect)
            /\ stale' = IF effect = "applied" THEN stale \ Touched ELSE stale \cup Touched
        BY <2>9 DEF WriteDeadLetter
      <3>2. QED
        BY <2>6, <2>7, <3>1 DEF Effects
    <2>10. CASE WriteRaises(effect) \/ Crash(effect)
      <3>1. /\ FailedInsert(effect) /\ (written' => written)
            /\ stale' = IF effect = "applied" THEN stale \ Touched ELSE stale
        BY <2>10 DEF WriteRaises, Crash
      <3>2. CASE effect = "none"
        BY <2>5, <2>7, <3>1, <3>2
      <3>3. CASE effect # "none"
        BY <2>6, <2>7, <3>1, <3>3 DEF Effects
      <3>4. QED
        BY <3>2, <3>3
    <2>11. QED
      BY <1>5, <2>8, <2>9, <2>10
  <1>l. ASSUME NEW i \in inflight, NEW applied \in BOOLEAN, LateInsertEnds(i, applied) PROVE ExactInv'
    <2>1. /\ UNCHANGED <<log, offsets, plan, totals, watermark, counted, written>>
          /\ inflight' = inflight \ {i}
          /\ table' = [k \in Keys |-> IF applied /\ k \in i.keys THEN i.rows[k] ELSE table[k]]
          /\ stale' = stale \cup {k \in Keys : table'[k] # table[k]}
      BY <1>l DEF LateInsertEnds, checkpoint, history
    <2>2. CountedInv' /\ StateInv'
      BY <1>0, <2>1 DEF CountedInv, InLog, StateInv, Exact, Key, Trade
    <2>3. Running' = Running
      BY <2>1 DEF Running, OnTime, prepare_for_aggregate, Batch, lag_bad, Late, WindowEnd, Key, Trade
    <2>4. \A k, m : /\ Exact(counted, k, m)' = Exact(counted, k, m)
                    /\ Exact(counted \cup Running, k, m)' = Exact(counted \cup Running, k, m)
      BY <2>1, <2>3 DEF Exact, Key, Trade
    <2>5. ASSUME NEW k \in Keys \ stale' PROVE k \in Keys \ stale /\ table'[k] = table[k]
      BY <2>1, <2>5
    <2>6. RowsInv'
      <3> SUFFICES ASSUME NEW k \in Keys \ stale', NEW m \in Markets
                   PROVE  /\ table'[k][m] \in {Exact(counted, k, m)', Exact(counted \cup Running, k, m)'}
                          /\ written' => table'[k][m] = Exact(counted \cup Running, k, m)'
        BY DEF RowsInv
      <3>1. k \in Keys \ stale /\ table'[k] = table[k] /\ written' = written
        BY <2>1, <2>5
      <3>2. /\ table[k][m] \in {Exact(counted, k, m), Exact(counted \cup Running, k, m)}
            /\ written => table[k][m] = Exact(counted \cup Running, k, m)
        BY <1>0, <3>1 DEF RowsInv
      <3>3. QED
        BY <2>4, <3>1, <3>2
    <2>7. ASSUME NEW k \in Keys, NEW m \in Markets
          PROVE  /\ table'[k][m] <= Exact(counted \cup Running, k, m)
                 /\ \A j \in inflight' : k \in j.keys => j.rows[k][m] <= Exact(counted \cup Running, k, m)
      BY <1>0, <2>1 DEF BoundInv
    <2>8. BoundInv'
      BY <2>4, <2>7 DEF BoundInv
    <2>9. QED
      BY <2>2, <2>6, <2>8 DEF ExactInv
  <1>6. ASSUME Commit PROVE ExactInv'
    <2>1. /\ plan # NoPlan /\ written /\ offsets' = plan.ends /\ plan' = NoPlan /\ ~written'
          /\ totals' = Evict(aggregate) /\ counted' = counted \cup OnTime
          /\ watermark' = Watermark(prepare_for_aggregate)
          /\ UNCHANGED <<log, table, inflight, stale>>
      BY <1>0, <1>6 DEF Commit, FlowInv
    <2>2. /\ Batch \subseteq InLog /\ prepare_for_aggregate \in SUBSET InLog
          /\ OnTime \subseteq Batch
      BY <2>1, BatchInLog DEF prepare_for_aggregate, OnTime
    <2>3. /\ watermark \in Nat /\ plan.watermark = watermark
          /\ watermark' \in Nat /\ watermark' >= watermark
      BY <1>0, <2>1, <2>2, NextWatermark DEF FlowInv
    <2>4. CountedInv'
      <3>1. /\ Inside(offsets) /\ Inside(plan.ends) /\ offsets' # NoOffsets
            /\ \A m \in Markets, p \in Partitions : offsets[m][p] <= plan.ends[m][p]
        <4>1. DOMAIN NoOffsets = {} /\ Markets # {} /\ \A o \in Offsets : DOMAIN o = Markets
          BY DEF NoOffsets, Markets, Offsets
        <4>2. QED
          BY <1>0, <2>1, <4>1 DEF FlowInv, Inside
      <3>2. ASSUME NEW t \in counted' PROVE t \in InLog /\ t[3] <= plan.ends[t[1]][t[2]]
        <4>1. t \in InLog
          BY <1>0, <2>1, <2>2 DEF CountedInv
        <4>2. t[1] \in Markets /\ t[2] \in Partitions /\ t[3] \in Nat
          BY <4>1, StreamAssumption DEF InLog, Places
        <4>3. /\ offsets[t[1]][t[2]] \in Nat /\ plan.ends[t[1]][t[2]] \in Nat
              /\ offsets[t[1]][t[2]] <= plan.ends[t[1]][t[2]]
          BY <3>1, <4>2 DEF Inside, Offsets
        <4>4. \/ t[3] <= offsets[t[1]][t[2]]
              \/ t[3] \in (offsets[t[1]][t[2]] + 1)..plan.ends[t[1]][t[2]]
          BY <1>0, <2>1, <2>2 DEF CountedInv, Batch
        <4>5. QED
          BY <4>1, <4>2, <4>3, <4>4
      <3>3. QED
        BY <2>1, <3>1, <3>2 DEF CountedInv, InLog
    <2>5. \A k, m : Exact(counted, k, m)' = Exact(counted \cup OnTime, k, m)
      BY <2>1 DEF Exact, Key, Trade
    <2>6. ASSUME NEW k \in Keys, NEW m \in Markets, k.start + WindowDuration > watermark'
          PROVE  totals'[k][m] = Exact(counted \cup OnTime, k, m)
      <3>1. k.start + WindowDuration \in Int
        BY StreamAssumption DEF Keys
      <3>2. k.start + WindowDuration > watermark
        BY <2>3, <2>6, <3>1
      <3>3. totals'[k] = aggregate[k]
        BY <2>1, <2>3, <3>1, <3>2 DEF Evict
      <3>4. QED
        BY <1>0, <2>1, <3>2, <3>3, AggregateIsExact
    <2>7. StateInv'
      BY <2>5, <2>6 DEF StateInv
    <2>8. Running = OnTime /\ Running' = {}
      BY <2>1 DEF Running
    <2>9. \A k \in Keys \ stale, m \in Markets : table[k][m] = Exact(counted \cup OnTime, k, m)
      BY <1>0, <2>1, <2>8 DEF RowsInv
    <2>10. RowsInv'
      BY <2>1, <2>5, <2>9 DEF RowsInv
    <2>11. \A k, m : Exact(counted \cup Running, k, m)' = Exact(counted \cup Running, k, m)
      <3>1. counted' \cup Running' = counted \cup Running
        BY <2>1, <2>8
      <3>2. QED
        BY <2>1, <3>1 DEF Exact, Key, Trade
    <2>12. BoundInv'
      BY <1>0, <1>n, <2>1, <2>11, BoundSame
    <2>13. QED
      BY <2>4, <2>7, <2>10, <2>12 DEF ExactInv
  <1>7. CASE Write
    <2>1. "none" \in Effects
      BY DEF Effects
    <2>2. QED
      BY <1>5, <1>7, <2>1
  <1>8. CASE UNCHANGED vars \/ Tick
    BY <1>1, <1>8 DEF vars, Tick, checkpoint, history
  <1>9. QED
    BY <1>2, <1>3, <1>4, <1>5, <1>6, <1>7, <1>8, <1>l DEF Next

(* However batches are cut off, run again or dead-lettered, and inserts    *)
(* end after their client has given up on them: a row never counts a trade *)
(* twice, and unless it went to a dead letter or such an insert replaced   *)
(* it, it counts every accepted trade.                                     *)
THEOREM CountsAreExact == Spec => []TotalsAreExact
  <1>1. Init => ExactInv
    <2> SUFFICES ASSUME Init PROVE ExactInv
      OBVIOUS
    <2>1. counted = {} /\ plan = NoPlan /\ ~written /\ totals = NoTotals /\ table = NoTotals
      BY DEF Init
    <2>2. \A k, m : Exact(counted, k, m) = 0
      <3>1. \A k, m : {t \in counted : Key(t) = k /\ t[1] = m} = {}
        BY <2>1
      <3>2. QED
        BY <3>1, FS_EmptySet DEF Exact
    <2>3. \A k \in Keys, m \in Markets : NoTotals[k][m] = 0
      BY DEF NoTotals
    <2>4. inflight = {} /\ counted \cup Running = counted
      BY DEF Init, Running
    <2>5. QED
      BY <2>1, <2>2, <2>3, <2>4 DEF ExactInv, CountedInv, StateInv, RowsInv, BoundInv
  <1>2. ExactInv => TotalsAreExact
    BY DEF ExactInv, RowsInv, BoundInv, Running, TotalsAreExact
  <1>3. QED
    BY <1>1, <1>2, ExactStep, TypeInit, TypeStep, PTL DEF Spec
=============================================================================
