---------------------------- MODULE TopicRouting ----------------------------
(***************************************************************************)
(* Where a collector puts a record (common/config.py).  A high-frequency   *)
(* topic has its partitions divided into one contiguous span per symbol of *)
(* the routing universe; a hash of the payload picks a lane of the span.   *)
(* Records of the other topics carry their symbol as key and leave the     *)
(* partition to the producer.                                              *)
(***************************************************************************)
EXTENDS Integers, Sequences

CONSTANTS
  HighFrequencyTopics,  \* HIGH_FREQUENCY_TOPICS
  HotPartitions,        \* KAFKA_HOT_TOPIC_PARTITIONS
  DefaultPartitions,    \* KAFKA_PARTITIONS
  RoutingSymbols,       \* ROUTING_SYMBOLS
  ActiveLanes           \* KAFKA_ACTIVE_LANES: <<topic or "*", symbol or "*">> to lanes

ASSUME RoutingAssumption ==
  /\ HotPartitions \in Int /\ DefaultPartitions \in Int
  /\ RoutingSymbols \in Seq({RoutingSymbols[i] : i \in DOMAIN RoutingSymbols})
  /\ \A i, j \in DOMAIN RoutingSymbols : RoutingSymbols[i] = RoutingSymbols[j] => i = j
  /\ \A k \in DOMAIN ActiveLanes : ActiveLanes[k] \in Nat \ {0}

AtLeast(n, lower) == IF n < lower THEN lower ELSE n
AtMost(n, upper) == IF n > upper THEN upper ELSE n

get_topic_partition_count(topic) ==
  AtLeast(IF topic \in HighFrequencyTopics THEN HotPartitions ELSE DefaultPartitions, 1)

Hot(topic) == topic \in HighFrequencyTopics /\ get_topic_partition_count(topic) > 1

(* The universe a symbol is routed in: one that it is not in is extended   *)
(* by it, each time anew.                                                  *)
Listed(s) == \E i \in DOMAIN RoutingSymbols : RoutingSymbols[i] = s
Universe(s) == IF Listed(s) THEN RoutingSymbols ELSE Append(RoutingSymbols, s)
Index(s) == (CHOOSE i \in DOMAIN Universe(s) : Universe(s)[i] = s) - 1

(* Mutant: every span starts where equal spans would, but the first ones   *)
(* still take one of the partitions left over.                             *)
SpanStartsEven(index, symbols, partitions) ==
  IF partitions < symbols
  THEN [first |-> index % partitions, end |-> (index % partitions) + 1]
  ELSE LET base == partitions \div symbols
       IN  [first |-> base * index,
            end |-> base * index + base + (IF index < partitions % symbols THEN 1 ELSE 0)]

(* The span of the symbol at `index` (from 0) of a universe of `symbols`.  *)
Span(index, symbols, partitions) ==
  IF partitions < symbols
  THEN [first |-> index % partitions, end |-> (index % partitions) + 1]
  ELSE LET base  == partitions \div symbols
           extra == partitions % symbols
           first == base * index + AtMost(index, extra)
       IN  [first |-> first, end |-> first + base + (IF index < extra THEN 1 ELSE 0)]

get_symbol_partition_span(topic, s) ==
  IF Hot(topic) THEN Span(Index(s), Len(Universe(s)), get_topic_partition_count(topic))
  ELSE [first |-> 0, end |-> get_topic_partition_count(topic)]

(* An override for the topic and the symbol, for the topic, for the        *)
(* symbol, for everything: the first there is.                             *)
LaneKeys(topic, s) == << <<topic, s>>, <<topic, "*">>, <<"*", s>>, <<"*", "*">> >>
Overrides(topic, s) == {i \in 1..4 : LaneKeys(topic, s)[i] \in DOMAIN ActiveLanes}

get_active_lane_count(topic, s, shards) ==
  IF shards <= 1 THEN 1
  ELSE IF Overrides(topic, s) = {} THEN shards
  ELSE LET i == CHOOSE i \in Overrides(topic, s) : \A j \in Overrides(topic, s) : i <= j
       IN  AtLeast(AtMost(ActiveLanes[LaneKeys(topic, s)[i]], shards), 1)

(* The partition of a record of a high-frequency topic; hash is that of    *)
(* its routing seed, which is made of the trade's or the update's own      *)
(* number, not of the time at which it is sent.                            *)
build_partition_route(topic, s, hash) ==
  LET span  == get_symbol_partition_span(topic, s)
      lanes == get_active_lane_count(topic, s, AtLeast(span.end - span.first, 1))
  IN  span.first + (hash % lanes)
=============================================================================
