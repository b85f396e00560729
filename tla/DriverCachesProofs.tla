------------------------- MODULE DriverCachesProofs -------------------------
(***************************************************************************)
(* Proofs about DriverCaches, for any quotes, windows, settings of the     *)
(* gate and of the staleness limit, and any number of faults.              *)
(***************************************************************************)
EXTENDS DriverCaches, FiniteSetTheorems, TLAPS

Quote == [m : Markets, at : Int, has : SUBSET Columns]

-----------------------------------------------------------------------------
(* The cached quotes.                                                      *)

(* Only the topics of the configured mode have quotes, and a topic of one  *)
(* market has no others.                                                   *)
TopicInv ==
  /\ \A m \in Markets : rollup => Len(quotes[m]) = 0
  /\ ~rollup => Len(quotes["rollup"]) = 0
  /\ \A m \in Markets : \A i \in 1..Len(quotes[m]) : quotes[m][i].m = m

(* What is cached was read.                                                *)
SourceInv ==
  \A m \in Markets : book[m] # NoBook => book[m] \in [Columns -> 1..read[TopicOf(m)]]

TypeInv == TypeOK /\ TopicInv /\ SourceInv

(* The rows a handler gets are next in its topic.                          *)
LEMMA GivenRead ==
  ASSUME NEW t \in Topics, NEW n \in Nat, TypeOK, n <= Len(quotes[t]) - read[t]
  PROVE  /\ Given(t, n) \subseteq 1..(read[t] + n)
         /\ read[t] + n <= Len(quotes[t])
         /\ \A i \in Given(t, n) : i \in 1..Len(quotes[t]) /\ Passes(quotes[t][i]) /\ quotes[t][i] \in Quote
  <1>a. quotes \in [Topics -> Seq(Quote)]
    BY DEF TypeOK, Quote
  <1>b. read \in [Topics -> Nat]
    BY DEF TypeOK
  <1>1. quotes[t] \in Seq(Quote) /\ read[t] \in Nat /\ Len(quotes[t]) \in Nat
    BY <1>a, <1>b
  <1>2. (read[t] + 1)..(read[t] + n) \subseteq 1..Len(quotes[t])
    BY <1>1
  <1>3. Given(t, n) \subseteq (read[t] + 1)..(read[t] + n)
    BY DEF Given
  <1>4. \A i \in Given(t, n) : Passes(quotes[t][i])
    BY DEF Given
  <1>5. QED
    BY <1>1, <1>2, <1>3, <1>4

(* Unless the gate only observes, last() takes all columns from one row.   *)
LEMMA LastIsOneRow ==
  ASSUME NEW t \in Topics, NEW R, NEW pick \in LastOf(t, R), ~observe,
         \A i \in R : Passes(quotes[t][i])
  PROVE  \E i \in R : pick = [c \in Columns |-> i]
  <1>1. PICK i \in R : \A c \in Columns :
          IF c \in quotes[t][i].has THEN pick[c] = i ELSE c \in quotes[t][pick[c]].has
    BY DEF LastOf
  <1>2. quotes[t][i].has = Columns
    BY <1>1 DEF Passes
  <1>3. \A c \in Columns : pick[c] = i
    BY <1>1, <1>2
  <1>4. pick \in [Columns -> R]
    BY DEF LastOf
  <1>5. pick = [c \in Columns |-> i]
    BY <1>3, <1>4
  <1>6. QED
    BY <1>1, <1>5

(* A batch of quotes leaves the book of a market alone, or fills it from   *)
(* the rows of the topic the market is read from: unless the gate only     *)
(* observes, from one row of that market.                                  *)
LEMMA BookFromBatch ==
  ASSUME TypeInv, NEW t \in Topics, NEW n \in 1..MaxQuotes, UpdateBook(t, n), NEW m \in Markets
  PROVE  \/ book'[m] = book[m]
         \/ /\ TopicOf(m) = t /\ book'[m] \in [Columns -> Given(t, n)]
            /\ ~observe => \E i \in Given(t, n) : book'[m] = [c \in Columns |-> i] /\ quotes[t][i].m = m
  <1> USE CachesAssumption
  <1>0. n \in Nat /\ n >= 1 /\ n <= Len(quotes[t]) - read[t]
    BY DEF UpdateBook
  <1>a. TypeOK /\ TopicInv
    BY DEF TypeInv
  <1>b. quotes \in [Topics -> Seq(Quote)] /\ read \in [Topics -> Nat]
    BY <1>a DEF TypeOK, Quote
  <1>1. TypeOK /\ TopicInv /\ read[t] \in Nat /\ Len(quotes[t]) \in Nat
    BY <1>a, <1>b
  <1>2. Len(quotes[t]) # 0
    BY <1>0, <1>1
  <1>3. \A i \in Given(t, n) : i \in 1..Len(quotes[t]) /\ Passes(quotes[t][i])
    BY <1>0, <1>1, GivenRead
  <1>4. CASE t = "rollup"
    <2>1. rollup
      BY <1>1, <1>2, <1>4 DEF TopicInv
    <2>2. TopicOf(m) = t
      BY <2>1, <1>4 DEF TopicOf
    <2>3. book'[m] = book[m] \/ book'[m] \in Newest(m, Given("rollup", n))
      BY <1>4 DEF UpdateBook, _update_rollup_bt
    <2>4. ASSUME book'[m] \in Newest(m, Given("rollup", n))
          PROVE  \E i \in Given(t, n) : book'[m] = [c \in Columns |-> i] /\ quotes[t][i].m = m
      BY <2>4, <1>4 DEF Newest
    <2>5. QED
      BY <2>2, <2>3, <2>4
  <1>5. CASE t # "rollup"
    <2>1. t \in Markets /\ ~rollup
      BY <1>1, <1>2, <1>5 DEF TopicInv, Topics
    <2>2. TopicOf(t) = t
      BY <2>1 DEF TopicOf
    <2>3. book \in [Markets -> {NoBook} \cup [Columns -> Nat]]
      BY <1>1 DEF TypeOK
    <2>4. book' = book \/ \E pick \in LastOf(t, Given(t, n)) : book' = [book EXCEPT ![t] = pick]
      BY <1>5 DEF UpdateBook, _update_bt
    <2>5. CASE book' = book \/ m # t
      BY <2>3, <2>4, <2>5, <2>1
    <2>6. ASSUME m = t, NEW pick \in LastOf(t, Given(t, n)), book' = [book EXCEPT ![t] = pick]
          PROVE  /\ TopicOf(m) = t /\ book'[m] \in [Columns -> Given(t, n)]
                 /\ ~observe => \E i \in Given(t, n) : book'[m] = [c \in Columns |-> i] /\ quotes[t][i].m = m
      <3>1. book'[m] = pick
        BY <2>3, <2>6, <2>1
      <3>2. pick \in [Columns -> Given(t, n)]
        BY DEF LastOf
      <3>3. \A i \in Given(t, n) : quotes[t][i].m = m
        BY <1>1, <1>3, <2>1, <2>6 DEF TopicInv
      <3>4. ~observe => \E i \in Given(t, n) : pick = [c \in Columns |-> i]
        BY <1>3, LastIsOneRow
      <3>5. QED
        BY <2>2, <2>6, <3>1, <3>2, <3>3, <3>4
    <2>7. QED
      BY <2>4, <2>5, <2>6
  <1>6. QED
    BY <1>4, <1>5

-----------------------------------------------------------------------------
(* A batch of the open interest.                                           *)

(* The rows of a batch: at least one, each with a planned value.           *)
LEMMA BatchShape ==
  ASSUME TypeOK, oiPlan > oiDone, NEW s \in Batches
  PROVE  \E k \in Nat \ {0} : s \in [1..k -> (oiDone + 1)..oiPlan]
  <1> DEFINE planned == (oiDone + 1)..oiPlan
             touched == {WindowOf(v) : v \in planned}
             f == [v \in planned |-> WindowOf(v)]
  <1>1. oiDone \in Nat /\ oiPlan \in Nat
    BY DEF TypeOK
  <1>2. IsFiniteSet(planned)
    BY <1>1, FS_Interval
  <1>3. f \in Surjection(planned, touched)
    BY DEF Surjection
  <1>4. IsFiniteSet(touched)
    BY <1>2, <1>3, FS_Surjection
  <1>5. oiPlan \in planned
    BY <1>1
  <1>6. touched # {}
    BY <1>5
  <1>7. Cardinality(touched) \in Nat /\ Cardinality(touched) # 0
    BY <1>4, <1>6, FS_CardinalityType, FS_EmptySet
  <1>8. s \in [1..Cardinality(touched) -> planned]
    BY DEF Batches
  <1>9. QED
    BY <1>7, <1>8

(* _calc_change_pct: the rows have the values and the bases of the batch,  *)
(* the first of them the remembered one; the last value is remembered.     *)
LEMMA ChangeRows ==
  ASSUME TypeOK, _calc_change_pct
  PROVE  /\ oiRows' \in Seq(OiRows) /\ prev' \in Nat
         /\ \E i \in DOMAIN oiRows' : prev' = oiRows'[i].at
         /\ \A i \in DOMAIN oiRows' :
              oiRows'[i].base = prev \/ \E j \in DOMAIN oiRows' : oiRows'[i].base = oiRows'[j].at
  <1>1. PICK s \in Batches :
          /\ oiRows' = [i \in DOMAIN s |-> [at |-> s[i], base |-> IF i = 1 THEN prev ELSE s[i - 1]]]
          /\ prev' = s[Len(s)]
    BY DEF _calc_change_pct
  <1>2. oiPlan > oiDone /\ oiDone \in Nat /\ oiPlan \in Nat /\ prev \in Nat
    BY DEF _calc_change_pct, TypeOK
  <1>3. PICK k \in Nat \ {0} : s \in [1..k -> (oiDone + 1)..oiPlan]
    BY <1>2, BatchShape
  <1>4. s \in Seq(Nat) /\ Len(s) = k /\ DOMAIN s = 1..k /\ \A i \in 1..k : s[i] \in Nat
    BY <1>2, <1>3
  <1>5. \A i \in 1..k : i # 1 => i - 1 \in 1..k
    BY <1>3
  <1>6. /\ DOMAIN oiRows' = 1..k
        /\ \A i \in 1..k : /\ oiRows'[i] \in OiRows /\ oiRows'[i].at = s[i]
                            /\ oiRows'[i].base = IF i = 1 THEN prev ELSE s[i - 1]
    <2>1. oiRows' = [i \in 1..k |-> [at |-> s[i], base |-> IF i = 1 THEN prev ELSE s[i - 1]]]
      BY <1>1, <1>4
    <2>2. SUFFICES ASSUME NEW i \in 1..k
                   PROVE  /\ oiRows'[i] \in OiRows /\ oiRows'[i].at = s[i]
                          /\ oiRows'[i].base = IF i = 1 THEN prev ELSE s[i - 1]
      BY <2>1
    <2>3. oiRows'[i] = [at |-> s[i], base |-> IF i = 1 THEN prev ELSE s[i - 1]]
      BY <2>1
    <2>4. (IF i = 1 THEN prev ELSE s[i - 1]) \in Nat
      BY <1>2, <1>4, <1>5
    <2>5. s[i] \in Nat
      BY <1>4
    <2>6. QED
      BY <2>3, <2>4, <2>5 DEF OiRows
  <1>7. oiRows' \in Seq(OiRows)
    <2>1. oiRows' \in [1..k -> OiRows]
      BY <1>1, <1>4, <1>6
    <2>2. QED
      BY <2>1, <1>3
  <1>8. k \in 1..k
    BY <1>3
  <1>9. prev' = s[k] /\ prev' \in Nat
    BY <1>1, <1>4, <1>8
  <1>10. ASSUME NEW i \in 1..k
         PROVE  oiRows'[i].base = prev \/ \E j \in 1..k : oiRows'[i].base = oiRows'[j].at
    <2>1. CASE i = 1
      BY <1>6, <2>1
    <2>2. CASE i # 1
      <3>1. oiRows'[i].base = s[i - 1] /\ i - 1 \in 1..k
        BY <1>5, <1>6, <2>2
      <3>2. oiRows'[i - 1].at = s[i - 1]
        BY <1>6, <3>1
      <3>3. QED
        BY <3>1, <3>2
    <2>3. QED
      BY <2>1, <2>2
  <1>11. oiRows'[k].at = prev'
    BY <1>6, <1>8, <1>9
  <1>12. DOMAIN oiRows' = 1..k
    BY <1>6
  <1>13. QED
    BY <1>7, <1>8, <1>9, <1>10, <1>11, <1>12

-----------------------------------------------------------------------------
(* Type correctness.                                                       *)

(* A step that leaves the quotes and the books alone keeps what is known   *)
(* of them.                                                                *)
LEMMA BooksUntouched ==
  ASSUME TypeInv, UNCHANGED <<config, quotes, read, book>>
  PROVE  TopicInv' /\ SourceInv'
  BY DEF TypeInv, TopicInv, SourceInv, TopicOf, config

(* The time of a cached quote is a number.                                 *)
LEMMA EventTimeType ==
  ASSUME TypeInv, NEW m \in Markets, book[m] # NoBook
  PROVE  EventTime(m) \in Int
  <1>1. TopicOf(m) \in Topics
    BY DEF TopicOf, Topics
  <1>2. quotes \in [Topics -> Seq(Quote)] /\ read \in [Topics -> Nat]
    BY DEF TypeInv, TypeOK, Quote
  <1>3. read[TopicOf(m)] <= Len(quotes[TopicOf(m)])
    BY <1>1 DEF TypeInv, TypeOK
  <1>4. quotes[TopicOf(m)] \in Seq(Quote) /\ read[TopicOf(m)] \in Nat
    BY <1>1, <1>2
  <1>5. book[m]["time"] \in 1..read[TopicOf(m)]
    BY DEF TypeInv, SourceInv, Columns
  <1>6. book[m]["time"] \in 1..Len(quotes[TopicOf(m)])
    BY <1>3, <1>4, <1>5
  <1>7. quotes[TopicOf(m)][book[m]["time"]] \in Quote
    BY <1>4, <1>6
  <1>8. QED
    BY <1>7 DEF EventTime, Quote

LEMMA SnapshotType ==
  ASSUME TypeInv, NEW m \in Markets
  PROVE  _apply_bookticker_snapshot(m) \in Int
  <1>1. CASE Fresh(m)
    BY <1>1, EventTimeType DEF Fresh, _apply_bookticker_snapshot
  <1>2. CASE ~Fresh(m)
    BY <1>2 DEF _apply_bookticker_snapshot, None
  <1>3. QED
    BY <1>1, <1>2

LEMMA TypeInit == Init => TypeInv
  <1> SUFFICES ASSUME Init PROVE TypeInv
    OBVIOUS
  <1>1. TypeOK
    <2>1. rollup \in BOOLEAN /\ observe \in BOOLEAN
      BY CachesAssumption DEF Init
    <2>2. quotes \in [Topics -> Seq([m : Markets, at : Int, has : SUBSET Columns])]
      BY DEF Init
    <2>3. read \in [Topics -> Nat] /\ \A t \in Topics : read[t] <= Len(quotes[t])
      BY DEF Init
    <2>4. oiRows \in Seq(OiRows) /\ oi \in [Windows -> OiRows \cup {NoRow}]
      BY DEF Init
    <2>5. book \in [Markets -> {NoBook} \cup [Columns -> Nat]]
      BY DEF Init
    <2>6. QED
      BY <2>1, <2>2, <2>3, <2>4, <2>5, CachesAssumption DEF Init, TypeOK, None
  <1>2. TopicInv
    BY DEF Init, TopicInv, Topics
  <1>3. SourceInv
    BY DEF Init, SourceInv
  <1>4. QED
    BY <1>1, <1>2, <1>3 DEF TypeInv

(* A quote that arrives comes after the others of its topic.               *)
LEMMA QuoteAppended ==
  ASSUME TypeInv, NEW q \in Quotes, QuoteArrives(q)
  PROVE  /\ quotes' \in [Topics -> Seq(Quote)]
         /\ \A t \in Topics : /\ Len(quotes'[t]) >= Len(quotes[t])
                              /\ \A i \in 1..Len(quotes[t]) : quotes'[t][i] = quotes[t][i]
         /\ TopicInv'
  <1> DEFINE new == [m |-> q.m, at |-> now + q.skew, has |-> q.has]
             tq == TopicOf(q.m)
  <1>1. quotes \in [Topics -> Seq(Quote)]
    BY DEF TypeInv, TypeOK, Quote
  <1>2. q.m \in Markets /\ q.skew \in Int /\ q.has \in SUBSET Columns
    BY CachesAssumption
  <1>3. now \in Nat /\ tq \in Topics
    BY <1>2 DEF TypeInv, TypeOK, TopicOf, Topics
  <1>4. new \in Quote
    BY <1>2, <1>3 DEF Quote
  <1>5. quotes' = [quotes EXCEPT ![tq] = Append(quotes[tq], new)]
    BY DEF QuoteArrives
  <1>6. /\ quotes[tq] \in Seq(Quote) /\ Append(quotes[tq], new) \in Seq(Quote)
        /\ Len(Append(quotes[tq], new)) = Len(quotes[tq]) + 1
        /\ \A i \in 1..Len(quotes[tq]) : Append(quotes[tq], new)[i] = quotes[tq][i]
        /\ Append(quotes[tq], new)[Len(quotes[tq]) + 1] = new
    BY <1>1, <1>3, <1>4
  <1>7. quotes' \in [Topics -> Seq(Quote)]
    BY <1>1, <1>3, <1>5, <1>6
  <1>8. quotes'[tq] = Append(quotes[tq], new) /\ \A t \in Topics : t # tq => quotes'[t] = quotes[t]
    BY <1>1, <1>3, <1>5
  <1>9. ASSUME NEW t \in Topics
        PROVE  /\ Len(quotes'[t]) >= Len(quotes[t])
               /\ \A i \in 1..Len(quotes[t]) : quotes'[t][i] = quotes[t][i]
    <2>1. Len(quotes[t]) \in Nat
      BY <1>1
    <2>2. CASE t = tq
      BY <2>1, <2>2, <1>6, <1>8
    <2>3. CASE t # tq
      BY <2>1, <2>3, <1>8
    <2>4. QED
      BY <2>2, <2>3
  <1>10. rollup' = rollup
    BY DEF QuoteArrives, config
  <1>11. TopicInv'
    <2>1. TopicInv
      BY DEF TypeInv
    <2>2. \A m \in Markets : m \in Topics /\ m # "rollup"
      BY DEF Markets, Topics
    <2>3. CASE rollup
      <3>1. tq = "rollup"
        BY <2>3 DEF TopicOf
      <3>2. QED
        BY <2>1, <2>2, <2>3, <3>1, <1>8, <1>10 DEF TopicInv
    <2>4. CASE ~rollup
      <3>1. tq = q.m /\ tq # "rollup" /\ "rollup" \in Topics
        BY <2>4, <2>2, <1>2 DEF TopicOf, Topics
      <3>2. quotes'["rollup"] = quotes["rollup"]
        BY <3>1, <1>8
      <3>3. ASSUME NEW m \in Markets, NEW i \in 1..Len(quotes'[m])
            PROVE  quotes'[m][i].m = m
        <4>1. CASE m = tq
          <5>1. Len(quotes[tq]) \in Nat /\ quotes'[m] = Append(quotes[tq], new)
            BY <1>6, <1>8, <4>1
          <5>2. i \in 1..Len(quotes[tq]) \/ i = Len(quotes[tq]) + 1
            BY <1>6, <5>1, <3>3
          <5>3. QED
            BY <1>6, <5>1, <5>2, <4>1, <2>1, <3>1, <1>2 DEF TopicInv
        <4>2. CASE m # tq
          BY <4>2, <2>1, <2>2, <3>3, <1>8 DEF TopicInv
        <4>3. QED
          BY <4>1, <4>2
      <3>4. QED
        BY <2>1, <2>4, <3>2, <3>3, <1>10 DEF TopicInv
    <2>5. QED
      BY <2>3, <2>4
  <1>12. QED
    BY <1>7, <1>9, <1>11

LEMMA QuoteArrivesType ==
  ASSUME TypeInv, NEW q \in Quotes, QuoteArrives(q)
  PROVE  TypeInv'
  <1>1. /\ quotes' \in [Topics -> Seq(Quote)] /\ TopicInv'
        /\ \A t \in Topics : Len(quotes'[t]) >= Len(quotes[t])
    BY QuoteAppended
  <1>2. quotes \in [Topics -> Seq(Quote)] /\ read \in [Topics -> Nat]
    BY DEF TypeInv, TypeOK, Quote
  <1>3. \A t \in Topics : Len(quotes[t]) \in Nat /\ Len(quotes'[t]) \in Nat /\ read[t] \in Nat
    BY <1>1, <1>2
  <1>4. \A t \in Topics : read[t] <= Len(quotes[t])
    BY DEF TypeInv, TypeOK
  <1>5. \A t \in Topics : read[t] <= Len(quotes'[t])
    BY <1>1, <1>3, <1>4
  <1>6. UNCHANGED <<now, rollup, observe, read, polled, price, book, pc, row>> /\ UNCHANGED <<oiVars, faults>>
    BY DEF QuoteArrives, config, priceVars
  <1>7. TypeOK'
    BY <1>1, <1>5, <1>6 DEF TypeInv, TypeOK, Quote, oiVars
  <1>8. SourceInv'
    BY <1>6 DEF TypeInv, SourceInv, TopicOf
  <1>9. QED
    BY <1>1, <1>7, <1>8 DEF TypeInv

LEMMA UpdateBookType ==
  ASSUME TypeInv, NEW t \in Topics, NEW n \in 1..MaxQuotes, UpdateBook(t, n)
  PROVE  TypeInv'
  <1>1. TypeOK /\ SourceInv /\ n \in Nat /\ n <= Len(quotes[t]) - read[t]
    BY CachesAssumption DEF TypeInv, UpdateBook
  <1>2. read \in [Topics -> Nat] /\ read' = [read EXCEPT ![t] = read[t] + n]
    BY DEF TypeInv, TypeOK, UpdateBook
  <1>3. Given(t, n) \subseteq 1..(read[t] + n) /\ read[t] + n <= Len(quotes[t])
    BY <1>1, GivenRead
  <1>4. /\ read' \in [Topics -> Nat] /\ read'[t] = read[t] + n
        /\ \A u \in Topics : read'[u] >= read[u] /\ (u # t => read'[u] = read[u])
    BY <1>1, <1>2
  <1>5. UNCHANGED <<now, rollup, observe, quotes, polled, price, pc, row>> /\ UNCHANGED <<oiVars, faults>>
    BY DEF UpdateBook, config, kafka
  <1>6. \A u \in Topics : read'[u] <= Len(quotes[u])
    BY <1>1, <1>3, <1>4 DEF TypeOK
  <1>7. ASSUME NEW m \in Markets
        PROVE  book'[m] # NoBook => book'[m] \in [Columns -> 1..read'[TopicOf(m)]]
    <2>1. TopicOf(m) \in Topics
      BY DEF TopicOf, Topics
    <2>2. read[TopicOf(m)] \in Nat /\ read'[TopicOf(m)] \in Nat /\ read'[TopicOf(m)] >= read[TopicOf(m)]
      BY <2>1, <1>2, <1>4
    <2>3. CASE book'[m] = book[m]
      <3>1. 1..read[TopicOf(m)] \subseteq 1..read'[TopicOf(m)]
        BY <2>2
      <3>2. QED
        BY <2>3, <3>1, <1>1 DEF SourceInv
    <2>4. CASE TopicOf(m) = t /\ book'[m] \in [Columns -> Given(t, n)]
      BY <2>4, <1>3, <1>4
    <2>5. QED
      BY <2>3, <2>4, BookFromBatch
  <1>8. SourceInv'
    BY <1>5, <1>7 DEF SourceInv, TopicOf
  <1>9. book' \in [Markets -> {NoBook} \cup [Columns -> Nat]]
    <2>1. book \in [Markets -> {NoBook} \cup [Columns -> Nat]]
      BY DEF TypeInv, TypeOK
    <2>2. DOMAIN book' = Markets /\ book' = [m \in Markets |-> book'[m]]
      <3>1. CASE t = "rollup"
        BY <3>1 DEF UpdateBook, _update_rollup_bt
      <3>2. CASE t # "rollup"
        <4>1. book' = book \/ \E pick : book' = [book EXCEPT ![t] = pick]
          BY <3>2 DEF UpdateBook, _update_bt
        <4>2. QED
          BY <2>1, <4>1
      <3>3. QED
        BY <3>1, <3>2
    <2>3. ASSUME NEW m \in Markets
          PROVE  book'[m] \in {NoBook} \cup [Columns -> Nat]
      <3>1. TopicOf(m) \in Topics
        BY DEF TopicOf, Topics
      <3>2. read'[TopicOf(m)] \in Nat
        BY <1>4, <3>1
      <3>3. [Columns -> 1..read'[TopicOf(m)]] \subseteq [Columns -> Nat]
        BY <3>2
      <3>4. QED
        BY <3>3, <1>7
    <2>4. QED
      BY <2>2, <2>3
  <1>10. TypeOK'
    BY <1>4, <1>5, <1>6, <1>9 DEF TypeInv, TypeOK, oiVars
  <1>11. TopicInv'
    BY <1>5 DEF TypeInv, TopicInv
  <1>12. QED
    BY <1>8, <1>10, <1>11 DEF TypeInv

LEMMA TypeStep == TypeInv /\ [Next]_vars => TypeInv'
  <1> SUFFICES ASSUME TypeInv, [Next]_vars PROVE TypeInv'
    OBVIOUS
  <1>0. TypeOK
    BY DEF TypeInv
  <1>1. ASSUME Tick PROVE TypeInv'
    <2>1. UNCHANGED <<config, quotes, read, book>>
      BY <1>1 DEF Tick, kafka, priceVars
    <2>2. now' \in Nat /\ UNCHANGED <<config, kafka, priceVars, oiVars, faults>>
      BY <1>0, <1>1 DEF TypeOK, Tick
    <2>3. TypeOK'
      BY <1>0, <2>2 DEF TypeOK, config, kafka, priceVars, oiVars
    <2>4. QED
      BY <2>1, <2>3, BooksUntouched DEF TypeInv
  <1>2. ASSUME StartMerge PROVE TypeInv'
    <2>1. UNCHANGED <<config, quotes, read, book>>
      BY <1>2 DEF StartMerge, kafka
    <2>2. row' \in PriceRows
      BY <1>0, <1>2 DEF TypeOK, StartMerge, PriceRows, None
    <2>3. TypeOK'
      BY <1>0, <1>2, <2>2 DEF TypeOK, StartMerge, config, kafka, oiVars
    <2>4. QED
      BY <2>1, <2>3, BooksUntouched DEF TypeInv
  <1>3. ASSUME ReadFutures PROVE TypeInv'
    <2>1. UNCHANGED <<config, quotes, read, book>>
      BY <1>3 DEF ReadFutures, kafka
    <2>2. _apply_bookticker_snapshot("futures") \in Int
      BY SnapshotType DEF Markets
    <2>3. row' \in PriceRows \cup {NoRow}
      BY <1>0, <1>3, <2>2 DEF TypeOK, ReadFutures, PriceRows, NoRow
    <2>4. TypeOK'
      BY <1>0, <1>3, <2>3 DEF TypeOK, ReadFutures, config, kafka, oiVars
    <2>5. QED
      BY <2>1, <2>4, BooksUntouched DEF TypeInv
  <1>4. ASSUME ReadSpot PROVE TypeInv'
    <2>1. UNCHANGED <<config, quotes, read, book>>
      BY <1>4 DEF ReadSpot, kafka
    <2>2. _apply_bookticker_snapshot("spot") \in Int
      BY SnapshotType DEF Markets
    <2>3. row' \in PriceRows \cup {NoRow}
      BY <1>0, <1>4, <2>2 DEF TypeOK, ReadSpot, PriceRows, NoRow
    <2>4. TypeOK'
      BY <1>0, <1>4, <2>3 DEF TypeOK, ReadSpot, config, kafka, oiVars
    <2>5. QED
      BY <2>1, <2>4, BooksUntouched DEF TypeInv
  <1>5. ASSUME InsertPrice PROVE TypeInv'
    <2>1. UNCHANGED <<config, quotes, read, book>>
      BY <1>5 DEF InsertPrice, kafka
    <2>2. TypeOK'
      BY <1>0, <1>5 DEF TypeOK, InsertPrice, config, kafka, oiVars
    <2>3. QED
      BY <2>1, <2>2, BooksUntouched DEF TypeInv
  <1>6. ASSUME Poll PROVE TypeInv'
    <2>1. UNCHANGED <<config, quotes, read, book>>
      BY <1>6 DEF Poll, priceVars
    <2>2. polled' \in Nat /\ oiPlan <= polled' /\ polled' <= MaxSnapshots
      BY <1>0, <1>6, CachesAssumption DEF TypeOK, Poll
    <2>3. UNCHANGED <<now, config, quotes, priceVars, oiVars, faults>>
      BY <1>6 DEF Poll
    <2>4. TypeOK'
      BY <1>0, <2>2, <2>3 DEF TypeOK, config, priceVars, oiVars
    <2>5. QED
      BY <2>1, <2>4, BooksUntouched DEF TypeInv
  <1>7. ASSUME OiPlan PROVE TypeInv'
    <2>1. UNCHANGED <<config, quotes, read, book>>
      BY <1>7 DEF OiPlan, kafka, priceVars
    <2>2. oiPlan' \in Nat /\ oiDone <= oiPlan' /\ oiPlan' <= polled
      BY <1>0, <1>7 DEF TypeOK, OiPlan
    <2>3. UNCHANGED <<now, config, kafka, priceVars, oiDone, oi, stored, oiPc, oiRows, prev, faults>>
      BY <1>7 DEF OiPlan
    <2>4. TypeOK'
      BY <1>0, <2>2, <2>3 DEF TypeOK, config, kafka, priceVars
    <2>5. QED
      BY <2>1, <2>4, BooksUntouched DEF TypeInv
  <1>8. ASSUME _calc_change_pct PROVE TypeInv'
    <2>1. UNCHANGED <<config, quotes, read, book>>
      BY <1>8 DEF _calc_change_pct, kafka, priceVars
    <2>2. oiRows' \in Seq(OiRows) /\ prev' \in Nat
      BY <1>0, <1>8, ChangeRows
    <2>3. oiPc' = "insert" /\ UNCHANGED <<now, config, kafka, priceVars, oiDone, oiPlan, oi, stored, faults>>
      BY <1>8 DEF _calc_change_pct
    <2>4. TypeOK'
      BY <1>0, <2>2, <2>3 DEF TypeOK, config, kafka, priceVars
    <2>5. QED
      BY <2>1, <2>4, BooksUntouched DEF TypeInv
  <1>9. ASSUME InsertOi PROVE TypeInv'
    <2>1. UNCHANGED <<config, quotes, read, book>>
      BY <1>9 DEF InsertOi, kafka, priceVars
    <2>2. \A i \in DOMAIN oiRows : oiRows[i] \in OiRows
      BY <1>0 DEF TypeOK
    <2>3. stored' \subseteq Nat
      BY <1>0, <1>9, <2>2 DEF TypeOK, InsertOi, OiRows
    <2>4. oi' \in [Windows -> OiRows \cup {NoRow}]
      BY <1>0, <1>9, <2>2 DEF TypeOK, InsertOi
    <2>5. oiPc' = "commit" /\ UNCHANGED <<now, config, kafka, priceVars, oiDone, oiPlan, oiRows, prev, faults>>
      BY <1>9 DEF InsertOi
    <2>6. TypeOK'
      BY <1>0, <2>3, <2>4, <2>5 DEF TypeOK, config, kafka, priceVars
    <2>7. QED
      BY <2>1, <2>6, BooksUntouched DEF TypeInv
  <1>10. ASSUME OiCommit PROVE TypeInv'
    <2>1. UNCHANGED <<config, quotes, read, book>>
      BY <1>10 DEF OiCommit, kafka, priceVars
    <2>2. oiDone' \in Nat /\ oiDone' <= oiPlan /\ oiRows' \in Seq(OiRows) /\ oiPc' = "idle"
      BY <1>0, <1>10 DEF TypeOK, OiCommit
    <2>3. UNCHANGED <<now, config, kafka, priceVars, oiPlan, oi, stored, prev, faults>>
      BY <1>10 DEF OiCommit
    <2>4. TypeOK'
      BY <1>0, <2>2, <2>3 DEF TypeOK, config, kafka, priceVars
    <2>5. QED
      BY <2>1, <2>4, BooksUntouched DEF TypeInv
  <1>11. ASSUME ProcessEnds PROVE TypeInv'
    <2>1. /\ UNCHANGED <<now, rollup, observe, quotes, read, polled>>
          /\ UNCHANGED <<price, oiDone, oiPlan, oi, stored>>
          /\ book' = [m \in Markets |-> NoBook]
      BY <1>11 DEF ProcessEnds, config, kafka
    <2>2. faults' \in 0..MaxFaults /\ oiRows' \in Seq(OiRows)
      BY <1>0, <1>11, CachesAssumption DEF TypeOK, ProcessEnds
    <2>3. TypeOK'
      BY <1>0, <1>11, <2>1, <2>2 DEF TypeOK, ProcessEnds, None
    <2>4. TopicInv' /\ SourceInv'
      BY <2>1 DEF TypeInv, TopicInv, SourceInv
    <2>5. QED
      BY <2>3, <2>4 DEF TypeInv
  <1>12. ASSUME UNCHANGED vars PROVE TypeInv'
    <2>1. UNCHANGED <<config, quotes, read, book>>
      BY <1>12 DEF vars, kafka, priceVars
    <2>2. TypeOK'
      BY <1>0, <1>12 DEF TypeOK, vars, config, kafka, priceVars, oiVars
    <2>3. QED
      BY <2>1, <2>2, BooksUntouched DEF TypeInv
  <1>13. QED
    BY <1>1, <1>2, <1>3, <1>4, <1>5, <1>6, <1>7, <1>8, <1>9, <1>10, <1>11, <1>12,
       QuoteArrivesType, UpdateBookType
    DEF Next, InsertPriceRaises, InsertOiRaises, Crash

(* TypeOK is an invariant: every variable keeps its type, and no query     *)
(* commits more than its topic holds.                                      *)
THEOREM TypeCorrect == Spec => []TypeOK
  <1>1. TypeInv => TypeOK
    BY DEF TypeInv
  <1>2. QED
    BY <1>1, TypeInit, TypeStep, PTL DEF Spec

-----------------------------------------------------------------------------
(* The base of a change.                                                   *)

Values == {oiRows[i].at : i \in DOMAIN oiRows}

(* What is remembered was stored, or is about to be: until the insert is   *)
(* through, the batch itself is what the dictionary remembers.             *)
BaseInv ==
  /\ oiPc # "insert" => prev \in stored \cup {None}
  /\ oiPc = "insert" => /\ prev \in stored \cup {None} \cup Values
                        /\ \A i \in DOMAIN oiRows : oiRows[i].base \in stored \cup {None} \cup Values
  /\ BaseWasStored

LEMMA BaseStep == TypeInv /\ BaseInv /\ [Next]_vars => BaseInv'
  <1> SUFFICES ASSUME TypeInv, BaseInv, [Next]_vars PROVE BaseInv'
    OBVIOUS
  <1>0. TypeOK
    BY DEF TypeInv
  <1>1. ASSUME UNCHANGED <<oi, stored, oiPc, oiRows, prev>> PROVE BaseInv'
    BY <1>1 DEF BaseInv, BaseWasStored, Values
  <1>2. ASSUME _calc_change_pct PROVE BaseInv'
    <2>1. oiPc # "insert" /\ oiPc' = "insert" /\ UNCHANGED <<oi, stored>>
      BY <1>2 DEF _calc_change_pct
    <2>2. prev \in stored \cup {None}
      BY <2>1 DEF BaseInv
    <2>3. /\ \E i \in DOMAIN oiRows' : prev' = oiRows'[i].at
          /\ \A i \in DOMAIN oiRows' :
               oiRows'[i].base = prev \/ \E j \in DOMAIN oiRows' : oiRows'[i].base = oiRows'[j].at
      BY <1>0, <1>2, ChangeRows
    <2>4. prev' \in Values'
      BY <2>3 DEF Values
    <2>5. \A i \in DOMAIN oiRows' : oiRows'[i].base = prev \/ oiRows'[i].base \in Values'
      BY <2>3 DEF Values
    <2>6. QED
      BY <2>1, <2>2, <2>4, <2>5 DEF BaseInv, BaseWasStored
  <1>3. ASSUME InsertOi PROVE BaseInv'
    <2>1. /\ oiPc = "insert" /\ oiPc' = "commit" /\ prev' = prev
          /\ stored' = stored \cup Values
      BY <1>3 DEF InsertOi, Values
    <2>2. ASSUME NEW w \in Windows, oi'[w] # NoRow
          PROVE  oi'[w].base \in stored' \cup {None}
      <3>1. CASE \E i \in DOMAIN oiRows : WindowOf(oiRows[i].at) = w
        <4>1. PICK i \in DOMAIN oiRows : oi'[w] = oiRows[i]
          BY <1>3, <3>1 DEF InsertOi
        <4>2. QED
          BY <4>1, <2>1 DEF BaseInv
      <3>2. CASE ~\E i \in DOMAIN oiRows : WindowOf(oiRows[i].at) = w
        <4>1. oi'[w] = oi[w]
          BY <1>3, <3>2 DEF InsertOi
        <4>2. QED
          BY <4>1, <2>1, <2>2 DEF BaseInv, BaseWasStored
      <3>3. QED
        BY <3>1, <3>2
    <2>3. QED
      BY <2>1, <2>2 DEF BaseInv, BaseWasStored
  <1>4. ASSUME OiCommit PROVE BaseInv'
    BY <1>4 DEF OiCommit, BaseInv, BaseWasStored
  <1>5. ASSUME ProcessEnds PROVE BaseInv'
    BY <1>5 DEF ProcessEnds, BaseInv, BaseWasStored
  <1>6. QED
    BY <1>1, <1>2, <1>3, <1>4, <1>5
    DEF Next, vars, Tick, QuoteArrives, UpdateBook, StartMerge, ReadFutures, ReadSpot, InsertPrice,
        InsertPriceRaises, Poll, OiPlan, InsertOiRaises, Crash, oiVars

(* oi.py remembers a value before its insert: still, no stored change is   *)
(* against a value that was not stored, because the failed insert ends the *)
(* process and its memory.                                                 *)
THEOREM BaseIsStored == Spec => []BaseWasStored
  <1>1. Init => BaseInv
    BY DEF Init, BaseInv, BaseWasStored
  <1>2. BaseInv => BaseWasStored
    BY DEF BaseInv
  <1>3. QED
    BY <1>1, <1>2, TypeInit, TypeStep, BaseStep, PTL DEF Spec

-----------------------------------------------------------------------------
(* The cached quotes, and the basis computed from them.                    *)

(* The cached quote of a market is one that was read, of this market and   *)
(* not from further in the future than the gate admits.                    *)
RealQuote(m) ==
  \E i \in 1..read[TopicOf(m)] :
    /\ book[m] = [c \in Columns |-> i]
    /\ quotes[TopicOf(m)][i].m = m /\ quotes[TopicOf(m)][i].at <= now + MaxFuture

BookInv == ~observe => \A m \in Markets : book[m] # NoBook => RealQuote(m)

(* The configuration of the process is fixed.                              *)
LEMMA ConfigFixed == [Next]_vars => config' = config
  BY DEF Next, vars, Tick, QuoteArrives, UpdateBook, StartMerge, ReadFutures, ReadSpot, InsertPrice,
         InsertPriceRaises, Poll, OiPlan, _calc_change_pct, InsertOi, InsertOiRaises, OiCommit, Crash,
         ProcessEnds

LEMMA BookStep == TypeInv /\ BookInv /\ [Next]_vars => BookInv'
  <1> SUFFICES ASSUME TypeInv, BookInv, [Next]_vars, ~observe', NEW m \in Markets, book'[m] # NoBook
               PROVE  RealQuote(m)'
    BY DEF BookInv
  <1> DEFINE tm == TopicOf(m)
  <1>1. ~observe /\ rollup' = rollup /\ TopicOf(m)' = tm /\ tm \in Topics
    BY ConfigFixed DEF config, TopicOf, Topics
  <1>2. /\ quotes \in [Topics -> Seq(Quote)] /\ read \in [Topics -> Nat]
        /\ \A t \in Topics : read[t] <= Len(quotes[t])
    BY DEF TypeInv, TypeOK, Quote
  <1>3. now \in Nat /\ MaxFuture \in Nat
    BY CachesAssumption DEF TypeInv, TypeOK
  <1>4. quotes[tm] \in Seq(Quote) /\ read[tm] \in Nat /\ read[tm] <= Len(quotes[tm])
    BY <1>1, <1>2
  <1>5. \A i \in 1..Len(quotes[tm]) : quotes[tm][i].at \in Int
    <2>1. \A i \in 1..Len(quotes[tm]) : quotes[tm][i] \in Quote
      BY <1>4
    <2>2. QED
      BY <2>1 DEF Quote
  <1>6. \A i \in 1..read[tm] : i \in 1..Len(quotes[tm])
    BY <1>4
  <1>7. book[m] # NoBook => RealQuote(m)
    BY <1>1 DEF BookInv
  <1>8. ASSUME UNCHANGED <<now, quotes, read, book>> PROVE RealQuote(m)'
    BY <1>1, <1>7, <1>8 DEF RealQuote
  <1>9. ASSUME Tick PROVE RealQuote(m)'
    <2>1. now' = now + 1 /\ UNCHANGED <<quotes, read, book>>
      BY <1>9 DEF Tick, kafka, priceVars
    <2>2. PICK i \in 1..read[tm] :
            /\ book[m] = [c \in Columns |-> i] /\ quotes[tm][i].m = m /\ quotes[tm][i].at <= now + MaxFuture
      BY <1>7, <2>1 DEF RealQuote
    <2>3. quotes[tm][i].at <= now' + MaxFuture
      BY <2>1, <2>2, <1>3, <1>5, <1>6
    <2>4. QED
      BY <1>1, <2>1, <2>2, <2>3 DEF RealQuote
  <1>10. ASSUME NEW q \in Quotes, QuoteArrives(q) PROVE RealQuote(m)'
    <2>1. UNCHANGED <<now, read, book>>
      BY <1>10 DEF QuoteArrives, priceVars
    <2>2. \A i \in 1..Len(quotes[tm]) : quotes'[tm][i] = quotes[tm][i]
      BY <1>1, <1>10, QuoteAppended
    <2>3. QED
      BY <1>1, <1>6, <1>7, <2>1, <2>2 DEF RealQuote
  <1>11. ASSUME NEW t \in Topics, NEW n \in 1..MaxQuotes, UpdateBook(t, n) PROVE RealQuote(m)'
    <2>1. UNCHANGED <<now, quotes>> /\ read' = [read EXCEPT ![t] = read[t] + n] /\ n <= Len(quotes[t]) - read[t]
      BY <1>11 DEF UpdateBook, kafka
    <2>2. n \in Nat
      BY CachesAssumption
    <2>3. CASE book'[m] = book[m]
      <3>1. read'[tm] \in Nat /\ read'[tm] >= read[tm]
        BY <1>1, <1>2, <2>1, <2>2
      <3>2. 1..read[tm] \subseteq 1..read'[tm]
        BY <3>1, <1>4
      <3>3. QED
        BY <1>1, <1>7, <2>1, <2>3, <3>2 DEF RealQuote
    <2>4. CASE book'[m] # book[m]
      <3>1. tm = t
        BY <1>11, <2>4, BookFromBatch
      <3>2. PICK i \in Given(t, n) : book'[m] = [c \in Columns |-> i] /\ quotes[t][i].m = m
        BY <1>1, <1>11, <2>4, BookFromBatch
      <3>3. i \in 1..(read[t] + n) /\ i \in 1..Len(quotes[t]) /\ Passes(quotes[t][i])
        BY <2>1, <2>2, GivenRead DEF TypeInv
      <3>4. now - quotes[t][i].at \in -MaxFuture..MaxEventLag
        BY <1>1, <3>3 DEF Passes
      <3>5. quotes[t][i].at <= now + MaxFuture
        BY <1>3, <1>5, <3>1, <3>3, <3>4, CachesAssumption
      <3>6. i \in 1..read'[tm]
        BY <1>2, <2>1, <3>1, <3>3
      <3>7. QED
        BY <1>1, <2>1, <3>1, <3>2, <3>5, <3>6 DEF RealQuote
    <2>5. QED
      BY <2>3, <2>4
  <1>12. ASSUME ProcessEnds PROVE RealQuote(m)'
    BY <1>12 DEF ProcessEnds
  <1>13. QED
    BY <1>8, <1>9, <1>10, <1>11, <1>12
    DEF Next, vars, StartMerge, ReadFutures, ReadSpot, InsertPrice, InsertPriceRaises, Poll, OiPlan,
        _calc_change_pct, InsertOi, InsertOiRaises, OiCommit, Crash, kafka, priceVars

(* price.py takes bid, ask and time of the last quote column by column:    *)
(* behind an enforcing gate they are those of one quote all the same.      *)
THEOREM QuotesAreReal == Spec => []BookHoldsRealQuotes
  <1>1. Init => BookInv
    BY DEF Init, BookInv
  <1>2. BookInv => BookHoldsRealQuotes
    <2> SUFFICES ASSUME BookInv, ~observe, NEW m \in Markets, book[m] # NoBook
                 PROVE  /\ \E i \in 1..read[TopicOf(m)] : book[m] = [c \in Columns |-> i]
                        /\ quotes[TopicOf(m)][book[m]["time"]].m = m
      BY DEF BookHoldsRealQuotes
    <2>1. PICK i \in 1..read[TopicOf(m)] : book[m] = [c \in Columns |-> i] /\ quotes[TopicOf(m)][i].m = m
      BY DEF BookInv, RealQuote
    <2>2. book[m]["time"] = i
      BY <2>1 DEF Columns
    <2>3. QED
      BY <2>1, <2>2
  <1>3. QED
    BY <1>1, <1>2, TypeInit, TypeStep, BookStep, PTL DEF Spec

(* x, the time of a quote in a row begun at the time from and finished by  *)
(* the time to, is neither stale for it nor too far ahead.                 *)
Current(x, from, to) == x # None => from - x <= StaleAfter /\ x <= to + MaxFuture

RowInv ==
  /\ pc # "idle" => row \in PriceRows
  /\ ~observe =>
       /\ pc = "spot" => Current(row.futures, row.at, now)
       /\ pc = "insert" => Current(row.futures, row.at, row.until) /\ Current(row.spot, row.at, row.until)
       /\ price # NoRow => /\ Current(price.futures, price.at, price.until)
                           /\ Current(price.spot, price.at, price.until)

(* What the handler copies into its row is current at that moment.         *)
LEMMA SnapshotIsCurrent ==
  ASSUME TypeInv, BookInv, ~observe, NEW m \in Markets
  PROVE  Current(_apply_bookticker_snapshot(m), row.at, now)
  <1>1. CASE Fresh(m)
    <2>1. PICK i \in 1..read[TopicOf(m)] :
            book[m] = [c \in Columns |-> i] /\ quotes[TopicOf(m)][i].at <= now + MaxFuture
      BY <1>1 DEF Fresh, BookInv, RealQuote
    <2>2. book[m]["time"] = i
      BY <2>1 DEF Columns
    <2>3. EventTime(m) <= now + MaxFuture
      BY <2>1, <2>2 DEF EventTime
    <2>4. QED
      BY <1>1, <2>3 DEF Fresh, Current, _apply_bookticker_snapshot
  <1>2. CASE ~Fresh(m)
    BY <1>2 DEF Current, _apply_bookticker_snapshot
  <1>3. QED
    BY <1>1, <1>2

LEMMA RowStep == TypeInv /\ BookInv /\ RowInv /\ [Next]_vars => RowInv'
  <1> SUFFICES ASSUME TypeInv, BookInv, RowInv, [Next]_vars PROVE RowInv'
    OBVIOUS
  <1>0. observe' = observe
    BY ConfigFixed DEF config
  <1>1. now \in Nat /\ MaxFuture \in Nat
    BY CachesAssumption DEF TypeInv, TypeOK
  <1>2. ASSUME UNCHANGED <<now, price, pc, row>> PROVE RowInv'
    BY <1>0, <1>2 DEF RowInv, Current
  <1>3. ASSUME Tick PROVE RowInv'
    <2>1. now' = now + 1 /\ UNCHANGED <<price, pc, row>>
      BY <1>3 DEF Tick, priceVars
    <2>2. ASSUME ~observe, pc = "spot" PROVE Current(row.futures, row.at, now')
      <3>1. row.futures \in Int
        BY <2>2 DEF RowInv, PriceRows
      <3>2. Current(row.futures, row.at, now)
        BY <2>2 DEF RowInv
      <3>3. QED
        BY <1>1, <2>1, <3>1, <3>2 DEF Current
    <2>3. QED
      BY <1>0, <2>1, <2>2 DEF RowInv, Current
  <1>4. ASSUME StartMerge PROVE RowInv'
    <2>1. row' \in PriceRows
      BY <1>1, <1>4 DEF StartMerge, PriceRows, None
    <2>2. pc' = "futures" /\ price' = price
      BY <1>4 DEF StartMerge
    <2>3. QED
      BY <1>0, <2>1, <2>2 DEF RowInv, Current
  <1>5. ASSUME ReadFutures PROVE RowInv'
    <2>1. pc' = "spot" /\ UNCHANGED <<now, price>> /\ row \in PriceRows
      BY <1>5 DEF ReadFutures, RowInv
    <2>2. _apply_bookticker_snapshot("futures") \in Int
      BY SnapshotType DEF Markets
    <2>3. row' \in PriceRows /\ row'.at = row.at /\ row'.futures = _apply_bookticker_snapshot("futures")
      BY <1>5, <2>1, <2>2 DEF ReadFutures, PriceRows
    <2>4. ~observe => Current(row'.futures, row'.at, now')
      BY <2>1, <2>3, SnapshotIsCurrent DEF Markets
    <2>5. QED
      BY <1>0, <2>1, <2>3, <2>4 DEF RowInv, Current
  <1>6. ASSUME ReadSpot PROVE RowInv'
    <2>1. pc = "spot" /\ pc' = "insert" /\ UNCHANGED <<now, price>> /\ row \in PriceRows
      BY <1>6 DEF ReadSpot, RowInv
    <2>2. _apply_bookticker_snapshot("spot") \in Int
      BY SnapshotType DEF Markets
    <2>3. /\ row' \in PriceRows /\ row'.at = row.at /\ row'.futures = row.futures
          /\ row'.spot = _apply_bookticker_snapshot("spot") /\ row'.until = now
      BY <1>1, <1>6, <2>1, <2>2 DEF ReadSpot, PriceRows
    <2>4. ~observe => Current(row'.spot, row'.at, row'.until) /\ Current(row'.futures, row'.at, row'.until)
      BY <2>1, <2>3, SnapshotIsCurrent DEF Markets, RowInv
    <2>5. QED
      BY <1>0, <2>1, <2>3, <2>4 DEF RowInv, Current
  <1>7. ASSUME InsertPrice PROVE RowInv'
    BY <1>0, <1>7 DEF InsertPrice, RowInv, Current
  <1>8. ASSUME ProcessEnds PROVE RowInv'
    BY <1>0, <1>8 DEF ProcessEnds, RowInv, Current
  <1>9. QED
    BY <1>2, <1>3, <1>4, <1>5, <1>6, <1>7, <1>8
    DEF Next, vars, QuoteArrives, UpdateBook, InsertPriceRaises, Poll, OiPlan, _calc_change_pct, InsertOi,
        InsertOiRaises, OiCommit, Crash, priceVars

(* The handler of the mark price reads the two quotes one after the other  *)
(* while other threads replace them: behind an enforcing gate their times  *)
(* are no further apart than the limits and the handler's own duration.    *)
THEOREM BasisCurrent == Spec => []BasisIsContemporary
  <1>1. Init => BookInv /\ RowInv
    BY DEF Init, BookInv, RowInv
  <1>2. TypeInv /\ RowInv => BasisIsContemporary
    <2> SUFFICES ASSUME TypeInv, RowInv, ~observe, price # NoRow, price.futures # None, price.spot # None
                 PROVE  LET apart == StaleAfter + MaxFuture + (price.until - price.at)
                        IN  price.futures - price.spot \in -apart..apart
      BY DEF BasisIsContemporary
    <2>1. price \in PriceRows
      BY DEF TypeInv, TypeOK
    <2>2. price.at \in Nat /\ price.until \in Nat /\ price.futures \in Int /\ price.spot \in Int
      BY <2>1 DEF PriceRows
    <2>3. /\ price.at - price.futures <= StaleAfter /\ price.futures <= price.until + MaxFuture
          /\ price.at - price.spot <= StaleAfter /\ price.spot <= price.until + MaxFuture
      BY DEF RowInv, Current
    <2>4. QED
      BY <2>2, <2>3, CachesAssumption
  <1>3. QED
    BY <1>1, <1>2, TypeInit, TypeStep, BookStep, RowStep, PTL DEF Spec
=============================================================================
