------------------------- MODULE CollectorsProofs ---------------------------
(***************************************************************************)
(* Proofs about Collectors, for any collectors, pollers, endpoints, delays *)
(* and responses.                                                          *)
(***************************************************************************)
EXTENDS Collectors, WellFoundedInduction, TLAPS

-----------------------------------------------------------------------------
(* Powers of two.  Their defining equation is a fact about a recursive     *)
(* function, and is proved here by way of least counterexamples.           *)

(* Every nonempty set of natural numbers has a least element.              *)
LEMMA LeastNatural ==
  ASSUME NEW T \in SUBSET Nat, T # {}
  PROVE  \E x \in T : \A y \in T : x <= y
  <1> DEFINE R == {ss \in Nat \X Nat : ss[1] < ss[2]}
  <1>1. IsWellFoundedOn(R, Nat)
    <2>1. R = OpToRel(<, Nat)
      BY Zenon DEF OpToRel
    <2>2. QED
      BY <2>1, NatLessThanWellFounded, Zenon
  <1> HIDE DEF R
  <1>2. PICK x \in T : \A y \in T : ~(<<y, x>> \in R)
    BY <1>1, WFMin
  <1>3. ASSUME NEW y \in T PROVE x <= y
    <2>1. x \in Nat /\ y \in Nat /\ <<y, x>> \notin R
      BY <1>2
    <2>2. <<y, x>> \in R <=> y < x
      BY <2>1 DEF R
    <2>3. QED
      BY <2>1, <2>2
  <1>4. QED
    BY <1>2, <1>3

(* The first n + 1 powers of two, as a table.                              *)
Table(n, g) == /\ g \in [0..n -> Nat \ {0}] /\ g[0] = 1
               /\ \A i \in 1..n : g[i] = 2 * g[i - 1]

LEMMA TablesExist == \A n \in Nat : \E g : Table(n, g)
  <1> DEFINE T == {n \in Nat : ~\E g : Table(n, g)}
  <1> SUFFICES ASSUME T # {} PROVE FALSE
    OBVIOUS
  <1>1. PICK n \in T : \A m \in T : n <= m
    BY LeastNatural
  <1>2. n \in Nat /\ ~\E g : Table(n, g)
    BY <1>1
  <1>3. n # 0
    <2>1. Table(0, [i \in 0..0 |-> 1])
      BY DEF Table
    <2>2. QED
      BY <1>2, <2>1
  <1>4. n - 1 \in Nat /\ n - 1 \notin T
    BY <1>1, <1>2, <1>3
  <1>5. PICK g : Table(n - 1, g)
    BY <1>4
  <1> DEFINE h == [i \in 0..n |-> IF i = n THEN 2 * g[n - 1] ELSE g[i]]
  <1>6. g \in [0..(n - 1) -> Nat \ {0}] /\ g[0] = 1 /\ \A i \in 1..(n - 1) : g[i] = 2 * g[i - 1]
    BY <1>5 DEF Table
  <1>7. h \in [0..n -> Nat \ {0}] /\ h[0] = 1
    BY <1>2, <1>3, <1>4, <1>6
  <1>8. ASSUME NEW i \in 1..n PROVE h[i] = 2 * h[i - 1]
    BY <1>2, <1>3, <1>6
  <1>9. Table(n, h)
    BY <1>7, <1>8 DEF Table
  <1>10. QED
    BY <1>2, <1>9

(* Two tables agree where both are defined.                                *)
LEMMA TablesAgree ==
  ASSUME NEW m \in Nat, NEW n \in Nat, NEW g, NEW h, Table(m, g), Table(n, h)
  PROVE  \A i \in 0..m : i \in 0..n => g[i] = h[i]
  <1> DEFINE T == {i \in 0..m : i \in 0..n /\ g[i] # h[i]}
  <1> SUFFICES ASSUME T # {} PROVE FALSE
    OBVIOUS
  <1>1. T \in SUBSET Nat
    OBVIOUS
  <1>2. PICK i \in T : \A j \in T : i <= j
    BY <1>1, LeastNatural
  <1>3. i \in 0..m /\ i \in 0..n /\ g[i] # h[i]
    BY <1>2
  <1>4. i # 0
    BY <1>3 DEF Table
  <1>5. i - 1 \in 0..m /\ i - 1 \in 0..n /\ i - 1 \notin T
    BY <1>2, <1>3, <1>4
  <1>6. g[i - 1] = h[i - 1]
    BY <1>5
  <1>7. g[i] = 2 * g[i - 1] /\ h[i] = 2 * h[i - 1]
    BY <1>3, <1>4 DEF Table
  <1>8. QED
    BY <1>3, <1>6, <1>7

(* The defining equation of Power2 has a solution, so that Power2 is one.  *)
LEMMA Power2Def ==
  Power2 = [n \in Nat |-> IF n = 0 THEN 1 ELSE 2 * Power2[n - 1]]
  <1> DEFINE G(n) == CHOOSE g : Table(n, g)
             f == [n \in Nat |-> G(n)[n]]
  <1>1. \A n \in Nat : Table(n, G(n))
    BY TablesExist
  <1>2. ASSUME NEW n \in Nat PROVE f[n] = IF n = 0 THEN 1 ELSE 2 * f[n - 1]
    <2>1. CASE n = 0
      BY <2>1, <1>1 DEF Table
    <2>2. CASE n # 0
      <3>1. n - 1 \in Nat
        BY <2>2
      <3>2. Table(n, G(n)) /\ Table(n - 1, G(n - 1))
        BY <1>1, <3>1
      <3> HIDE DEF G
      <3>3. G(n)[n] = 2 * G(n)[n - 1]
        BY <2>2, <3>2 DEF Table
      <3>4. G(n)[n - 1] = G(n - 1)[n - 1]
        BY <3>1, <3>2, TablesAgree
      <3>5. QED
        BY <2>2, <3>1, <3>3, <3>4
    <2>3. QED
      BY <2>1, <2>2
  <1> HIDE DEF f
  <1>3. f = [n \in Nat |-> IF n = 0 THEN 1 ELSE 2 * f[n - 1]]
    <2>1. f = [n \in Nat |-> f[n]]
      BY DEF f
    <2>2. QED
      BY <2>1, <1>2, Zenon
  <1>4. QED
    BY <1>3, Zenon DEF Power2

(* A power of two is a positive number, and the next one is its double.    *)
LEMMA Power2Facts ==
  /\ Power2[0] = 1
  /\ \A n \in Nat : Power2[n] \in Nat \ {0} /\ Power2[n + 1] = 2 * Power2[n]
  <1>1. Power2[0] = 1
    BY Power2Def
  <1>2. \A n \in Nat : Power2[n + 1] = 2 * Power2[n]
    <2> TAKE n \in Nat
    <2>1. n + 1 \in Nat /\ n + 1 # 0 /\ (n + 1) - 1 = n
      OBVIOUS
    <2>2. QED
      BY <2>1, Power2Def
  <1> DEFINE T == {n \in Nat : Power2[n] \notin Nat \ {0}}
  <1>3. T = {}
    <2> SUFFICES ASSUME T # {} PROVE FALSE
      OBVIOUS
    <2>1. PICK n \in T : \A m \in T : n <= m
      BY LeastNatural
    <2>2. n # 0
      BY <1>1, <2>1
    <2>3. n - 1 \in Nat /\ Power2[n - 1] \in Nat \ {0}
      BY <2>1, <2>2
    <2>4. Power2[n] = 2 * Power2[n - 1]
      BY <1>2, <2>3, (n - 1) + 1 = n
    <2>5. QED
      BY <2>1, <2>3, <2>4
  <1>4. QED
    BY <1>1, <1>2, <1>3

-----------------------------------------------------------------------------
(* Delays.                                                                 *)

LEMMA MinMax ==
  ASSUME NEW a \in Int, NEW b \in Int
  PROVE  /\ Lesser(a, b) \in {a, b} /\ Lesser(a, b) <= a /\ Lesser(a, b) <= b
         /\ Larger(a, b) \in {a, b} /\ Larger(a, b) >= a /\ Larger(a, b) >= b
  BY DEF Lesser, Larger

(* Seconds are counted in a number of hundredths.                          *)
LEMMA SecondsType ==
  /\ Seconds(RestMax) \in Nat
  /\ \A p \in Pollers : Seconds(Interval[p]) \in Nat
  BY ConstantsAssumption DEF Seconds

(* A larger share of a delay is not shorter.                               *)
LEMMA ShareMonotone ==
  ASSUME NEW x \in Nat, NEW f \in Nat, NEW g \in Nat, f <= g
  PROVE  x * f \in Nat /\ x * f <= x * g
  <1>1. PICK d \in Nat : g = f + d
    <2>1. g - f \in Nat /\ g = f + (g - f)
      OBVIOUS
    <2>2. QED
      BY <2>1
  <1>2. x * f \in Nat /\ x * d \in Nat /\ x * g = x * f + x * d
    BY <1>1
  <1>3. QED
    BY <1>2

(* A jittered delay is between the shortest share and, once capped, the    *)
(* largest delay.                                                          *)
LEMMA JitterBounds ==
  ASSUME NEW x \in Nat, NEW d \in Capped(_jittered_delay(x))
  PROVE  /\ d \in Nat /\ d <= Seconds(RestMax)
         /\ d >= Lesser(x * (100 - Jitter), Seconds(RestMax))
  <1> USE ConstantsAssumption, SecondsType
  <1>1. PICK e \in _jittered_delay(x) : d = Lesser(e, Seconds(RestMax))
    BY DEF Capped
  <1>2. PICK f \in {100 - Jitter, 100, 100 + Jitter} : e = x * f
    BY <1>1 DEF _jittered_delay
  <1>3. f \in Nat /\ 100 - Jitter \in Nat /\ 100 - Jitter <= f
    BY <1>2
  <1>4. x * (100 - Jitter) \in Nat /\ x * (100 - Jitter) <= x * f
    BY <1>3, ShareMonotone
  <1>5. x * f \in Nat
    BY <1>3, ShareMonotone
  <1>6. QED
    BY <1>1, <1>2, <1>4, <1>5 DEF Lesser

(* What a response asks a poller to wait.                                  *)
Asked(r) == IF r.kind = "limited" THEN r.after
            ELSE IF r.kind = "banned" THEN Larger(Cooldown, r.after) ELSE 0

LEMMA AskedType == \A r \in Responses : Asked(r) \in Nat
  <1> SUFFICES ASSUME NEW r \in Responses PROVE Asked(r) \in Nat
    OBVIOUS
  <1>1. CASE r.kind = "limited"
    <2>1. r.after \in RetryAfters
      BY <1>1 DEF Responses
    <2>2. QED
      BY <1>1, <2>1, ConstantsAssumption DEF Asked
  <1>2. CASE r.kind = "banned"
    <2>1. r.after \in RetryAfters \cup {NoHeader}
      BY <1>2 DEF Responses
    <2>2. r.after \in Int /\ Cooldown \in Nat \ {0}
      <3>1. NoHeader \in Int
        BY DEF NoHeader
      <3>2. RetryAfters \subseteq Int /\ Cooldown \in Nat \ {0}
        BY ConstantsAssumption
      <3>3. QED
        BY <2>1, <3>1, <3>2
    <2>3. Larger(Cooldown, r.after) \in Nat
      BY <2>2 DEF Larger
    <2>4. QED
      BY <1>2, <2>3 DEF Asked
  <1>3. CASE r.kind \notin {"limited", "banned"}
    BY <1>3 DEF Asked
  <1>4. QED
    BY <1>1, <1>2, <1>3

(* A delay keeps to what the response asked for, and to the largest delay. *)
LEMMA BackoffBounds ==
  ASSUME NEW r \in Responses, NEW n \in Nat \ {0}, NEW d \in compute_backoff_delay(r, n)
  PROVE  /\ d \in Nat /\ d <= Seconds(RestMax)
         /\ d >= Lesser(Asked(r) * (100 - Jitter), Seconds(RestMax))
  <1>1. CASE r.kind \in {"limited", "banned"}
    <2>1. d \in Capped(_jittered_delay(Asked(r)))
      BY <1>1 DEF compute_backoff_delay, Asked
    <2>2. QED
      BY <2>1, AskedType, JitterBounds
  <1>2. CASE r.kind \notin {"limited", "banned"}
    <2>1. Power2[n - 1] \in Nat
      BY Power2Facts
    <2>2. RestBase * Power2[n - 1] \in Nat
      BY <2>1, ConstantsAssumption
    <2>3. d \in Capped(_jittered_delay(RestBase * Power2[n - 1]))
      BY <1>2 DEF compute_backoff_delay
    <2>4. d \in Nat /\ d <= Seconds(RestMax)
      BY <2>2, <2>3, JitterBounds
    <2>5. Asked(r) = 0
      BY <1>2 DEF Asked
    <2>6. Lesser(0 * (100 - Jitter), Seconds(RestMax)) = 0
      BY ConstantsAssumption, SecondsType DEF Lesser
    <2>7. QED
      BY <2>4, <2>5, <2>6
  <1>3. QED
    BY <1>1, <1>2

(* A failure count is positive once incremented, and saturates at a value  *)
(* that overflows.                                                         *)
LEMMA IncrementFacts ==
  ASSUME NEW f \in 0..Saturated
  PROVE  /\ Increment(f) \in 1..Saturated
         /\ Overflows(Increment(f)) => Overflows(Increment(Increment(f)))
  BY ConstantsAssumption DEF Increment, Saturated, Overflows, Lesser

-----------------------------------------------------------------------------
(* Types, reconnects and waits.                                            *)

(* A connection is given up in the step that reaches the idle limit.       *)
IdleInv == \A c \in Sockets : pc[c] \in {"recv", "process"} => idle[c] < IdleLimit

(* The reconnect delay is the base, doubled for every silent reconnect and *)
(* capped.                                                                 *)
DelayInv ==
  \A c \in Sockets : reconnect_delay[c] = Lesser(BaseDelay * Power2[silent[c]], MaxDelay)

(* PollersHoldBack for one poller.                                         *)
HoldsBack(p) ==
  pc[p] = "sleep" =>
    /\ sleep_for[p] >= Lesser(Asked(cause[p]) * (100 - Jitter), Seconds(RestMax))
    /\ sleep_for[p] <= Larger(Seconds(Interval[p]), Seconds(RestMax))

TypeInv ==
  /\ TypeOK
  /\ DOMAIN consecutive_failures = Pollers
  /\ IdleInv /\ DelayInv
  /\ \A p \in Pollers : HoldsBack(p)

Locations == {"connect", "recv", "process", "request", "sleep", "raised", "done"}

(* The part of TypeInv that is about the process and the collectors, and   *)
(* the part that is about the pollers.                                     *)
SocketInv ==
  /\ main \in {"gather", "cancelling", "ended"}
  /\ signalled \in BOOLEAN /\ closed \in BOOLEAN /\ running \in [Tasks -> BOOLEAN]
  /\ pc \in [Tasks -> Locations]
  /\ reconnect_delay \in [Sockets -> BaseDelay..MaxDelay]
  /\ idle \in [Sockets -> 0..IdleLimit]
  /\ silent \in [Sockets -> Nat] /\ after \in [Sockets -> 0..2]
  /\ IdleInv /\ DelayInv

PollerInv ==
  /\ endpoint \in [Pollers -> Nat \ {0}]
  /\ \A p \in Pollers : /\ endpoint[p] <= NumEndpoints[p]
                        /\ consecutive_failures[p] \in [1..NumEndpoints[p] -> 0..Saturated]
  /\ sleep_for \in [Pollers -> Nat] /\ cause \in [Pollers -> Responses]
  /\ DOMAIN consecutive_failures = Pollers
  /\ \A p \in Pollers : HoldsBack(p)

LEMMA TypeInvParts == TypeInv <=> SocketInv /\ PollerInv
  BY DEF TypeInv, TypeOK, SocketInv, PollerInv, Locations

(* No task is both a collector and a poller.                               *)
LEMMA Kinds ==
  /\ \A c \in Sockets : c \in Tasks /\ c \notin Pollers
  /\ \A p \in Pollers : p \in Tasks /\ p \notin Sockets
  BY ConstantsAssumption DEF Tasks

LEMMA TypeInvInit == Init => TypeInv
  <1> SUFFICES ASSUME Init PROVE SocketInv /\ PollerInv
    BY TypeInvParts
  <1> USE ConstantsAssumption DEF Init
  <1>1. signalled \in BOOLEAN /\ closed \in BOOLEAN /\ running \in [Tasks -> BOOLEAN]
    OBVIOUS
  <1>2. pc \in [Tasks -> Locations]
    BY DEF Locations
  <1>3. IdleInv
    BY DEF IdleInv
  <1>4. DelayInv
    BY Power2Facts DEF DelayInv, Lesser
  <1>5. SocketInv
    BY <1>1, <1>2, <1>3, <1>4 DEF SocketInv
  <1>6. [kind |-> "ok", after |-> NoHeader] \in Responses
    BY DEF Responses
  <1>7. ASSUME NEW p \in Pollers PROVE HoldsBack(p)
    BY Kinds DEF HoldsBack
  <1>8. ASSUME NEW p \in Pollers
        PROVE  /\ endpoint[p] <= NumEndpoints[p]
               /\ consecutive_failures[p] \in [1..NumEndpoints[p] -> 0..Saturated]
    BY DEF Saturated
  <1>9. PollerInv
    BY <1>6, <1>7, <1>8 DEF PollerInv
  <1>10. QED
    BY <1>5, <1>9

(* A step of a collector moves no poller.                                  *)
LEMMA PollersApart ==
  ASSUME PollerInv, UNCHANGED restVars, \A p \in Pollers : pc'[p] = "sleep" => pc[p] = "sleep"
  PROVE  PollerInv'
  <1>1. \A p \in Pollers : HoldsBack(p)'
    BY DEF PollerInv, HoldsBack, restVars
  <1>2. QED
    BY <1>1 DEF PollerInv, restVars

(* A step of a poller moves no collector.                                  *)
LEMMA SocketsApart ==
  ASSUME SocketInv, UNCHANGED <<main, signalled, closed, running, wsVars>>,
         NEW p \in Pollers, NEW l \in Locations, pc' = [pc EXCEPT ![p] = l]
  PROVE  SocketInv'
  <1>1. pc' \in [Tasks -> Locations] /\ \A c \in Sockets : pc'[c] = pc[c]
    BY Kinds DEF SocketInv
  <1>2. IdleInv' /\ DelayInv'
    BY <1>1 DEF SocketInv, IdleInv, DelayInv, wsVars
  <1>3. QED
    BY <1>1, <1>2 DEF SocketInv, wsVars

(* The top of a loop, and the end of a connection.                         *)
LEMMA LoopTop ==
  ASSUME SocketInv, NEW c \in Sockets, NEW l \in Locations,
         WhileRunning(c, l) \/ (l = "sleep" /\ Disconnected(c))
  PROVE  /\ pc' \in [Tasks -> Locations] /\ closed' \in BOOLEAN
         /\ pc'[c] \in {l, "done"}
         /\ \A t \in Tasks \ {c} : pc'[t] = pc[t]
  <1>1. c \in Tasks /\ pc \in [Tasks -> Locations]
    BY Kinds DEF SocketInv
  <1>2. (pc' = [pc EXCEPT ![c] = l] /\ closed' = closed)
        \/ (pc' = [pc EXCEPT ![c] = "done"] /\ closed' = TRUE)
    BY DEF WhileRunning, Disconnected, Finish, Goto
  <1>3. closed' \in BOOLEAN
    BY <1>2 DEF SocketInv
  <1>4. QED
    BY <1>1, <1>2, <1>3 DEF Locations

(* One more silent reconnect.                                              *)
LEMMA DelayDoubles ==
  ASSUME NEW s \in Nat, NEW d, d = Lesser(BaseDelay * Power2[s], MaxDelay)
  PROVE  LET t == IF BaseDelay * Power2[s] < MaxDelay THEN s + 1 ELSE s
         IN  /\ t \in Nat /\ Lesser(d * 2, MaxDelay) \in BaseDelay..MaxDelay
             /\ Lesser(d * 2, MaxDelay) = Lesser(BaseDelay * Power2[t], MaxDelay)
  <1> USE ConstantsAssumption
  <1> DEFINE x == BaseDelay * Power2[s]
  <1>1. Power2[s] \in Nat \ {0} /\ Power2[s + 1] = 2 * Power2[s]
    BY Power2Facts
  <1>2. x \in Nat /\ x >= BaseDelay
    <2>1. PICK k \in Nat : Power2[s] = k + 1
      <3>1. Power2[s] - 1 \in Nat
        BY <1>1
      <3>2. QED
        BY <1>1, <3>1
    <2>2. BaseDelay * k \in Nat /\ x = BaseDelay * k + BaseDelay
      BY <2>1
    <2>3. QED
      BY <2>2
  <1>3. BaseDelay * Power2[s + 1] = 2 * x
    BY <1>1
  <1> HIDE DEF x
  <1>4. d = Lesser(x, MaxDelay)
    BY DEF x
  <1>5. CASE x < MaxDelay
    BY <1>2, <1>3, <1>4, <1>5 DEF Lesser, x
  <1>6. CASE ~(x < MaxDelay)
    BY <1>2, <1>4, <1>6 DEF Lesser, x
  <1>7. QED
    BY <1>5, <1>6

(* A step of a collector.                                                  *)
LEMMA SocketStepType ==
  ASSUME SocketInv, NEW c \in Sockets, SocketStep(c)
  PROVE  SocketInv' /\ UNCHANGED restVars /\ \A p \in Pollers : pc'[p] = pc[p]
  <1> USE ConstantsAssumption
  <1>k. c \in Tasks /\ c \notin Pollers /\ Pollers \subseteq Tasks \ {c} /\ Sockets \subseteq Tasks
    BY Kinds
  <1>t. /\ pc \in [Tasks -> Locations] /\ idle \in [Sockets -> 0..IdleLimit]
        /\ reconnect_delay \in [Sockets -> BaseDelay..MaxDelay]
        /\ silent \in [Sockets -> Nat] /\ after \in [Sockets -> 0..2]
        /\ IdleInv /\ DelayInv
    BY DEF SocketInv
  <1> USE DEF At, wsVars
  (* Moves that leave the counters alone.                                  *)
  <1>m. ASSUME NEW l \in {"recv", "sleep"}, WhileRunning(c, l) \/ (l = "sleep" /\ Disconnected(c)),
               UNCHANGED <<main, signalled, running, wsVars, restVars>>,
               l = "recv" => pc[c] = "process"
        PROVE  SocketInv' /\ UNCHANGED restVars /\ \A p \in Pollers : pc'[p] = pc[p]
    <2>1. l \in Locations
      BY DEF Locations
    <2>2. /\ pc' \in [Tasks -> Locations] /\ closed' \in BOOLEAN
          /\ pc'[c] \in {l, "done"} /\ \A t \in Tasks \ {c} : pc'[t] = pc[t]
      BY <2>1, <1>m, LoopTop
    <2>3. IdleInv'
      BY <1>k, <1>m, <1>t, <2>2 DEF IdleInv
    <2>4. DelayInv'
      BY <1>m, <1>t DEF DelayInv
    <2>5. QED
      BY <1>k, <1>m, <2>2, <2>3, <2>4 DEF SocketInv
  <1>1. CASE Connect(c)
    <2>1. /\ pc' \in [Tasks -> Locations] /\ closed' \in BOOLEAN
          /\ pc'[c] \in {"recv", "done"} /\ \A t \in Tasks \ {c} : pc'[t] = pc[t]
      BY <1>1, LoopTop DEF Connect, Locations
    <2>2. idle' \in [Sockets -> 0..IdleLimit] /\ idle'[c] = 0 /\ \A d \in Sockets \ {c} : idle'[d] = idle[d]
      BY <1>1, <1>t DEF Connect
    <2>3. IdleInv'
      BY <1>k, <1>t, <2>1, <2>2 DEF IdleInv
    <2>4. DelayInv'
      BY <1>1, <1>t DEF Connect, DelayInv
    <2>5. QED
      BY <1>1, <1>k, <2>1, <2>2, <2>3, <2>4 DEF Connect, SocketInv
  <1>2. CASE ConnectFails(c) \/ ConnectionClosed(c)
    BY <1>2, <1>m DEF ConnectFails, ConnectionClosed
  <1>3. CASE Receive(c)
    <2>1. pc' \in [Tasks -> Locations] /\ \A t \in Tasks \ {c} : pc'[t] = pc[t]
      BY <1>3, <1>t DEF Receive, Goto, Locations
    <2>2. idle' \in [Sockets -> 0..IdleLimit] /\ idle'[c] = 0 /\ \A d \in Sockets \ {c} : idle'[d] = idle[d]
      BY <1>3, <1>t DEF Receive
    <2>3. IdleInv'
      BY <1>k, <1>t, <2>1, <2>2 DEF IdleInv
    <2>4. /\ reconnect_delay' \in [Sockets -> BaseDelay..MaxDelay] /\ silent' \in [Sockets -> Nat]
          /\ reconnect_delay'[c] = BaseDelay /\ silent'[c] = 0
          /\ \A d \in Sockets \ {c} : reconnect_delay'[d] = reconnect_delay[d] /\ silent'[d] = silent[d]
      BY <1>3, <1>t DEF Receive
    <2>5. BaseDelay = Lesser(BaseDelay * Power2[0], MaxDelay)
      BY Power2Facts DEF Lesser
    <2>6. DelayInv'
      BY <1>t, <2>4, <2>5 DEF DelayInv
    <2>7. after' \in [Sockets -> 0..2]
      <3>1. Lesser(after[c] + 1, 2) \in 0..2
        BY <1>t DEF Lesser
      <3>2. QED
        BY <1>3, <1>t, <3>1 DEF Receive
    <2>8. QED
      BY <1>3, <1>k, <2>1, <2>2, <2>3, <2>4, <2>6, <2>7 DEF Receive, SocketInv
  <1>4. CASE Process(c)
    BY <1>4, <1>m DEF Process
  <1>5. CASE RecvTimeout(c)
    <2>1. PICK l \in {"recv", "sleep"} :
            /\ WhileRunning(c, l) \/ (l = "sleep" /\ Disconnected(c))
            /\ l = "recv" => idle[c] + 1 < IdleLimit
      <3>1. idle[c] \in Nat /\ IdleLimit \in Nat
        BY <1>t
      <3>2. CASE idle[c] + 1 >= IdleLimit
        BY <1>5, <3>2 DEF RecvTimeout
      <3>3. CASE ~(idle[c] + 1 >= IdleLimit)
        BY <1>5, <3>1, <3>3 DEF RecvTimeout
      <3>4. QED
        BY <3>2, <3>3
    <2>2. l \in Locations
      BY DEF Locations
    <2>3. /\ pc' \in [Tasks -> Locations] /\ closed' \in BOOLEAN
          /\ pc'[c] \in {l, "done"} /\ \A t \in Tasks \ {c} : pc'[t] = pc[t]
      BY <2>1, <2>2, LoopTop
    <2>4. idle[c] < IdleLimit
      BY <1>5, <1>t DEF RecvTimeout, IdleInv
    <2>5. /\ idle' \in [Sockets -> 0..IdleLimit] /\ idle'[c] = idle[c] + 1
          /\ \A d \in Sockets \ {c} : idle'[d] = idle[d]
      BY <1>5, <1>t, <2>4 DEF RecvTimeout
    <2>6. IdleInv'
      BY <1>k, <1>t, <2>1, <2>3, <2>5 DEF IdleInv
    <2>7. DelayInv'
      BY <1>5, <1>t DEF RecvTimeout, DelayInv
    <2>8. QED
      BY <1>5, <1>k, <2>3, <2>5, <2>6, <2>7 DEF RecvTimeout, SocketInv
  <1>6. CASE Wake(c)
    <2> DEFINE s == IF BaseDelay * Power2[silent[c]] < MaxDelay THEN silent[c] + 1 ELSE silent[c]
               e == Lesser(reconnect_delay[c] * 2, MaxDelay)
    <2>1. /\ pc' \in [Tasks -> Locations] /\ closed' \in BOOLEAN
          /\ pc'[c] \in {"connect", "done"} /\ \A t \in Tasks \ {c} : pc'[t] = pc[t]
      BY <1>6, LoopTop DEF Wake, Locations
    <2>2. s \in Nat /\ e \in BaseDelay..MaxDelay /\ e = Lesser(BaseDelay * Power2[s], MaxDelay)
      BY <1>t, DelayDoubles DEF DelayInv
    <2>3. reconnect_delay' = [reconnect_delay EXCEPT ![c] = e] /\ silent' = [silent EXCEPT ![c] = s]
      BY <1>6 DEF Wake
    <2> HIDE DEF s, e
    <2>4. reconnect_delay' \in [Sockets -> BaseDelay..MaxDelay] /\ silent' \in [Sockets -> Nat]
      BY <1>t, <2>2, <2>3
    <2>5. DelayInv'
      BY <1>t, <2>2, <2>3 DEF DelayInv
    <2>6. IdleInv'
      BY <1>6, <1>k, <1>t, <2>1 DEF Wake, IdleInv
    <2>7. QED
      BY <1>6, <1>k, <2>1, <2>4, <2>5, <2>6 DEF Wake, SocketInv
  <1>7. QED
    BY <1>1, <1>2, <1>3, <1>4, <1>5, <1>6 DEF SocketStep

(* The end of a request: the next endpoint, or a sleep that holds back.    *)
LEMMA NextEndpointType ==
  ASSUME SocketInv, PollerInv, NEW p \in Pollers, pc[p] # "sleep", NEW n \in 0..Saturated, RestRecord(p, n),
         NEW r \in Responses, NEW d \in Nat, NextEndpoint(p, d, r),
         d <= Seconds(RestMax), d >= Lesser(Asked(r) * (100 - Jitter), Seconds(RestMax))
  PROVE  /\ PollerInv'
         /\ \E l \in Locations : pc' = [pc EXCEPT ![p] = l]
  <1> USE ConstantsAssumption
  <1>1. /\ endpoint \in [Pollers -> Nat \ {0}] /\ sleep_for \in [Pollers -> Nat]
        /\ cause \in [Pollers -> Responses] /\ DOMAIN consecutive_failures = Pollers
        /\ endpoint[p] \in 1..NumEndpoints[p] /\ p \in Tasks /\ pc \in [Tasks -> Locations]
    BY Kinds DEF PollerInv, SocketInv
  <1>2. ASSUME NEW q \in Pollers
        PROVE  consecutive_failures'[q] \in [1..NumEndpoints[q] -> 0..Saturated]
    <2>1. consecutive_failures[q] \in [1..NumEndpoints[q] -> 0..Saturated]
      BY DEF PollerInv
    <2>2. QED
      BY <1>1, <2>1 DEF RestRecord
  <1>3. DOMAIN consecutive_failures' = Pollers
    BY <1>1 DEF RestRecord
  <1>4. CASE d > 0 \/ endpoint[p] = NumEndpoints[p]
    <2>1. SleepFor(p, d, r)
      BY <1>4 DEF NextEndpoint
    <2>2. Seconds(Interval[p]) \in Nat /\ Seconds(RestMax) \in Nat /\ Larger(Seconds(Interval[p]), d) \in Nat
      BY SecondsType DEF Larger
    <2>3. /\ endpoint' \in [Pollers -> Nat \ {0}] /\ sleep_for' \in [Pollers -> Nat]
          /\ cause' \in [Pollers -> Responses]
      BY <1>1, <2>1, <2>2 DEF SleepFor
    <2>4. \A q \in Pollers : endpoint'[q] <= NumEndpoints[q]
      BY <1>1, <2>1 DEF SleepFor, PollerInv
    <2>5. sleep_for'[p] = Larger(Seconds(Interval[p]), d) /\ cause'[p] = r
      BY <1>1, <2>1 DEF SleepFor
    <2>6. sleep_for'[p] <= Larger(Seconds(Interval[p]), Seconds(RestMax))
      BY <2>2, <2>5 DEF Larger
    <2>7. sleep_for'[p] >= Lesser(Asked(r) * (100 - Jitter), Seconds(RestMax))
      <3>1. Asked(r) \in Nat /\ 100 - Jitter \in Nat
        BY AskedType
      <3>2. Asked(r) * (100 - Jitter) \in Nat
        BY <3>1, ShareMonotone
      <3>3. Lesser(Asked(r) * (100 - Jitter), Seconds(RestMax)) \in Nat
        BY <3>2, <2>2 DEF Lesser
      <3>4. QED
        BY <2>2, <2>5, <3>3 DEF Larger
    <2>8. ASSUME NEW q \in Pollers PROVE HoldsBack(q)'
      <3>1. CASE q = p
        BY <2>5, <2>6, <2>7, <3>1 DEF HoldsBack
      <3>2. CASE q # p
        <4>1. pc'[q] = pc[q] /\ sleep_for'[q] = sleep_for[q] /\ cause'[q] = cause[q]
          BY <1>1, <2>1, <3>2, Kinds DEF SleepFor, Goto
        <4>2. HoldsBack(q)
          BY DEF PollerInv
        <4>3. QED
          BY <4>1, <4>2 DEF HoldsBack
      <3>3. QED
        BY <3>1, <3>2
    <2>9. pc' = [pc EXCEPT ![p] = "sleep"] /\ "sleep" \in Locations
      BY <2>1 DEF SleepFor, Goto, Locations
    <2>10. QED
      BY <1>2, <1>3, <2>3, <2>4, <2>8, <2>9 DEF PollerInv
  <1>5. CASE ~(d > 0 \/ endpoint[p] = NumEndpoints[p])
    <2>1. endpoint' = [endpoint EXCEPT ![p] = @ + 1] /\ UNCHANGED <<pc, sleep_for, cause>>
      BY <1>5 DEF NextEndpoint
    <2>2. endpoint[p] + 1 \in Nat \ {0} /\ endpoint[p] + 1 <= NumEndpoints[p]
      BY <1>1, <1>5
    <2>3. endpoint' \in [Pollers -> Nat \ {0}] /\ \A q \in Pollers : endpoint'[q] <= NumEndpoints[q]
      BY <1>1, <2>1, <2>2 DEF PollerInv
    <2>4. \A q \in Pollers : HoldsBack(q)'
      BY <2>1 DEF PollerInv, HoldsBack
    <2>5. pc' = [pc EXCEPT ![p] = pc[p]] /\ pc[p] \in Locations
      BY <1>1, <2>1
    <2>6. QED
      BY <1>1, <1>2, <1>3, <2>1, <2>3, <2>4, <2>5 DEF PollerInv
  <1>6. QED
    BY <1>4, <1>5

(* A step of a poller.                                                     *)
LEMMA PollerStepType ==
  ASSUME SocketInv, PollerInv, NEW p \in Pollers, PollerStep(p)
  PROVE  PollerInv' /\ SocketInv'
  <1> USE ConstantsAssumption
  <1> DEFINE ok == [kind |-> "ok", after |-> NoHeader]
             f == consecutive_failures[p][endpoint[p]]
  <1>1. ok \in Responses /\ Asked(ok) = 0
    BY DEF Responses, Asked
  <1>2. f \in 0..Saturated /\ p \in Tasks /\ pc \in [Tasks -> Locations]
    BY Kinds DEF PollerInv, SocketInv
  <1>3. Increment(f) \in 1..Saturated /\ Increment(f) \in 0..Saturated /\ Increment(f) \in Nat \ {0}
    <2>1. Increment(f) \in 1..Saturated
      BY <1>2, IncrementFacts
    <2>2. QED
      BY <2>1 DEF Saturated
  <1> HIDE DEF ok, f
  <1>4. CASE RequestSucceeds(p)
    <2>1. pc[p] # "sleep" /\ RestRecord(p, 0) /\ NextEndpoint(p, 0, ok)
          /\ UNCHANGED <<main, signalled, closed, running, wsVars>>
      BY <1>4 DEF RequestSucceeds, At, ok
    <2>2. 0 \in 0..Saturated /\ 0 <= Seconds(RestMax) /\ 0 \in Nat /\ Seconds(RestMax) \in Nat
      BY SecondsType DEF Saturated
    <2>3. 0 >= Lesser(Asked(ok) * (100 - Jitter), Seconds(RestMax))
      BY <1>1, <2>2 DEF Lesser
    <2>4. PollerInv' /\ \E l \in Locations : pc' = [pc EXCEPT ![p] = l]
      BY <1>1, <2>1, <2>2, <2>3, NextEndpointType
    <2>5. QED
      BY <2>1, <2>4, SocketsApart
  <1>5. CASE RequestFails(p)
    <2>1. pc[p] # "sleep" /\ UNCHANGED <<main, signalled, closed, running, wsVars>>
      BY <1>5 DEF RequestFails, At
    <2>2. PICK r \in Responses : /\ RestRecord(p, Increment(f))
                                 /\ \E d \in compute_backoff_delay(r, Increment(f)) : NextEndpoint(p, d, r)
      BY <1>5 DEF RequestFails, f
    <2>3. PICK d \in compute_backoff_delay(r, Increment(f)) : NextEndpoint(p, d, r)
      BY <2>2
    <2>4. d \in Nat /\ d <= Seconds(RestMax) /\ d >= Lesser(Asked(r) * (100 - Jitter), Seconds(RestMax))
      BY <1>3, BackoffBounds
    <2>5. PollerInv' /\ \E l \in Locations : pc' = [pc EXCEPT ![p] = l]
      BY <1>3, <2>1, <2>2, <2>3, <2>4, NextEndpointType
    <2>6. QED
      BY <2>1, <2>5, SocketsApart
  <1>6. CASE BackoffOverflows(p)
    <2>1. /\ UNCHANGED <<main, signalled, closed, running, wsVars, endpoint, sleep_for, cause>>
          /\ pc' = [pc EXCEPT ![p] = "raised"] /\ RestRecord(p, Increment(Increment(f)))
      BY <1>6 DEF BackoffOverflows, Goto, f
    <2>2. Increment(Increment(f)) \in 0..Saturated
      <3>1. Increment(Increment(f)) \in 1..Saturated
        BY <1>3, IncrementFacts
      <3>2. QED
        BY <3>1 DEF Saturated
    <2>3. ASSUME NEW q \in Pollers
          PROVE  consecutive_failures'[q] \in [1..NumEndpoints[q] -> 0..Saturated]
      <3>1. consecutive_failures[q] \in [1..NumEndpoints[q] -> 0..Saturated]
            /\ endpoint[p] \in 1..NumEndpoints[p] /\ DOMAIN consecutive_failures = Pollers
        BY DEF PollerInv
      <3>2. QED
        BY <2>1, <2>2, <3>1 DEF RestRecord
    <2>4. DOMAIN consecutive_failures' = Pollers
      BY <2>1 DEF RestRecord, PollerInv
    <2>5. \A q \in Pollers : HoldsBack(q)'
      <3> TAKE q \in Pollers
      <3>1. HoldsBack(q) /\ q \in Tasks
        BY Kinds DEF PollerInv
      <3>2. QED
        BY <1>2, <2>1, <3>1 DEF HoldsBack
    <2>6. PollerInv'
      BY <2>1, <2>3, <2>4, <2>5 DEF PollerInv
    <2>7. "raised" \in Locations
      BY DEF Locations
    <2>8. QED
      BY <2>1, <2>6, <2>7, SocketsApart
  <1>7. CASE PollerWakes(p)
    <2> DEFINE l == IF running[p] THEN "request" ELSE "done"
    <2>1. /\ UNCHANGED <<main, signalled, closed, running, wsVars, endpoint, consecutive_failures>>
          /\ pc' = [pc EXCEPT ![p] = l] /\ sleep_for' = [sleep_for EXCEPT ![p] = 0]
          /\ cause' = [cause EXCEPT ![p] = ok]
      BY <1>7 DEF PollerWakes, Goto, ok
    <2>2. l \in Locations /\ l # "sleep"
      BY DEF Locations
    <2> HIDE DEF l
    <2>3. sleep_for' \in [Pollers -> Nat] /\ cause' \in [Pollers -> Responses]
      BY <1>1, <2>1 DEF PollerInv
    <2>4. \A q \in Pollers : HoldsBack(q)'
      <3> TAKE q \in Pollers
      <3>1. HoldsBack(q) /\ q \in Tasks /\ sleep_for \in [Pollers -> Nat] /\ cause \in [Pollers -> Responses]
        BY Kinds DEF PollerInv
      <3>2. QED
        BY <1>2, <2>1, <2>2, <3>1 DEF HoldsBack
    <2>5. PollerInv'
      BY <2>1, <2>3, <2>4 DEF PollerInv
    <2>6. QED
      BY <2>1, <2>2, <2>5, SocketsApart
  <1>8. QED
    BY <1>4, <1>5, <1>6, <1>7 DEF PollerStep

(* TypeInv is inductive.                                                   *)
LEMMA TypeInvStep == TypeInv /\ [Next]_vars => TypeInv'
  <1> SUFFICES ASSUME SocketInv, PollerInv, [Next]_vars PROVE SocketInv' /\ PollerInv'
    BY Zenon DEF TypeInv, TypeOK, SocketInv, PollerInv, Locations
  <1>1. ASSUME NEW c \in Sockets, SocketStep(c) PROVE SocketInv' /\ PollerInv'
    <2>1. SocketInv' /\ UNCHANGED restVars /\ \A p \in Pollers : pc'[p] = pc[p]
      BY <1>1, SocketStepType
    <2>2. QED
      BY <2>1, PollersApart
  <1>2. ASSUME NEW p \in Pollers, PollerStep(p) PROVE SocketInv' /\ PollerInv'
    BY <1>2, PollerStepType
  <1>3. ASSUME NEW t \in Tasks, Cancelled(t) PROVE SocketInv' /\ PollerInv'
    <2>1. pc' = [pc EXCEPT ![t] = "done"] /\ UNCHANGED <<main, signalled, wsVars, restVars>>
      BY <1>3 DEF Cancelled, Goto
    <2>2. pc' \in [Tasks -> Locations] /\ \A u \in Tasks : pc'[u] \in {pc[u], "done"}
      BY <2>1 DEF SocketInv, Locations
    <2>3. PICK caught \in BOOLEAN : /\ running' = IF caught THEN [running EXCEPT ![t] = FALSE] ELSE running
                                    /\ closed' = (closed \/ caught)
      BY <1>3, Zenon DEF Cancelled
    <2>4. running' \in [Tasks -> BOOLEAN]
      BY <2>3 DEF SocketInv
    <2>5. closed' \in BOOLEAN
      BY <2>3
    <2>6. IdleInv'
      BY <2>1, <2>2, Kinds DEF SocketInv, IdleInv, wsVars
    <2>7. DelayInv'
      BY <2>1 DEF SocketInv, DelayInv, wsVars
    <2>8. SocketInv'
      BY <2>1, <2>2, <2>4, <2>5, <2>6, <2>7 DEF SocketInv, wsVars
    <2>9. \A p \in Pollers : pc'[p] = "sleep" => pc[p] = "sleep"
      BY <2>2, Kinds
    <2>10. QED
      BY <2>1, <2>8, <2>9, PollersApart
  <1>4. CASE shutdown_handler \/ MainStep \/ UNCHANGED vars
    <2>1. UNCHANGED <<pc, wsVars, restVars>> /\ main' \in {main, "cancelling", "ended"}
      BY <1>4 DEF shutdown_handler, MainStep, GatherReturns, GatherRaises, RunEnds, vars
    <2>2. signalled' \in BOOLEAN /\ closed' \in BOOLEAN
      <3>1. CASE shutdown_handler
        BY <3>1 DEF shutdown_handler
      <3>2. CASE MainStep \/ UNCHANGED vars
        BY <3>2 DEF MainStep, GatherReturns, GatherRaises, RunEnds, vars, SocketInv
      <3>3. QED
        BY <1>4, <3>1, <3>2
    <2>3. running' \in [Tasks -> BOOLEAN]
      BY <1>4 DEF shutdown_handler, MainStep, GatherReturns, GatherRaises, RunEnds, vars, SocketInv
    <2>4. IdleInv' /\ DelayInv'
      BY <2>1 DEF SocketInv, IdleInv, DelayInv, wsVars
    <2>5. SocketInv'
      BY <2>1, <2>2, <2>3, <2>4 DEF SocketInv, wsVars
    <2>6. QED
      BY <2>1, <2>5, PollersApart
  <1>5. QED
    BY <1>1, <1>2, <1>3, <1>4 DEF Next

LEMMA TypeInvariant == Spec => []TypeInv
  BY TypeInvInit, TypeInvStep, PTL DEF Spec

(* Every variable keeps its type; in particular no idle counter passes its *)
(* limit and no poller asks beyond its last endpoint.                      *)
THEOREM TypeCorrect == Spec => []TypeOK
  <1>1. TypeInv => TypeOK
    BY DEF TypeInv
  <1>2. QED
    BY <1>1, TypeInvariant, PTL

(* A stream that stays silent through enough reconnects is reconnected at  *)
(* the largest delay, however often it connects or breaks in between.      *)
THEOREM SilentBackoff == Spec => []SilentStreamsBackOff
  <1>1. TypeInv => SilentStreamsBackOff
    <2> SUFFICES ASSUME TypeInv, NEW c \in Sockets, BaseDelay * Power2[silent[c]] >= MaxDelay
                 PROVE  reconnect_delay[c] = MaxDelay
      BY DEF SilentStreamsBackOff
    <2>1. silent[c] \in Nat /\ reconnect_delay[c] = Lesser(BaseDelay * Power2[silent[c]], MaxDelay)
      BY DEF TypeInv, TypeOK, DelayInv
    <2>2. Power2[silent[c]] \in Nat
      BY <2>1, Power2Facts
    <2>3. BaseDelay * Power2[silent[c]] \in Nat /\ MaxDelay \in Nat
      BY <2>2, ConstantsAssumption
    <2>4. QED
      BY <2>1, <2>3 DEF Lesser
  <1>2. QED
    BY <1>1, TypeInvariant, PTL

(* A poller sleeps at least as long as the response that sent it to sleep  *)
(* asked for, less the jitter and up to the cap, and never beyond the cap. *)
THEOREM HoldingBack == Spec => []PollersHoldBack
  <1>1. TypeInv => PollersHoldBack
    BY Zenon DEF TypeInv, HoldsBack, Asked, PollersHoldBack
  <1>2. QED
    BY <1>1, TypeInvariant, PTL

-----------------------------------------------------------------------------
(* The end of the process.                                                 *)

(* Some endpoint of p has failed until its backoff overflowed.             *)
Exhausted(p) == \E i \in 1..NumEndpoints[p] : Overflows(consecutive_failures[p][i])

(* While gather runs, the flags say whether the signal has come: no task   *)
(* stops, and nobody closes the producer, before it.  A task that raised   *)
(* is an exhausted poller, and after the signal a collector is at most in  *)
(* the middle of its one last message.                                     *)
StopInv ==
  /\ main = "gather" => \A t \in Tasks : running[t] <=> ~signalled
  /\ main = "gather" /\ ~signalled => ~closed /\ \A t \in Tasks : pc[t] # "done"
  /\ \A t \in Tasks : pc[t] = "raised" => t \in Pollers /\ Exhausted(t)
  /\ StopsOnlyForAReason
  /\ ~signalled => \A c \in Sockets : after[c] = 0
  /\ \A c \in Sockets : after[c] <= 1 /\ (after[c] # 0 => pc[c] \in {"process", "done"})

LEMMA StopInvInit == Init => StopInv
  <1> SUFFICES ASSUME Init PROVE StopInv
    OBVIOUS
  <1>1. \A t \in Tasks : running[t] /\ pc[t] \in {"connect", "request"}
    BY DEF Init
  <1>2. \A c \in Sockets : after[c] = 0
    BY DEF Init
  <1>3. main = "gather" /\ ~signalled /\ ~closed
    BY DEF Init
  <1>4. QED
    BY <1>1, <1>2, <1>3 DEF StopInv, StopsOnlyForAReason

(* A collector moves within its loop, to its next message, or, once its    *)
(* flag is cleared, out of the loop.                                       *)
LEMMA SocketMoves ==
  ASSUME TypeInv, NEW c \in Sockets, SocketStep(c)
  PROVE  /\ main = "gather" /\ UNCHANGED <<main, signalled, running, restVars>>
         /\ \A t \in Tasks \ {c} : pc'[t] = pc[t]
         /\ \A d \in Sockets \ {c} : after'[d] = after[d]
         /\ pc'[c] \notin {"raised", "request"}
         /\ \/ /\ running[c] /\ pc'[c] # "done" /\ UNCHANGED <<closed, after>>
            \/ /\ ~running[c] /\ pc'[c] = "done" /\ UNCHANGED after
            \/ /\ pc[c] = "recv" /\ pc'[c] = "process" /\ UNCHANGED closed
               /\ after'[c] = IF signalled THEN Lesser(after[c] + 1, 2) ELSE after[c]
  <1>t. /\ c \in Tasks /\ pc \in [Tasks -> Locations] /\ after \in [Sockets -> 0..2]
        /\ running \in [Tasks -> BOOLEAN]
    BY Kinds, TypeInvParts DEF SocketInv
  <1> USE DEF At, wsVars
  (* Every step but a receive looks at the flag.                           *)
  <1>1. ASSUME NEW l \in {"connect", "recv", "sleep"}, WhileRunning(c, l) \/ (l = "sleep" /\ Disconnected(c))
        PROVE  /\ \A t \in Tasks \ {c} : pc'[t] = pc[t]
               /\ (running[c] /\ pc'[c] = l /\ UNCHANGED closed) \/ (~running[c] /\ pc'[c] = "done")
    BY <1>1, <1>t DEF WhileRunning, Disconnected, Finish, Goto
  <1>2. CASE Connect(c)
    BY <1>1, <1>2 DEF Connect
  <1>3. CASE ConnectFails(c) \/ ConnectionClosed(c)
    BY <1>1, <1>3 DEF ConnectFails, ConnectionClosed
  <1>4. CASE Process(c)
    BY <1>1, <1>4 DEF Process
  <1>5. CASE RecvTimeout(c)
    BY <1>1, <1>5 DEF RecvTimeout
  <1>6. CASE Wake(c)
    BY <1>1, <1>6 DEF Wake
  <1>7. CASE Receive(c)
    <2>1. pc[c] = "recv" /\ pc'[c] = "process" /\ \A t \in Tasks \ {c} : pc'[t] = pc[t]
      BY <1>7, <1>t DEF Receive, Goto
    <2>2. /\ after'[c] = IF signalled THEN Lesser(after[c] + 1, 2) ELSE after[c]
          /\ \A d \in Sockets \ {c} : after'[d] = after[d]
      BY <1>7, <1>t DEF Receive
    <2>3. QED
      BY <1>7, <2>1, <2>2 DEF Receive
  <1>8. QED
    BY <1>2, <1>3, <1>4, <1>5, <1>6, <1>7 DEF SocketStep

(* A poller moves on, goes to sleep, leaves its loop once its flag is      *)
(* cleared, or raises because its endpoint is exhausted.                   *)
LEMMA PollerMoves ==
  ASSUME TypeInv, NEW p \in Pollers, PollerStep(p)
  PROVE  /\ main = "gather" /\ UNCHANGED <<main, signalled, running, closed, wsVars>>
         /\ pc[p] # "raised"
         /\ \A t \in Tasks \ {p} : pc'[t] = pc[t]
         /\ \A q \in Pollers \ {p} : consecutive_failures'[q] = consecutive_failures[q]
         /\ pc'[p] = "done" => ~running[p]
         /\ pc'[p] = "raised" => Exhausted(p)'
  <1>t. /\ p \in Tasks /\ pc \in [Tasks -> Locations] /\ DOMAIN consecutive_failures = Pollers
        /\ endpoint[p] \in 1..NumEndpoints[p]
        /\ consecutive_failures[p] \in [1..NumEndpoints[p] -> 0..Saturated]
    BY Kinds, TypeInvParts, ConstantsAssumption DEF SocketInv, PollerInv
  <1>1. ASSUME NEW d, NEW r, NextEndpoint(p, d, r), pc[p] = "request"
        PROVE  (\A t \in Tasks \ {p} : pc'[t] = pc[t]) /\ pc'[p] \in {"request", "sleep"}
    BY <1>1, <1>t DEF NextEndpoint, SleepFor, Goto
  <1>2. ASSUME NEW n, RestRecord(p, n)
        PROVE  \A q \in Pollers \ {p} : consecutive_failures'[q] = consecutive_failures[q]
    BY <1>2, <1>t DEF RestRecord
  <1> USE DEF At
  <1>3. CASE RequestSucceeds(p)
    BY <1>1, <1>2, <1>3 DEF RequestSucceeds
  <1>4. CASE RequestFails(p)
    BY <1>1, <1>2, <1>4 DEF RequestFails
  <1>5. CASE BackoffOverflows(p)
    <2> DEFINE f == consecutive_failures[p][endpoint[p]]
    <2>1. f \in 0..Saturated
      BY <1>t
    <2>2. Overflows(Increment(f)) /\ RestRecord(p, Increment(Increment(f))) /\ pc' = [pc EXCEPT ![p] = "raised"]
      BY <1>5 DEF BackoffOverflows, Goto
    <2> HIDE DEF f
    <2>3. Overflows(Increment(Increment(f)))
      BY <2>1, <2>2, IncrementFacts
    <2>4. consecutive_failures'[p][endpoint[p]] = Increment(Increment(f))
      BY <1>t, <2>2 DEF RestRecord
    <2>5. Exhausted(p)'
      BY <1>t, <2>3, <2>4 DEF Exhausted, Overflows
    <2>6. QED
      BY <1>t, <1>2, <1>5, <2>2, <2>5 DEF BackoffOverflows
  <1>6. CASE PollerWakes(p)
    BY <1>t, <1>6 DEF PollerWakes, Goto
  <1>7. QED
    BY <1>3, <1>4, <1>5, <1>6 DEF PollerStep

(* StopInv is inductive.                                                   *)
LEMMA StopInvStep == TypeInv /\ StopInv /\ [Next]_vars => StopInv'
  <1> SUFFICES ASSUME TypeInv, StopInv, [Next]_vars PROVE StopInv'
    OBVIOUS
  <1>t. /\ pc \in [Tasks -> Locations] /\ after \in [Sockets -> 0..2] /\ running \in [Tasks -> BOOLEAN]
        /\ signalled \in BOOLEAN /\ closed \in BOOLEAN
    BY TypeInvParts DEF SocketInv
  (* Who has raised stays exhausted as long as its counters stay.          *)
  <1>e. ASSUME NEW q \in Pollers, consecutive_failures'[q] = consecutive_failures[q], Exhausted(q)
        PROVE  Exhausted(q)'
    BY <1>e DEF Exhausted
  <1>1. ASSUME NEW c \in Sockets, SocketStep(c) PROVE StopInv'
    <2>1. /\ main = "gather" /\ UNCHANGED <<main, signalled, running, restVars>>
          /\ \A t \in Tasks \ {c} : pc'[t] = pc[t]
          /\ \A d \in Sockets \ {c} : after'[d] = after[d]
          /\ pc'[c] \notin {"raised", "request"}
      BY <1>1, SocketMoves
    <2>2. c \in Tasks /\ Sockets \subseteq Tasks /\ (running[c] <=> ~signalled)
      BY <2>1, Kinds DEF StopInv
    <2>3. \/ running[c] /\ pc'[c] # "done" /\ UNCHANGED <<closed, after>>
          \/ ~running[c] /\ pc'[c] = "done" /\ UNCHANGED after
          \/ /\ pc[c] = "recv" /\ pc'[c] = "process" /\ UNCHANGED closed
             /\ after'[c] = IF signalled THEN Lesser(after[c] + 1, 2) ELSE after[c]
      BY <1>1, SocketMoves
    <2>4. \A t \in Tasks : pc'[t] = "raised" => t \in Pollers /\ Exhausted(t)'
      BY <2>1, <1>e DEF StopInv, restVars
    <2>5. main' = "gather" => \A t \in Tasks : running'[t] <=> ~signalled'
      BY <2>1 DEF StopInv
    <2>6. main' = "gather" /\ ~signalled' => ~closed' /\ \A t \in Tasks : pc'[t] # "done"
      BY <2>1, <2>2, <2>3 DEF StopInv
    <2>7. after'[c] <= 1 /\ (after'[c] # 0 => pc'[c] \in {"process", "done"}) /\ (~signalled' => after'[c] = 0)
      <3>1. CASE running[c] /\ UNCHANGED after
        BY <2>1, <2>2, <3>1 DEF StopInv
      <3>2. CASE ~running[c] /\ pc'[c] = "done" /\ UNCHANGED after
        BY <2>1, <2>2, <3>2 DEF StopInv
      <3>3. CASE pc[c] = "recv" /\ pc'[c] = "process"
                 /\ after'[c] = IF signalled THEN Lesser(after[c] + 1, 2) ELSE after[c]
        <4>1. after[c] = 0
          BY <3>3 DEF StopInv
        <4>2. after'[c] = IF signalled THEN 1 ELSE 0
          BY <3>3, <4>1 DEF Lesser
        <4>3. QED
          BY <2>1, <3>3, <4>2
      <3>4. QED
        BY <2>3, <3>1, <3>2, <3>3
    <2>8. \A d \in Sockets : /\ ~signalled' => after'[d] = 0
                             /\ after'[d] <= 1 /\ (after'[d] # 0 => pc'[d] \in {"process", "done"})
      BY <2>1, <2>2, <2>7 DEF StopInv
    <2>9. StopsOnlyForAReason'
      BY <2>1 DEF StopsOnlyForAReason
    <2>10. QED
      BY <2>4, <2>5, <2>6, <2>8, <2>9 DEF StopInv
  <1>2. ASSUME NEW p \in Pollers, PollerStep(p) PROVE StopInv'
    <2>1. /\ main = "gather" /\ UNCHANGED <<main, signalled, running, closed, wsVars>>
          /\ pc[p] # "raised"
          /\ \A t \in Tasks \ {p} : pc'[t] = pc[t]
          /\ \A q \in Pollers \ {p} : consecutive_failures'[q] = consecutive_failures[q]
          /\ pc'[p] = "done" => ~running[p]
          /\ pc'[p] = "raised" => Exhausted(p)'
      BY <1>2, PollerMoves
    <2>2. p \in Tasks /\ Sockets \subseteq Tasks \ {p} /\ (running[p] <=> ~signalled)
      BY <2>1, Kinds DEF StopInv
    <2>3. \A t \in Tasks : pc'[t] = "raised" => t \in Pollers /\ Exhausted(t)'
      BY <2>1, <1>e DEF StopInv
    <2>4. main' = "gather" => \A t \in Tasks : running'[t] <=> ~signalled'
      BY <2>1 DEF StopInv
    <2>5. main' = "gather" /\ ~signalled' => ~closed' /\ \A t \in Tasks : pc'[t] # "done"
      BY <2>1, <2>2 DEF StopInv
    <2>6. \A d \in Sockets : /\ ~signalled' => after'[d] = 0
                             /\ after'[d] <= 1 /\ (after'[d] # 0 => pc'[d] \in {"process", "done"})
      BY <2>1, <2>2 DEF StopInv, wsVars
    <2>7. StopsOnlyForAReason'
      BY <2>1 DEF StopsOnlyForAReason
    <2>8. QED
      BY <2>3, <2>4, <2>5, <2>6, <2>7 DEF StopInv
  <1>3. ASSUME NEW t \in Tasks, Cancelled(t) PROVE StopInv'
    <2>1. /\ main = "cancelling" /\ UNCHANGED <<main, signalled, wsVars, restVars>>
          /\ pc' = [pc EXCEPT ![t] = "done"]
      BY <1>3 DEF Cancelled, Goto
    <2>2. \A u \in Tasks : pc'[u] = pc[u] \/ pc'[u] = "done"
      BY <1>t, <2>1
    <2>3. \A u \in Tasks : pc'[u] = "raised" => u \in Pollers /\ Exhausted(u)'
      BY <2>1, <2>2, <1>e DEF StopInv, restVars
    <2>4. \A d \in Sockets : /\ ~signalled' => after'[d] = 0
                             /\ after'[d] <= 1 /\ (after'[d] # 0 => pc'[d] \in {"process", "done"})
      BY <2>1, <2>2, Kinds DEF StopInv, wsVars
    <2>5. StopsOnlyForAReason'
      BY <2>1 DEF StopInv, StopsOnlyForAReason, restVars
    <2>6. QED
      BY <2>1, <2>3, <2>4, <2>5 DEF StopInv
  <1>4. CASE shutdown_handler
    <2>1. /\ main' = "gather" /\ UNCHANGED <<pc, after, consecutive_failures>>
          /\ running' = [t \in Tasks |-> FALSE]
      BY <1>4 DEF shutdown_handler, wsVars, restVars
    <2>2. signalled' /\ \A t \in Tasks : ~running'[t]
      BY <1>4, <2>1 DEF shutdown_handler
    <2>3. \A u \in Tasks : pc'[u] = "raised" => u \in Pollers /\ Exhausted(u)'
      BY <2>1, <1>e DEF StopInv
    <2>4. QED
      BY <2>1, <2>2, <2>3 DEF StopInv, StopsOnlyForAReason
  <1>5. CASE MainStep
    <2>1. UNCHANGED <<signalled, closed, running, pc, after, consecutive_failures>> /\ main' # "gather"
      BY <1>5 DEF MainStep, GatherReturns, GatherRaises, RunEnds, wsVars, restVars
    <2>2. \A u \in Tasks : pc'[u] = "raised" => u \in Pollers /\ Exhausted(u)'
      BY <2>1, <1>e DEF StopInv
    <2>3. signalled \/ \E p \in Pollers : Exhausted(p)
      <3>1. CASE GatherReturns
        <4>1. PICK t : t \in Tasks
          BY ConstantsAssumption DEF Tasks
        <4>2. main = "gather" /\ pc[t] = "done"
          BY <3>1, <4>1 DEF GatherReturns
        <4>3. QED
          BY <4>1, <4>2 DEF StopInv
      <3>2. CASE GatherRaises
        BY <3>2 DEF GatherRaises, StopInv
      <3>3. CASE RunEnds
        BY <3>3 DEF RunEnds, StopInv, StopsOnlyForAReason, Exhausted
      <3>4. QED
        BY <1>5, <3>1, <3>2, <3>3 DEF MainStep
    <2>4. StopsOnlyForAReason'
      BY <2>1, <2>3 DEF StopsOnlyForAReason, Exhausted
    <2>5. QED
      BY <2>1, <2>2, <2>4 DEF StopInv
  <1>6. CASE UNCHANGED vars
    BY <1>6 DEF vars, wsVars, restVars, StopInv, StopsOnlyForAReason, Exhausted
  <1>7. QED
    BY <1>1, <1>2, <1>3, <1>4, <1>5, <1>6 DEF Next

LEMMA StopInvariant == Spec => []StopInv
  <1>1. Init => TypeInv /\ StopInv
    BY TypeInvInit, StopInvInit
  <1>2. TypeInv /\ StopInv /\ [Next]_vars => (TypeInv /\ StopInv)'
    BY TypeInvStep, StopInvStep
  <1>3. QED
    BY <1>1, <1>2, PTL DEF Spec

(* The collector process stops on a signal or on an exhausted endpoint:    *)
(* no response, timeout or broken connection ends it.                      *)
THEOREM StopsForAReason == Spec => []StopsOnlyForAReason
  <1>1. StopInv => StopsOnlyForAReason
    BY DEF StopInv
  <1>2. QED
    BY <1>1, StopInvariant, PTL

(* The shared producer is never closed under running collectors without a  *)
(* signal, and after one each collector takes up at most one message.      *)
THEOREM ShutdownIsPrompt == Spec => []OneMessageAfterShutdown
  <1>1. StopInv => OneMessageAfterShutdown
    BY DEF StopInv, OneMessageAfterShutdown
  <1>2. QED
    BY <1>1, StopInvariant, PTL
=============================================================================
