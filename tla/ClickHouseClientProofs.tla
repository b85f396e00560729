----------------------- MODULE ClickHouseClientProofs -----------------------
(***************************************************************************)
(* Proofs about the shared client: for any number of queries and faults,   *)
(* the lock protocol of write_to_clickhouse excludes concurrent use and    *)
(* premature close of the client, and no client leaks.                     *)
(***************************************************************************)
EXTENDS ClickHouseClient, TLAPS

(* Who is inside get_client, or inside the locked insert of                *)
(* write_to_clickhouse, holds the lock; the latter inserts with the cached *)
(* client; and get_client knows whether there is one.                      *)
InsideGetClient(w) == pc[w] \in {"get", "ping", "connect"}

LockInv ==
  /\ \A w \in Writers : InsideGetClient(w) => lock = w
  /\ \A w \in Common : pc[w] = "insert" => lock = w /\ handle[w] = client
  /\ \A w \in Writers : pc[w] = "ping" => client # NoClient
  /\ \A w \in Writers : pc[w] = "connect" => client = NoClient

IInv == TypeOK /\ LockInv /\ OnlyCachedIsOpen

(* The driver starts without a client and with the lock free.              *)
LEMMA IInvInit == Init => IInv
<1> SUFFICES ASSUME Init PROVE IInv
  OBVIOUS
<1>1. TypeOK
  <2>1. pc \in [Writers -> Locations] /\ handle \in [Writers -> Clients \cup {NoClient}]
    BY DEF Init, Locations
  <2>2. created \in 0..MaxClients /\ faults \in Nat
    BY ConstantsAssumption DEF Init
  <2>3. /\ lock \in Writers \cup {NoWriter} /\ client \in Clients \cup {NoClient}
        /\ open \subseteq 1..created /\ broken \subseteq 1..created
    BY DEF Init
  <2>4. pingDue \in BOOLEAN
    BY DEF Init
  <2>5. \A w \in Writers : pc[w] = "insert" => handle[w] # NoClient
    BY DEF Init
  <2> QED
    BY <2>1, <2>2, <2>3, <2>4, <2>5 DEF TypeOK
<1>2. LockInv
  BY DEF Init, LockInv, InsideGetClient, Common
<1>3. OnlyCachedIsOpen
  BY DEF Init, OnlyCachedIsOpen
<1> QED
  BY <1>1, <1>2, <1>3 DEF IInv

(* One step preserves the types.                                           *)
LEMMA TypeStep == IInv /\ [Next]_vars => TypeOK'
<1> SUFFICES ASSUME IInv, [Next]_vars PROVE TypeOK'
  OBVIOUS
<1> USE ConstantsAssumption DEF IInv, TypeOK, Locations, Clients, NoClient, Goto
<1>1. ASSUME NEW w \in Writers, Acquire(w) PROVE TypeOK'
  BY <1>1 DEF Acquire
<1>2. ASSUME NEW w \in Writers, Cached(w) PROVE TypeOK'
  BY <1>2 DEF Cached, Obtain
<1>3. ASSUME NEW w \in Writers, StartPing(w) \/ StartConnect(w) PROVE TypeOK'
  BY <1>3 DEF StartPing, StartConnect
<1>4. ASSUME NEW w \in Writers, PingReturns(w) PROVE TypeOK'
  BY <1>4 DEF PingReturns, Obtain, LockInv
<1>5. ASSUME NEW w \in Writers, PingRaises(w) PROVE TypeOK'
  BY <1>5 DEF PingRaises
<1>6. ASSUME NEW w \in Writers, Connect(w) PROVE TypeOK'
  <2>1. created + 1 \in Clients /\ created + 1 # NoClient
    BY <1>6 DEF Connect
  <2>2. /\ created' \in 0..MaxClients /\ client' \in Clients
        /\ open' \subseteq 1..created' /\ broken' \subseteq 1..created'
    BY <1>6 DEF Connect
  <2>3. pingDue' \in BOOLEAN
    BY <1>6 DEF Connect
  <2>4. /\ handle' \in [Writers -> Clients \cup {NoClient}]
        /\ pc' \in [Writers -> Locations]
        /\ lock' \in Writers \cup {NoWriter} /\ faults' \in Nat
    BY <1>6, <2>1 DEF Connect, Obtain
  <2>5. \A v \in Writers : pc'[v] = "insert" => handle'[v] # NoClient
    BY <1>6, <2>1 DEF Connect, Obtain
  <2> QED
    BY <2>2, <2>3, <2>4, <2>5
<1>7. ASSUME NEW w \in Writers, NEW d \in BOOLEAN, ConnectRaises(w, d) PROVE TypeOK'
  BY <1>7 DEF ConnectRaises, Throw
<1>8. ASSUME NEW w \in Writers, NEW d \in BOOLEAN, InsertRaises(w, d) PROVE TypeOK'
  BY <1>8 DEF InsertRaises, Throw
<1>9. ASSUME NEW w \in Writers, InsertSucceeds(w) PROVE TypeOK'
  BY <1>9 DEF InsertSucceeds
<1>10. ASSUME NEW w \in Writers, _discard_client(w) PROVE TypeOK'
  BY <1>10 DEF _discard_client
<1>11. ASSUME NEW c \in Clients, Break(c) PROVE TypeOK'
  BY <1>11 DEF Break
<1>12. CASE PingIntervalElapses
  BY <1>12 DEF PingIntervalElapses
<1>13. CASE UNCHANGED vars
  BY <1>13 DEF vars
<1> QED
  BY <1>1, <1>2, <1>3, <1>4, <1>5, <1>6, <1>7, <1>8, <1>9, <1>10, <1>11, <1>12, <1>13
  DEF Next, Step

(* One step preserves the lock protocol and closes what it replaces.       *)
LEMMA LockStep == IInv /\ [Next]_vars => LockInv' /\ OnlyCachedIsOpen'
<1> SUFFICES ASSUME IInv, [Next]_vars PROVE LockInv' /\ OnlyCachedIsOpen'
  OBVIOUS
<1> USE ConstantsAssumption DEF IInv, TypeOK, LockInv, OnlyCachedIsOpen, InsideGetClient, Common,
        Locations, NoClient, Clients, Goto
<1>1. ASSUME NEW w \in Writers, Acquire(w) PROVE LockInv' /\ OnlyCachedIsOpen'
  BY <1>1 DEF Acquire
<1>2. ASSUME NEW w \in Writers, Cached(w) PROVE LockInv' /\ OnlyCachedIsOpen'
  BY <1>2 DEF Cached, Obtain
<1>3. ASSUME NEW w \in Writers, StartPing(w) \/ StartConnect(w)
      PROVE LockInv' /\ OnlyCachedIsOpen'
  BY <1>3 DEF StartPing, StartConnect
<1>4. ASSUME NEW w \in Writers, PingReturns(w) PROVE LockInv' /\ OnlyCachedIsOpen'
  BY <1>4 DEF PingReturns, Obtain
<1>5. ASSUME NEW w \in Writers, PingRaises(w) PROVE LockInv' /\ OnlyCachedIsOpen'
  BY <1>5 DEF PingRaises
<1>6. ASSUME NEW w \in Writers, Connect(w) PROVE LockInv' /\ OnlyCachedIsOpen'
  BY <1>6 DEF Connect, Obtain
<1>7. ASSUME NEW w \in Writers, NEW d \in BOOLEAN, ConnectRaises(w, d)
      PROVE LockInv' /\ OnlyCachedIsOpen'
  BY <1>7 DEF ConnectRaises, Throw
<1>8. ASSUME NEW w \in Writers, NEW d \in BOOLEAN, InsertRaises(w, d)
      PROVE LockInv' /\ OnlyCachedIsOpen'
  BY <1>8 DEF InsertRaises, Throw
<1>9. ASSUME NEW w \in Writers, InsertSucceeds(w) PROVE LockInv' /\ OnlyCachedIsOpen'
  BY <1>9 DEF InsertSucceeds
<1>10. ASSUME NEW w \in Writers, _discard_client(w) PROVE LockInv' /\ OnlyCachedIsOpen'
  BY <1>10 DEF _discard_client
<1>11. ASSUME NEW c \in Clients, Break(c) PROVE LockInv' /\ OnlyCachedIsOpen'
  BY <1>11 DEF Break
<1>12. CASE PingIntervalElapses
  BY <1>12 DEF PingIntervalElapses
<1>13. CASE UNCHANGED vars
  BY <1>13 DEF vars
<1> QED
  BY <1>1, <1>2, <1>3, <1>4, <1>5, <1>6, <1>7, <1>8, <1>9, <1>10, <1>11, <1>12, <1>13
  DEF Next, Step

LEMMA IInvAlways == Spec => []IInv
<1>1. IInv /\ [Next]_vars => IInv'
  BY TypeStep, LockStep DEF IInv
<1> QED
  BY IInvInit, <1>1, PTL DEF Spec

(* The types of the shared client's state, and no insert without a client. *)
THEOREM TypeCorrect == Spec => []TypeOK
  BY IInvAlways, PTL DEF IInv

(* However many queries share the driver and however often connections     *)
(* break, inserts of write_to_clickhouse exclude each other and are never  *)
(* left with a closed client.                                              *)
THEOREM LockExcludes == Spec => []CommonWritersAreSafe
<1>1. IInv => CommonWritersAreSafe
  BY DEF IInv, TypeOK, LockInv, OnlyCachedIsOpen, CommonWritersAreSafe, Uses, InsideGetClient,
     Common, Clients, NoClient
<1> QED
  BY IInvAlways, <1>1, PTL

(* get_client and _discard_client close every client they replace.         *)
THEOREM NoClientLeaks == Spec => []OnlyCachedIsOpen
  BY IInvAlways, PTL DEF IInv
=============================================================================
