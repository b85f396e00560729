-------------------------- MODULE ClickHouseClient --------------------------
(***************************************************************************)
(* The ClickHouse client that all the queries of a Spark driver share      *)
(* (spark_jobs/ch_writer.py: _client, _client_lock, get_client,            *)
(* _discard_client).  write_to_clickhouse holds the lock while it inserts; *)
(* the handlers of oi.py and price.py take the lock only inside get_client *)
(* and insert without it.  clickhouse-connect is external.                 *)
(***************************************************************************)
EXTENDS Integers, FiniteSets

CONSTANTS
  Writers,        \* threads that run a foreachBatch handler
  DirectWriters,  \* those of oi.py and price.py
  MaxClients,     \* bound: clients created
  MaxFaults       \* bound: lost connections and exceptions without one

NoClient == 0
NoWriter == "none"
Clients == 1..MaxClients

ASSUME ConstantsAssumption ==
  /\ DirectWriters \subseteq Writers
  /\ NoWriter \notin Writers
  /\ MaxClients \in Nat /\ MaxFaults \in Nat

VARIABLES
  lock,      \* holder of _client_lock
  client,    \* _client
  created,   \* clients created so far
  open,      \* clients not closed
  broken,    \* clients whose connection is lost
  pingDue,   \* CH_CLIENT_PING_INTERVAL_SEC since _client_last_healthcheck
  pc,        \* pc[w]: where the handler is
  handle,    \* handle[w]: the local variable client
  faults     \* bound

vars == <<lock, client, created, open, broken, pingDue, pc, handle, faults>>

Locations == {"idle", "get", "ping", "connect", "insert", "except", "failed"}

Common == Writers \ DirectWriters

Init ==
  /\ lock = NoWriter /\ client = NoClient /\ created = 0
  /\ open = {} /\ broken = {} /\ pingDue = FALSE
  /\ pc = [w \in Writers |-> "idle"]
  /\ handle = [w \in Writers |-> NoClient]
  /\ faults = 0

Goto(w, l) == pc' = [pc EXCEPT ![w] = l]

(* A writer takes the lock: for its whole insert, or inside get_client.    *)
Acquire(w) ==
  /\ pc[w] = "idle" /\ lock = NoWriter
  /\ lock' = w
  /\ Goto(w, "get")
  /\ UNCHANGED <<client, created, open, broken, pingDue, handle, faults>>

(* Mutant: the lock covers get_client only, in every writer.               *)
ObtainAndRelease(w, c) ==
  /\ handle' = [handle EXCEPT ![w] = c]
  /\ Goto(w, "insert")
  /\ lock' = NoWriter

(* get_client returns c.  A direct writer has given up the lock by then.   *)
Obtain(w, c) ==
  /\ handle' = [handle EXCEPT ![w] = c]
  /\ Goto(w, "insert")
  /\ lock' = IF w \in DirectWriters THEN NoWriter ELSE lock

(* The cached client is returned, checked first, or created.  get_client   *)
(* reads the clock before it waits for the lock, so a direct writer may    *)
(* find the last health check recent when it no longer is.                 *)
Cached(w) ==
  /\ pc[w] = "get" /\ client # NoClient /\ (pingDue => w \in DirectWriters)
  /\ Obtain(w, client)
  /\ UNCHANGED <<client, created, open, broken, pingDue, faults>>

StartPing(w) ==
  /\ pc[w] = "get" /\ client # NoClient /\ pingDue
  /\ Goto(w, "ping")
  /\ UNCHANGED <<lock, client, created, open, broken, pingDue, handle, faults>>

StartConnect(w) ==
  /\ pc[w] = "get" /\ client = NoClient
  /\ Goto(w, "connect")
  /\ UNCHANGED <<lock, client, created, open, broken, pingDue, handle, faults>>

(* ping() of clickhouse-connect answers False on a lost connection rather  *)
(* than raise, and get_client ignores the answer: whatever it is, the      *)
(* client counts as checked and is handed out.                             *)
PingReturns(w) ==
  /\ pc[w] = "ping"
  /\ pingDue' = FALSE
  /\ Obtain(w, client)
  /\ UNCHANGED <<client, created, open, broken, faults>>

(* Mutant: get_client returns after an exception instead of going on.      *)
PingRaisesReturnsNone(w) ==
  /\ pc[w] = "ping" /\ faults < MaxFaults
  /\ faults' = faults + 1
  /\ open' = open \ {client}
  /\ client' = NoClient
  /\ Obtain(w, NoClient)
  /\ UNCHANGED <<created, broken, pingDue>>

(* Only an exception that ping() lets through has the client replaced.     *)
PingRaises(w) ==
  /\ pc[w] = "ping" /\ faults < MaxFaults
  /\ faults' = faults + 1
  /\ open' = open \ {client}
  /\ client' = NoClient
  /\ Goto(w, "connect")
  /\ UNCHANGED <<lock, created, broken, pingDue, handle>>

Connect(w) ==
  /\ pc[w] = "connect" /\ created < MaxClients
  /\ created' = created + 1
  /\ client' = created + 1
  /\ open' = open \cup {client'}
  /\ pingDue' = FALSE
  /\ Obtain(w, client')
  /\ UNCHANGED <<broken, faults>>

(* An exception ends the handler of a direct writer and, after its except  *)
(* clause, the attempt of a common one; either way the lock is free.       *)
Throw(w, discard) ==
  /\ lock' = IF lock = w THEN NoWriter ELSE lock
  /\ handle' = [handle EXCEPT ![w] = NoClient]
  /\ Goto(w, IF w \in DirectWriters THEN "failed" ELSE IF discard THEN "except" ELSE "idle")

ConnectRaises(w, discard) ==
  /\ pc[w] = "connect" /\ faults < MaxFaults
  /\ faults' = faults + 1
  /\ Throw(w, discard)
  /\ UNCHANGED <<client, created, open, broken, pingDue>>

InsertSucceeds(w) ==
  /\ pc[w] = "insert" /\ handle[w] \notin broken
  /\ lock' = IF lock = w THEN NoWriter ELSE lock
  /\ handle' = [handle EXCEPT ![w] = NoClient]
  /\ Goto(w, "idle")
  /\ UNCHANGED <<client, created, open, broken, pingDue, faults>>

(* The insert raises, because the client is unusable or for another reason *)
(* (a timeout, a schema error); discard: _classify_ch_error calls it a     *)
(* connection error or a timeout.                                          *)
InsertRaises(w, discard) ==
  /\ pc[w] = "insert"
  /\ IF handle[w] \in open \ broken
     THEN faults < MaxFaults /\ faults' = faults + 1
     ELSE UNCHANGED faults
  /\ Throw(w, discard)
  /\ UNCHANGED <<client, created, open, broken, pingDue>>

(* Mutant: the client is forgotten without close().                        *)
DiscardWithoutClose(w) ==
  /\ pc[w] = "except" /\ lock = NoWriter
  /\ client' = NoClient
  /\ Goto(w, "idle")
  /\ UNCHANGED <<lock, created, open, broken, pingDue, handle, faults>>

(* Mutant: the discard trusts a recent health check.                       *)
DiscardIfCheckDue(w) ==
  /\ pc[w] = "except" /\ lock = NoWriter
  /\ open' = IF pingDue THEN open \ {client} ELSE open
  /\ client' = IF pingDue THEN NoClient ELSE client
  /\ Goto(w, "idle")
  /\ UNCHANGED <<lock, created, broken, pingDue, handle, faults>>

(* The except clause of write_to_clickhouse after a connection error or a  *)
(* timeout: it closes whatever client is current then.                     *)
_discard_client(w) ==
  /\ pc[w] = "except" /\ lock = NoWriter
  /\ open' = open \ {client}
  /\ client' = NoClient
  /\ Goto(w, "idle")
  /\ UNCHANGED <<lock, created, broken, pingDue, handle, faults>>

(* The environment: connections break and time passes.                     *)
Break(c) ==
  /\ c \in open \ broken /\ faults < MaxFaults
  /\ faults' = faults + 1
  /\ broken' = broken \cup {c}
  /\ UNCHANGED <<lock, client, created, open, pingDue, pc, handle>>

PingIntervalElapses ==
  /\ client # NoClient /\ ~pingDue
  /\ pingDue' = TRUE
  /\ UNCHANGED <<lock, client, created, open, broken, pc, handle, faults>>

-----------------------------------------------------------------------------
Step(w) ==
  \/ Acquire(w) \/ Cached(w) \/ StartPing(w) \/ StartConnect(w)
  \/ PingReturns(w) \/ PingRaises(w) \/ Connect(w) \/ InsertSucceeds(w)
  \/ \E discard \in BOOLEAN : ConnectRaises(w, discard) \/ InsertRaises(w, discard)
  \/ _discard_client(w)

Next ==
  \/ \E w \in Writers : Step(w)
  \/ \E c \in Clients : Break(c)
  \/ PingIntervalElapses

Spec == Init /\ [][Next]_vars

(* Micro-batches keep coming, every writer that waits for the lock gets it *)
(* in the end, and time passes.                                            *)
Fairness ==
  /\ \A w \in Writers : SF_vars(Step(w))
  /\ WF_vars(PingIntervalElapses)

FairSpec == Spec /\ Fairness

-----------------------------------------------------------------------------
(* Properties.                                                             *)

(* Every variable keeps its type, and an insert has a client to call.      *)
TypeOK ==
  /\ lock \in Writers \cup {NoWriter}
  /\ client \in Clients \cup {NoClient}
  /\ created \in 0..MaxClients
  /\ open \subseteq 1..created /\ broken \subseteq 1..created
  /\ pingDue \in BOOLEAN
  /\ pc \in [Writers -> Locations]
  /\ handle \in [Writers -> Clients \cup {NoClient}]
  /\ \A w \in Writers : pc[w] = "insert" => handle[w] # NoClient
  /\ faults \in Nat

(* A writer that is using the client c.                                    *)
Uses(w, c) == (pc[w] = "insert" /\ handle[w] = c) \/ (pc[w] = "ping" /\ client = c)

(* write_to_clickhouse calls never use a client at the same time, and none *)
(* of them has its client closed while it inserts: not by the health check *)
(* and not by another writer that discards a failed client.                *)
CommonWritersAreSafe ==
  /\ \A v, w \in Common, c \in Clients : Uses(v, c) /\ Uses(w, c) => v = w
  /\ \A w \in Common : pc[w] = "insert" => handle[w] \in open

(* No client leaks: the cached client is the only one that is open.        *)
OnlyCachedIsOpen == open = {client} \ {NoClient}

(* The client that is cached when write_to_clickhouse has met a connection *)
(* error or a timeout does not stay cached, however recent its last health *)
(* check and however busy the lock.  (A lost connection that no insert     *)
(* reports as one of these may stay cached: no health check sees it.)      *)
FailedClientIsReplaced ==
  \A w \in Common, c \in Clients : (pc[w] = "except" /\ client = c) ~> (client # c)

(* The comment of write_to_clickhouse on the lock: it protects the inserts *)
(* of all the queries of the driver from each other and from the health    *)
(* check, so nobody closes the client a query is inserting with.           *)
InsertsKeepTheirClient == \A w \in Writers : pc[w] = "insert" => handle[w] \in open
=============================================================================
