----------------------------- MODULE Collectors -----------------------------
(***************************************************************************)
(* The collector process (collectors/run_all.py): one asyncio event loop   *)
(* that runs a task per WebSocket collector (collectors/base_collector.py) *)
(* and per REST poller (collectors/rest_poller.py).  Tasks interleave at   *)
(* their awaits.  They share one Kafka producer, which the first task to   *)
(* stop closes for all (KafkaProducer has the producer itself).            *)
(***************************************************************************)
EXTENDS Integers, FiniteSets

CONSTANTS
  Sockets,             \* WebSocket collectors
  Pollers,             \* REST pollers
  NumEndpoints,        \* NumEndpoints[p]: endpoints p asks in turn (1 or 4)
  BaseDelay, MaxDelay, \* first and largest reconnect delay (3 s, 60 s)
  IdleLimit,           \* recv timeouts in a row until a reconnect
  Interval,            \* Interval[p]: pause of a poller between cycles
  RestBase, RestMax,   \* REST_BACKOFF_BASE_SECONDS, REST_MAX_BACKOFF_SECONDS
  Cooldown,            \* REST_BAN_COOLDOWN_SECONDS
  Jitter,              \* REST_BACKOFF_JITTER_RATIO, in percent
  RetryAfters,         \* values of a Retry-After header
  FloatExponent        \* the largest n for which 2^n is a float (1023)

(* A list of symbols is never empty, so there is always a task to wait for.*)
ASSUME ConstantsAssumption ==
  /\ Pollers \cap Sockets = {} /\ Pollers \cup Sockets # {}
  /\ NumEndpoints \in [Pollers -> Nat \ {0}] /\ Interval \in [Pollers -> Nat]
  /\ BaseDelay \in Nat \ {0} /\ MaxDelay \in Nat /\ BaseDelay <= MaxDelay
  /\ IdleLimit \in Nat \ {0}
  /\ RestBase \in Nat \ {0} /\ RestMax \in Nat \ {0} /\ Cooldown \in Nat \ {0}
  /\ Jitter \in 0..100 /\ RetryAfters \subseteq Nat /\ FloatExponent \in Nat

VARIABLES
  main,        \* main(): "gather", "cancelling" after an exception, "ended"
  signalled,   \* shutdown_handler has run
  closed,      \* the shared producer is closed
  running,     \* running[t]: the flag of collector or poller t
  pc,          \* pc[t]: where task t is
  \* WebSocket collectors
  reconnect_delay,
  idle,        \* recv timeouts since the last message
  silent,      \* history: reconnects since the last message, up to the largest delay
  after,       \* history: messages taken up since the shutdown signal
  \* REST pollers
  endpoint,    \* the endpoint being asked
  consecutive_failures,  \* per endpoint; all counts above the overflow are one
  sleep_for,
  cause        \* history: the response that set sleep_for

wsVars == <<reconnect_delay, idle, silent, after>>
restVars == <<endpoint, consecutive_failures, sleep_for, cause>>
vars == <<main, signalled, closed, running, pc, wsVars, restVars>>

Tasks == Sockets \cup Pollers
Lesser(a, b) == IF a < b THEN a ELSE b
Larger(a, b) == IF a < b THEN b ELSE a

-----------------------------------------------------------------------------
(* compute_backoff_delay.                                                  *)

(* The responses that matter: a good row; 429 with a Retry-After header; a *)
(* ban (418, 403) with or without one; any other status and a row that     *)
(* fails validation; and no response, where record_failure is called from  *)
(* an except clause.                                                       *)
NoHeader == -1
Responses ==
  {[kind |-> "ok", after |-> NoHeader], [kind |-> "other", after |-> NoHeader],
   [kind |-> "network", after |-> NoHeader]}
  \cup [kind : {"limited"}, after : RetryAfters]
  \cup [kind : {"banned"}, after : RetryAfters \cup {NoHeader}]

(* Delays are counted in hundredths of a second, so that a jittered one is *)
(* not rounded.                                                            *)
Seconds(s) == 100 * s

(* The ends and the middle of the interval a delay of d seconds, jittered, *)
(* is drawn from.                                                          *)
_jittered_delay(d) == {d * f : f \in {100 - Jitter, 100, 100 + Jitter}}

Capped(delays) == {Lesser(d, Seconds(RestMax)) : d \in delays}

Overflows(failures) == failures - 1 > FloatExponent

Power2[n \in Nat] == IF n = 0 THEN 1 ELSE 2 * Power2[n - 1]

(* Mutant: the cap comes before the jitter.                                *)
DelaysCappedFirst(r, failures) ==
  CASE r.kind = "limited" -> _jittered_delay(Lesser(r.after, RestMax))
    [] r.kind = "banned" -> _jittered_delay(Lesser(Larger(Cooldown, r.after), RestMax))
    [] OTHER -> _jittered_delay(Lesser(RestBase * Power2[failures - 1], RestMax))

(* The delays a failure may get.  Only the exponential ones can overflow.  *)
compute_backoff_delay(r, failures) ==
  CASE r.kind = "limited" -> Capped(_jittered_delay(r.after))
    [] r.kind = "banned" -> Capped(_jittered_delay(Larger(Cooldown, r.after)))
    [] OTHER -> Capped(_jittered_delay(RestBase * Power2[failures - 1]))

Saturated == FloatExponent + 2
Increment(failures) == Lesser(failures + 1, Saturated)

-----------------------------------------------------------------------------
Init ==
  /\ main = "gather" /\ signalled = FALSE /\ closed = FALSE
  /\ running = [t \in Tasks |-> TRUE]
  /\ pc = [t \in Tasks |-> IF t \in Sockets THEN "connect" ELSE "request"]
  /\ reconnect_delay = [c \in Sockets |-> BaseDelay]
  /\ idle = [c \in Sockets |-> 0]
  /\ silent = [c \in Sockets |-> 0] /\ after = [c \in Sockets |-> 0]
  /\ endpoint = [p \in Pollers |-> 1]
  /\ consecutive_failures = [p \in Pollers |-> [i \in 1..NumEndpoints[p] |-> 0]]
  /\ sleep_for = [p \in Pollers |-> 0]
  /\ cause = [p \in Pollers |-> [kind |-> "ok", after |-> NoHeader]]

Goto(t, l) == pc' = [pc EXCEPT ![t] = l]

(* A task runs while nothing has cancelled it.                             *)
At(t, l) == main = "gather" /\ pc[t] = l

(* BaseBinanceCollector.start: behind the loop, the producer is closed.    *)
Finish(c) == Goto(c, "done") /\ closed' = TRUE

(* The connection is gone: wait for the reconnect, or leave the loop.      *)
Disconnected(c) ==
  IF running[c] THEN Goto(c, "sleep") /\ UNCHANGED closed ELSE Finish(c)

(* The top of a loop: go on, or leave it.                                  *)
WhileRunning(c, l) ==
  IF running[c] THEN Goto(c, l) /\ UNCHANGED closed ELSE Finish(c)

(* Mutant: a connection counts as a success before it delivers anything.   *)
ConnectResets(c) ==
  /\ At(c, "connect")
  /\ idle' = [idle EXCEPT ![c] = 0]
  /\ reconnect_delay' = [reconnect_delay EXCEPT ![c] = BaseDelay]
  /\ WhileRunning(c, "recv")
  /\ UNCHANGED <<main, signalled, running, silent, after, restVars>>

(* websockets.connect succeeds.                                            *)
Connect(c) ==
  /\ At(c, "connect")
  /\ idle' = [idle EXCEPT ![c] = 0]
  /\ WhileRunning(c, "recv")
  /\ UNCHANGED <<main, signalled, running, reconnect_delay, silent, after, restVars>>

(* Mutant: the exception is not caught.                                    *)
ConnectFailsEscapes(c) ==
  /\ At(c, "connect")
  /\ Goto(c, "raised")
  /\ UNCHANGED <<main, signalled, closed, running, wsVars, restVars>>

(* It raises: counted, and tried again.                                    *)
ConnectFails(c) ==
  /\ At(c, "connect")
  /\ Disconnected(c)
  /\ UNCHANGED <<main, signalled, running, wsVars, restVars>>

(* ws.recv returns a message; process_data is awaited.                     *)
Receive(c) ==
  /\ At(c, "recv")
  /\ Goto(c, "process")
  /\ idle' = [idle EXCEPT ![c] = 0]
  /\ reconnect_delay' = [reconnect_delay EXCEPT ![c] = BaseDelay]
  /\ silent' = [silent EXCEPT ![c] = 0]
  /\ after' = IF signalled THEN [after EXCEPT ![c] = Lesser(@ + 1, 2)] ELSE after
  /\ UNCHANGED <<main, signalled, closed, running, restVars>>

(* Mutant: the loop does not look at the flag again.                       *)
ProcessKeepsReceiving(c) ==
  /\ At(c, "process")
  /\ Goto(c, "recv")
  /\ UNCHANGED <<main, signalled, closed, running, wsVars, restVars>>

(* process_data returns, or raises an exception that is counted: the row   *)
(* was handed to the producer, as itself or as a bad row.                  *)
Process(c) ==
  /\ At(c, "process")
  /\ WhileRunning(c, "recv")
  /\ UNCHANGED <<main, signalled, running, wsVars, restVars>>

(* Mutant: an idle connection is reported and kept.                        *)
IdleOnlyReported(c) ==
  /\ At(c, "recv")
  /\ idle' = [idle EXCEPT ![c] = (@ + 1) % IdleLimit]
  /\ WhileRunning(c, "recv")
  /\ UNCHANGED <<main, signalled, running, reconnect_delay, silent, after, restVars>>

(* ws.recv has waited for WS_RECV_TIMEOUT_SEC; after WS_IDLE_RECONNECT_SEC *)
(* without a message the connection is given up.                           *)
RecvTimeout(c) ==
  /\ At(c, "recv")
  /\ idle' = [idle EXCEPT ![c] = @ + 1]
  /\ IF idle[c] + 1 >= IdleLimit THEN Disconnected(c) ELSE WhileRunning(c, "recv")
  /\ UNCHANGED <<main, signalled, running, reconnect_delay, silent, after, restVars>>

(* The connection is closed by the other side, or breaks.                  *)
ConnectionClosed(c) ==
  /\ At(c, "recv")
  /\ Disconnected(c)
  /\ UNCHANGED <<main, signalled, running, wsVars, restVars>>

(* Mutant: the delay is doubled without a cap.                             *)
WakeUncapped(c) ==
  /\ At(c, "sleep")
  /\ reconnect_delay' = [reconnect_delay EXCEPT ![c] = @ * 2]
  /\ silent' = [silent EXCEPT ![c] = IF BaseDelay * Power2[@] < MaxDelay THEN @ + 1 ELSE @]
  /\ WhileRunning(c, "connect")
  /\ UNCHANGED <<main, signalled, running, idle, after, restVars>>

(* asyncio.sleep returns, and the next delay is twice as long.  The jitter *)
(* of this sleep changes how long it lasts, which is not modelled, and not *)
(* the delay that is doubled.                                              *)
Wake(c) ==
  /\ At(c, "sleep")
  /\ reconnect_delay' = [reconnect_delay EXCEPT ![c] = Lesser(@ * 2, MaxDelay)]
  /\ silent' = [silent EXCEPT ![c] = IF BaseDelay * Power2[@] < MaxDelay THEN @ + 1 ELSE @]
  /\ WhileRunning(c, "connect")
  /\ UNCHANGED <<main, signalled, running, idle, after, restVars>>

-----------------------------------------------------------------------------
(* OpenInterestPoller.start, LongShortRatioPoller._fetch_and_send and      *)
(* start.                                                                  *)

RestRecord(p, n) ==
  consecutive_failures' = [consecutive_failures EXCEPT ![p][endpoint[p]] = n]

(* The end of a cycle: the next one begins after sleep_for.                *)
SleepFor(p, d, r) ==
  /\ Goto(p, "sleep")
  /\ endpoint' = [endpoint EXCEPT ![p] = 1]
  /\ sleep_for' = [sleep_for EXCEPT ![p] = Larger(Seconds(Interval[p]), d)]
  /\ cause' = [cause EXCEPT ![p] = r]

(* Mutant: the cycle ends after its first endpoint.                        *)
NextEndpointNever(p, d, r) == SleepFor(p, d, r)

(* A cycle ends with its last endpoint, or with the first that has to wait.*)
NextEndpoint(p, d, r) ==
  IF d > 0 \/ endpoint[p] = NumEndpoints[p] THEN SleepFor(p, d, r)
  ELSE /\ endpoint' = [endpoint EXCEPT ![p] = @ + 1]
       /\ UNCHANGED <<pc, sleep_for, cause>>

(* 200 and a valid row: it is sent.                                        *)
RequestSucceeds(p) ==
  /\ At(p, "request")
  /\ RestRecord(p, 0)
  /\ NextEndpoint(p, 0, [kind |-> "ok", after |-> NoHeader])
  /\ UNCHANGED <<main, signalled, closed, running, wsVars>>

(* Anything else counts as a failure, which has a delay.                   *)
RequestFails(p) ==
  /\ At(p, "request")
  /\ \E r \in Responses \ {[kind |-> "ok", after |-> NoHeader]} :
       LET n == Increment(consecutive_failures[p][endpoint[p]])
       IN  /\ r.kind \in {"limited", "banned"} \/ ~Overflows(n)
           /\ RestRecord(p, n)
           /\ \E d \in compute_backoff_delay(r, n) : NextEndpoint(p, d, r)
  /\ UNCHANGED <<main, signalled, closed, running, wsVars>>

(* base_delay_seconds * 2 ** (failure_count - 1) raises OverflowError.  In *)
(* an except clause it leaves start(); elsewhere the last except clause    *)
(* calls record_failure once more, which raises again.                     *)
BackoffOverflows(p) ==
  /\ At(p, "request")
  /\ LET n == Increment(consecutive_failures[p][endpoint[p]])
     IN  Overflows(n) /\ RestRecord(p, Increment(n))
  /\ Goto(p, "raised")
  /\ UNCHANGED <<main, signalled, closed, running, wsVars, endpoint, sleep_for, cause>>

PollerWakes(p) ==
  /\ At(p, "sleep")
  /\ Goto(p, IF running[p] THEN "request" ELSE "done")
  /\ sleep_for' = [sleep_for EXCEPT ![p] = 0]
  /\ cause' = [cause EXCEPT ![p] = [kind |-> "ok", after |-> NoHeader]]
  /\ UNCHANGED <<main, signalled, closed, running, wsVars, endpoint, consecutive_failures>>

-----------------------------------------------------------------------------
(* main.                                                                   *)

(* Mutant: the pollers are not told.                                       *)
ShutdownSocketsOnly ==
  /\ main = "gather" /\ ~signalled
  /\ signalled' = TRUE
  /\ running' = [t \in Tasks |-> t \in Pollers]
  /\ UNCHANGED <<main, closed, pc, wsVars, restVars>>

(* SIGINT or SIGTERM: every flag is cleared, and the stop() of the first   *)
(* poller closes the producer while the WebSocket collectors still run.    *)
shutdown_handler ==
  /\ main = "gather" /\ ~signalled
  /\ signalled' = TRUE
  /\ running' = [t \in Tasks |-> FALSE]
  /\ closed' = (closed \/ Pollers # {})
  /\ UNCHANGED <<main, pc, wsVars, restVars>>

(* asyncio.gather returns when all tasks have.                             *)
GatherReturns ==
  /\ main = "gather" /\ \A t \in Tasks : pc[t] = "done"
  /\ main' = "ended"
  /\ UNCHANGED <<signalled, closed, running, pc, wsVars, restVars>>

(* It raises what a task raised; asyncio.run cancels the other tasks, ...  *)
GatherRaises ==
  /\ main = "gather" /\ \E t \in Tasks : pc[t] = "raised"
  /\ main' = "cancelling"
  /\ UNCHANGED <<signalled, closed, running, pc, wsVars, restVars>>

(* ... which end: a collector that is not between two connections clears   *)
(* its flag and closes the producer, all other tasks just stop.            *)
Cancelled(t) ==
  /\ main = "cancelling" /\ pc[t] \notin {"done", "raised"}
  /\ LET caught == t \in Sockets /\ pc[t] # "sleep"
     IN  /\ running' = IF caught THEN [running EXCEPT ![t] = FALSE] ELSE running
         /\ closed' = (closed \/ caught)
  /\ Goto(t, "done")
  /\ UNCHANGED <<main, signalled, wsVars, restVars>>

RunEnds ==
  /\ main = "cancelling" /\ \A t \in Tasks : pc[t] \in {"done", "raised"}
  /\ main' = "ended"
  /\ UNCHANGED <<signalled, closed, running, pc, wsVars, restVars>>

-----------------------------------------------------------------------------
SocketStep(c) ==
  \/ Connect(c) \/ ConnectFails(c) \/ Receive(c) \/ Process(c)
  \/ RecvTimeout(c) \/ ConnectionClosed(c) \/ Wake(c)

PollerStep(p) ==
  RequestSucceeds(p) \/ RequestFails(p) \/ BackoffOverflows(p) \/ PollerWakes(p)

MainStep == GatherReturns \/ GatherRaises \/ RunEnds

Next ==
  \/ \E c \in Sockets : SocketStep(c)
  \/ \E p \in Pollers : PollerStep(p)
  \/ \E t \in Tasks : Cancelled(t)
  \/ shutdown_handler \/ MainStep

Spec == Init /\ [][Next]_vars

(* Every await of a task ends: connects, receives and requests have a      *)
(* timeout, sleeps an end.  No outcome is promised, and no signal.         *)
Fairness ==
  /\ \A c \in Sockets : WF_vars(SocketStep(c))
  /\ \A p \in Pollers : WF_vars(PollerStep(p))
  /\ \A t \in Tasks : WF_vars(Cancelled(t))
  /\ WF_vars(MainStep)

FairSpec == Spec /\ Fairness

-----------------------------------------------------------------------------
(* Properties.                                                             *)

(* Every variable keeps its type.                                          *)
TypeOK ==
  /\ main \in {"gather", "cancelling", "ended"}
  /\ signalled \in BOOLEAN /\ closed \in BOOLEAN
  /\ running \in [Tasks -> BOOLEAN]
  /\ pc \in [Tasks -> {"connect", "recv", "process", "request", "sleep", "raised", "done"}]
  /\ reconnect_delay \in [Sockets -> BaseDelay..MaxDelay]
  /\ idle \in [Sockets -> 0..IdleLimit]
  /\ silent \in [Sockets -> Nat] /\ after \in [Sockets -> 0..2]
  /\ endpoint \in [Pollers -> Nat \ {0}]
  /\ \A p \in Pollers : /\ endpoint[p] <= NumEndpoints[p]
                        /\ consecutive_failures[p] \in [1..NumEndpoints[p] -> 0..Saturated]
  /\ sleep_for \in [Pollers -> Nat] /\ cause \in [Pollers -> Responses]

(* A stream that connects and delivers nothing is reconnected ever more    *)
(* slowly, up to the largest delay: connecting alone resets nothing.       *)
SilentStreamsBackOff ==
  \A c \in Sockets : BaseDelay * Power2[silent[c]] >= MaxDelay => reconnect_delay[c] = MaxDelay

(* A poller that was told to wait does not come back early, apart from the *)
(* jitter and the cap on all delays; and it never sleeps beyond the cap.   *)
PollersHoldBack ==
  \A p \in Pollers : pc[p] = "sleep" =>
    LET asked == IF cause[p].kind = "limited" THEN cause[p].after
                 ELSE IF cause[p].kind = "banned" THEN Larger(Cooldown, cause[p].after) ELSE 0
    IN  /\ sleep_for[p] >= Lesser(asked * (100 - Jitter), Seconds(RestMax))
        /\ sleep_for[p] <= Larger(Seconds(Interval[p]), Seconds(RestMax))

(* The process ends on a signal, or because an endpoint has failed so      *)
(* often in a row that its backoff overflows, and for no other reason: no  *)
(* response and no broken connection stops a collector.                    *)
StopsOnlyForAReason ==
  main # "gather" =>
    signalled \/ \E p \in Pollers : \E i \in 1..NumEndpoints[p] : Overflows(consecutive_failures[p][i])

(* The producer is closed under running collectors by a shutdown only, and *)
(* then every collector takes up at most one more message.                 *)
OneMessageAfterShutdown ==
  /\ closed /\ main = "gather" => signalled
  /\ \A c \in Sockets : after[c] <= 1

(* A shutdown signal ends the process, wherever its tasks are.             *)
ShutdownCompletes == signalled ~> main = "ended"

(* A connection either delivers or is given up.                            *)
SilentLinkIsReplaced == \A c \in Sockets : pc[c] = "recv" ~> pc[c] # "recv"

(* Every endpoint of a poller is asked again and again, unless an earlier  *)
(* one of its cycle keeps failing, or the process stops.                   *)
EveryEndpointIsAsked ==
  \A p \in Pollers : \A i \in 1..NumEndpoints[p] :
    \/ <>(signalled \/ main # "gather" \/ pc[p] = "raised")
    \/ []<>(pc[p] = "request" /\ endpoint[p] = i)
    \/ []<>(\E j \in 1..(i - 1) : consecutive_failures[p][j] > 0)
=============================================================================
