----------------------------- MODULE RpcFailover -----------------------------
(***************************************************************************)
(* BitcoinRPCFailoverManager of api/bitcoin_rpc_failover.py: calls try the *)
(* endpoints in the order of their priority and skip those whose circuit   *)
(* is open; a background thread checks the health of all of them.          *)
(*                                                                         *)
(* _lock covers each update of an endpoint, but neither the request before *)
(* it nor the tests and the deletion of _is_circuit_open.  The attempts of *)
(* one _rpc_call are one step, whose outcome is that of the last of them.  *)
(* Counts of requests and latencies are only reported and left out.        *)
(***************************************************************************)
EXTENDS Integers, Maps

CONSTANTS
  RpcCallers,        \* threads in rpc_call
  HealthThreads,     \* threads start() may have made
  LastEndpoint,      \* the endpoints are 1 .. LastEndpoint, by priority
  BreakerThreshold,  \* circuit_breaker_threshold
  BreakerTimeout,    \* circuit_breaker_timeout
  GoodRequests,      \* whether a call is one that a node answers, a set of BOOLEAN
  MaxNow,            \* bound on the time, for model checking
  MaxFlips           \* bound on the changes of the endpoints, for model checking

Endpoints == 1 .. LastEndpoint

ASSUME FailoverAssumption ==
  /\ LastEndpoint \in Nat \ {0} /\ BreakerThreshold \in Nat \ {0}
  /\ {BreakerTimeout, MaxNow, MaxFlips} \subseteq Nat /\ GoodRequests \subseteq BOOLEAN

VARIABLES
  epStatus,       \* status of each endpoint
  epFailures,     \* consecutive_failures
  openUntil,      \* _circuit_open_until
  checking,       \* _running
  caller,         \* each caller: where it is, at which endpoint, what it asks for
  checker,        \* each health thread: where it is, at which endpoint
  epUp,           \* the endpoints that answer
  flips,
  now,
  calm,           \* history: the endpoints a call could have used at any moment so far
  verdict         \* history: how the last call of each caller ended

endpointVars == <<epStatus, epFailures, openUntil>>
worldVars == <<epUp, flips, now>>
failoverVars == <<endpointVars, checking, caller, checker, worldVars, calm, verdict>>

FailoverInit ==
  /\ epStatus = [e \in Endpoints |-> "unknown"]
  /\ epFailures = [e \in Endpoints |-> 0]
  /\ openUntil = EmptyMap
  /\ checking = FALSE
  /\ caller = [c \in RpcCallers |-> [at |-> "idle", ep |-> 1, good |-> TRUE]]
  /\ checker = [h \in HealthThreads |-> [at |-> "off", ep |-> 1]]
  /\ epUp = Endpoints /\ flips = 0 /\ now = 0
  /\ calm = [c \in RpcCallers |-> {}]
  /\ verdict = [c \in RpcCallers |-> "none"]

-----------------------------------------------------------------------------
(* Updates of an endpoint, under _lock.                                    *)

\* Fault: the failures of an endpoint add up over its successes.
CallSucceedsUncounted(e) ==
  /\ epStatus' = [epStatus EXCEPT ![e] = "healthy"]
  /\ UNCHANGED <<epFailures, openUntil>>

\* A call that was answered leaves _circuit_open_until alone.
CallSucceeds(e) ==
  /\ epStatus' = [epStatus EXCEPT ![e] = "healthy"]
  /\ epFailures' = [epFailures EXCEPT ![e] = 0]
  /\ UNCHANGED openUntil

\* Fault: a health check that was answered leaves the circuit open too.
CheckSucceedsOpen(e) ==
  /\ epStatus' = [epStatus EXCEPT ![e] = "healthy"]
  /\ epFailures' = [epFailures EXCEPT ![e] = 0]
  /\ UNCHANGED openUntil

CheckSucceeds(e) ==
  /\ epStatus' = [epStatus EXCEPT ![e] = "healthy"]
  /\ epFailures' = [epFailures EXCEPT ![e] = 0]
  /\ openUntil' = Erase(openUntil, e)

\* consecutive_failures is unbounded in the code; here it stays at the threshold.
MarkEndpointUnhealthy(e) ==
  LET failures == epFailures[e] + 1 IN
  IF failures >= BreakerThreshold
  THEN /\ epFailures' = [epFailures EXCEPT ![e] = BreakerThreshold]
       /\ epStatus' = [epStatus EXCEPT ![e] = "unhealthy"]
       /\ openUntil' = Put(openUntil, e, now + BreakerTimeout)
  ELSE /\ epFailures' = [epFailures EXCEPT ![e] = failures]
       /\ epStatus' = [epStatus EXCEPT ![e] = "degraded"]
       /\ UNCHANGED openUntil

\* The endpoints that a call which has come this far could still have counted on: they
\* answer, and they are neither skipped as unhealthy nor by their circuit.
Usable(up, status, open) ==
  {e \in up : status[e] # "unhealthy" /\ e \notin DOMAIN open}

TrackCalm ==
  calm' = [c \in RpcCallers |->
             IF caller'[c].at = "idle" /\ caller[c].at = "idle" THEN {}
             ELSE IF caller[c].at = "idle" THEN Usable(epUp', epStatus', openUntil')
             ELSE calm[c] \cap Usable(epUp', epStatus', openUntil')]

-----------------------------------------------------------------------------
(* rpc_call.                                                               *)

At(c, place) == caller[c].at = place

Goto(c, place) == caller' = [caller EXCEPT ![c].at = place]

Ends(c, how) ==
  /\ caller' = [caller EXCEPT ![c].at = "idle", ![c].ep = 1]
  /\ verdict' = [verdict EXCEPT ![c] = how]

\* Fault: the last endpoint is left out.
NextButLast(c) ==
  IF caller[c].ep < LastEndpoint - 1
  THEN caller' = [caller EXCEPT ![c].at = "circuit", ![c].ep = @ + 1] /\ UNCHANGED verdict
  ELSE Ends(c, "all_failed")

\* The loop goes on with the next endpoint, or raises after the last.
NextEndpoint(c) ==
  IF caller[c].ep < LastEndpoint
  THEN caller' = [caller EXCEPT ![c].at = "circuit", ![c].ep = @ + 1] /\ UNCHANGED verdict
  ELSE Ends(c, "all_failed")

RpcCall(c, good) ==
  /\ At(c, "idle")
  /\ caller' = [caller EXCEPT ![c] = [at |-> "circuit", ep |-> 1, good |-> good]]
  /\ verdict' = [verdict EXCEPT ![c] = "none"]
  /\ UNCHANGED endpointVars

\* _is_circuit_open looks whether there is an entry ...
FindCircuit(c) ==
  /\ At(c, "circuit")
  /\ Goto(c, IF caller[c].ep \in DOMAIN openUntil THEN "compare" ELSE "status")
  /\ UNCHANGED <<endpointVars, verdict>>

\* Fault: a call waits at an open circuit.
CompareAgain(c) ==
  /\ At(c, "compare")
  /\ \/ caller[c].ep \notin DOMAIN openUntil /\ Ends(c, "key_error")
     \/ /\ caller[c].ep \in DOMAIN openUntil
        /\ Goto(c, IF now < openUntil[caller[c].ep] THEN "circuit" ELSE "delete")
        /\ UNCHANGED verdict
  /\ UNCHANGED endpointVars

\* ... reads it: the entry may be gone by now ...
CompareCircuit(c) ==
  /\ At(c, "compare")
  /\ \/ caller[c].ep \notin DOMAIN openUntil /\ Ends(c, "key_error")
     \/ /\ caller[c].ep \in DOMAIN openUntil
        /\ IF now < openUntil[caller[c].ep]
           THEN NextEndpoint(c)
           ELSE Goto(c, "delete") /\ UNCHANGED verdict
  /\ UNCHANGED endpointVars

\* ... and deletes it, which fails in the same way.
DeleteCircuit(c) ==
  /\ At(c, "delete")
  /\ \/ caller[c].ep \notin DOMAIN openUntil /\ Ends(c, "key_error") /\ UNCHANGED openUntil
     \/ /\ caller[c].ep \in DOMAIN openUntil
        /\ openUntil' = Erase(openUntil, caller[c].ep)
        /\ Goto(c, "status") /\ UNCHANGED verdict
  /\ UNCHANGED <<epStatus, epFailures>>

\* An unhealthy endpoint is skipped, unless it is the last one.
TestStatus(c) ==
  /\ At(c, "status")
  /\ IF epStatus[caller[c].ep] = "unhealthy" /\ caller[c].ep # LastEndpoint
     THEN NextEndpoint(c)
     ELSE Goto(c, "send") /\ UNCHANGED verdict
  /\ UNCHANGED endpointVars

\* _rpc_call.  A request no node answers fails everywhere.
SendRpc(c) ==
  /\ At(c, "send")
  /\ Goto(c, IF caller[c].ep \in epUp /\ caller[c].good THEN "won" ELSE "lost")
  /\ UNCHANGED <<endpointVars, verdict>>

RecordCall(c) ==
  \/ At(c, "won") /\ CallSucceeds(caller[c].ep) /\ Ends(c, "answered")
  \/ At(c, "lost") /\ MarkEndpointUnhealthy(caller[c].ep) /\ NextEndpoint(c)

CallerStep(c) ==
  /\ \/ FindCircuit(c) \/ CompareCircuit(c) \/ DeleteCircuit(c) \/ TestStatus(c)
     \/ SendRpc(c) \/ RecordCall(c)
  /\ UNCHANGED <<checking, checker, worldVars>>
  /\ TrackCalm

-----------------------------------------------------------------------------
(* start, stop and the health threads.                                     *)

StartChecks(h) ==
  /\ ~checking /\ checker[h].at = "off"
  /\ checking' = TRUE
  /\ checker' = [checker EXCEPT ![h].at = "test"]
  /\ UNCHANGED <<endpointVars, caller, worldVars, calm, verdict>>

\* stop() waits five seconds for the thread and returns in any case.
StopChecks ==
  /\ checking /\ checking' = FALSE
  /\ UNCHANGED <<endpointVars, caller, checker, worldVars, calm, verdict>>

HealthStep(h) ==
  LET e == checker[h].ep
      Move(place) == checker' = [checker EXCEPT ![h].at = place]
      MoveOn == checker' = [checker EXCEPT ![h].at = IF e < LastEndpoint THEN "ping" ELSE "test",
                                           ![h].ep = IF e < LastEndpoint THEN e + 1 ELSE 1]
  IN
  /\ \/ /\ checker[h].at = "test"
        /\ Move(IF checking THEN "ping" ELSE "off") /\ UNCHANGED endpointVars
     \/ /\ checker[h].at = "ping"
        /\ Move(IF e \in epUp THEN "good" ELSE "bad") /\ UNCHANGED endpointVars
     \/ checker[h].at = "good" /\ CheckSucceeds(e) /\ MoveOn
     \/ checker[h].at = "bad" /\ MarkEndpointUnhealthy(e) /\ MoveOn
  /\ UNCHANGED <<checking, caller, worldVars, verdict>>
  /\ TrackCalm

-----------------------------------------------------------------------------
FlipEndpoint(e) ==
  /\ flips < MaxFlips /\ flips' = flips + 1
  /\ epUp' = IF e \in epUp THEN epUp \ {e} ELSE epUp \cup {e}
  /\ UNCHANGED <<endpointVars, checking, caller, checker, now, verdict>>
  /\ TrackCalm

FailoverTick ==
  /\ now < MaxNow /\ now' = now + 1
  /\ UNCHANGED <<endpointVars, checking, caller, checker, epUp, flips, calm, verdict>>

FailoverNext ==
  \/ \E c \in RpcCallers, good \in GoodRequests :
       RpcCall(c, good) /\ UNCHANGED <<checking, checker, worldVars>> /\ TrackCalm
  \/ \E c \in RpcCallers : CallerStep(c)
  \/ \E h \in HealthThreads : StartChecks(h) \/ HealthStep(h)
  \/ StopChecks \/ FailoverTick
  \/ \E e \in Endpoints : FlipEndpoint(e)

\* Requests time out, and the threads in a call or a round of checks go on.
FailoverFairness ==
  /\ \A c \in RpcCallers : WF_failoverVars(CallerStep(c))
  /\ \A h \in HealthThreads : WF_failoverVars(HealthStep(h))

FailoverSpec == FailoverInit /\ [][FailoverNext]_failoverVars /\ FailoverFairness

-----------------------------------------------------------------------------
(* Properties.                                                             *)

\* Every variable has its type, and the status of an endpoint is what its consecutive
\* failures say (_mark_endpoint_unhealthy and the two places that reset them).
FailoverTypeOK ==
  /\ \A e \in Endpoints :
       epStatus[e] = IF epFailures[e] >= BreakerThreshold THEN "unhealthy"
                     ELSE IF epFailures[e] > 0 THEN "degraded"
                     ELSE IF epStatus[e] = "unknown" THEN "unknown" ELSE "healthy"
  /\ IsMap(openUntil, Endpoints, 0 .. MaxNow + BreakerTimeout)
  /\ checking \in BOOLEAN /\ epUp \subseteq Endpoints
  /\ \A c \in RpcCallers :
       /\ caller[c].at \in {"idle", "circuit", "compare", "delete", "status", "send", "won", "lost"}
       /\ caller[c].ep \in Endpoints
       /\ verdict[c] \in {"none", "answered", "all_failed", "key_error"}

\* "All Bitcoin RPC endpoints failed" is raised for a good request only when no endpoint
\* was usable during the whole call, whatever other calls and health checks did to the
\* endpoints meanwhile.
FailoverReaches ==
  \A c \in RpcCallers :
    verdict[c] = "all_failed" /\ caller[c].good => calm[c] = {}

\* An endpoint that answers again is found healthy, with its circuit closed, again and
\* again while the health checks run, however calls treat it.
EndpointRecovers ==
  \A e \in Endpoints :
    <>[](e \in epUp /\ checking) =>
      []<>(epStatus[e] = "healthy" /\ e \notin DOMAIN openUntil)

\* rpc_call returns or raises.
RpcCallReturns == \A c \in RpcCallers : caller[c].at # "idle" ~> caller[c].at = "idle"

\* The manager gets over an outage: endpoints that answer again are found healthy, and
\* no call hangs meanwhile.
FailoverProgress == EndpointRecovers /\ RpcCallReturns

=============================================================================
