--------------------------- MODULE CircuitBreaker ---------------------------
(* The circuit breaker (platform/resilience): beforeCall and afterCall run under *)
(* a mutex, the call between them does not, so that a call may end long after    *)
(* the state that admitted it.                                                 *)
EXTENDS Integers

CONSTANTS
    BCallers,    \* goroutines
    MaxFailures, \* failures that open the circuit
    HalfOpenMax  \* probes of a half-open circuit

ASSUME BreakerAssumption == MaxFailures \in Nat \ {0} /\ HalfOpenMax \in Nat \ {0}

VARIABLES
    cstate,    \* closed, open or half-open
    failures,
    tries,     \* halfOpenTries
    cooled,    \* openUntil has passed
    inflight,  \* what admitted each caller's call: "no", "closed", "half-open" or "first",
               \* the call that found the circuit open for long enough
    probes     \* calls admitted since the circuit was last found open for long enough

cbvars == <<cstate, failures, tries, cooled, inflight, probes>>

BreakerInit ==
    /\ cstate = "closed" /\ failures = 0 /\ tries = 0 /\ cooled = FALSE /\ probes = 0
    /\ inflight = [c \in BCallers |-> "no"]

\* beforeCall of a closed circuit.
CallClosed(c) ==
    /\ inflight[c] = "no" /\ cstate = "closed"
    /\ inflight' = [inflight EXCEPT ![c] = "closed"]
    /\ UNCHANGED <<cstate, failures, tries, cooled, probes>>

\* beforeCall of an open one after openUntil: this call is not counted in halfOpenTries.
CallFirst(c) ==
    /\ inflight[c] = "no" /\ cstate = "open" /\ cooled
    /\ cstate' = "half-open" /\ tries' = 0 /\ probes' = 1
    /\ inflight' = [inflight EXCEPT ![c] = "first"]
    /\ UNCHANGED <<failures, cooled>>

MutMayProbe == tries <= HalfOpenMax

\* The limit of a half-open circuit.
MayProbe == tries < HalfOpenMax

CallProbe(c) ==
    /\ inflight[c] = "no" /\ cstate = "half-open" /\ MayProbe
    /\ tries' = tries + 1 /\ probes' = probes + 1
    /\ inflight' = [inflight EXCEPT ![c] = "half-open"]
    /\ UNCHANGED <<cstate, failures, cooled>>

\* afterCall without an error closes the circuit, whatever admitted the call.
Succeeds(c) ==
    /\ inflight[c] # "no"
    /\ cstate' = "closed" /\ failures' = 0
    /\ inflight' = [inflight EXCEPT ![c] = "no"]
    /\ UNCHANGED <<tries, cooled, probes>>

\* The failure of any call opens a half-open circuit.
Trips == cstate = "half-open" \/ failures + 1 >= MaxFailures

Fails(c) ==
    /\ inflight[c] # "no"
    /\ IF Trips THEN cstate' = "open" /\ cooled' = FALSE /\ failures' = 0
       ELSE failures' = failures + 1 /\ UNCHANGED <<cstate, cooled>>
    /\ inflight' = [inflight EXCEPT ![c] = "no"]
    /\ UNCHANGED <<tries, probes>>

\* now() passes openUntil.
CoolDown == cstate = "open" /\ cooled' = TRUE /\ UNCHANGED <<cstate, failures, tries, inflight, probes>>

BreakerNext ==
    \/ CoolDown
    \/ \E c \in BCallers : CallClosed(c) \/ CallFirst(c) \/ CallProbe(c) \/ Succeeds(c) \/ Fails(c)

BreakerSpec == BreakerInit /\ [][BreakerNext]_cbvars

-----------------------------------------------------------------------------
(* Properties *)

\* The count of failures stays below its limit: enough of them always open the circuit.
BreakerTypeOK ==
    /\ cstate \in {"closed", "open", "half-open"} /\ cooled \in BOOLEAN
    /\ failures \in 0..(MaxFailures - 1) /\ tries \in Nat /\ probes \in Nat
    /\ inflight \in [BCallers -> {"no", "closed", "half-open", "first"}]

\* A half-open circuit lets at most HalfOpenMax calls through besides the one that found
\* it open for long enough.
ProbesBounded == cstate = "half-open" => probes <= HalfOpenMax + 1

\* A half-open circuit that refuses is not stuck: the call that opened it by half has not
\* ended, and its end closes or opens the circuit.
HalfOpenAttended == cstate = "half-open" => \E c \in BCallers : inflight[c] = "first"
=============================================================================
