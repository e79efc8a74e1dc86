------------------------ MODULE HaciendaCircuitBreaker ------------------------
(***************************************************************************)
(* One process's calls to Hacienda's public API: a cache, a circuit that    *)
(* opens on failures, a sliding-window rate limit, and retries with backoff *)
(* (hacienda-circuit-breaker.service.ts, hacienda-api.adapter.ts).  An      *)
(* admitted call is not checked against the circuit again.                  *)
(***************************************************************************)
EXTENDS Naturals, Sequences, FiniteSetsExt

CONSTANTS
    Calls,            \* lookups of one key
    FailureThreshold, ResetTimeout, \* of the circuit
    MaxPerWindow, Window,           \* of the rate limit
    Retries429, Retries5xx,         \* attempts after the first
    MaxTime           \* bound: the clock

VARIABLES
    clock,
    circuit,          \* [state, failures, next]
    stamps,           \* requestTimestamps
    callPc,           \* where each call is
    wakeAt, attempt,  \* when a sleeping call goes on; retries made
    cached,           \* the cache holds an answer
    sends             \* when each request was sent

breakerVars == <<clock, circuit, stamps, callPc, wakeAt, attempt, cached, sends>>

InFlight == {"limited", "sent"}
Goto(c, place) == callPc' = [callPc EXCEPT ![c] = place]

\* getTaxpayer, getExchangeRate, getCabys and searchCabys: the cache, then the circuit.
Lookup(c) ==
    /\ callPc[c] = "begin"
    /\ IF cached
       THEN Goto(c, "answered") /\ UNCHANGED circuit
       ELSE IF circuit.state = "OPEN" /\ clock < circuit.next
       THEN Goto(c, "rejected") /\ UNCHANGED circuit
       ELSE /\ Goto(c, "limited")
            /\ circuit' = IF circuit.state = "OPEN"
                          THEN [circuit EXCEPT !.state = "HALF_OPEN"] ELSE circuit
    /\ wakeAt' = [wakeAt EXCEPT ![c] = clock]
    /\ UNCHANGED <<clock, stamps, attempt, cached, sends>>

From(kept) == IF kept = {} THEN <<>> ELSE SubSeq(stamps, Min(kept), Len(stamps))

\* Variant of Recent: a stamp leaves one tick early.
RecentShort == From({i \in 1..Len(stamps) : stamps[i] + Window > clock + 1})

\* The timestamps of the last window: they are in order of time, so what the filter
\* keeps is their end.  A full window puts the call to sleep.
Recent == From({i \in 1..Len(stamps) : stamps[i] + Window > clock})

Send(c) ==
    /\ callPc[c] = "limited" /\ wakeAt[c] <= clock
    /\ Len(Recent) < MaxPerWindow
    /\ stamps' = Append(Recent, clock)
    /\ sends' = Append(sends, clock)
    /\ Goto(c, "sent")
    /\ UNCHANGED <<clock, circuit, wakeAt, attempt, cached>>

Sleep(c) ==
    /\ callPc[c] = "limited" /\ wakeAt[c] <= clock
    /\ Len(Recent) >= MaxPerWindow
    /\ stamps' = Recent
    /\ wakeAt' = [wakeAt EXCEPT ![c] = Recent[1] + Window]
    /\ UNCHANGED <<clock, circuit, callPc, attempt, cached, sends>>

\* Variant of Succeeded: the count goes on.
SucceededCounting ==
    [circuit EXCEPT !.state = IF circuit.state = "HALF_OPEN" THEN "CLOSED" ELSE circuit.state]

\* onSuccess and onFailure.
Succeeded ==
    [circuit EXCEPT !.failures = 0,
                    !.state = IF circuit.state = "HALF_OPEN" THEN "CLOSED" ELSE circuit.state]

\* Variant of Opens: a failed probe leaves the circuit half open.
OpensWhenClosed == circuit.state = "CLOSED" /\ circuit.failures + 1 >= FailureThreshold

Opens ==
    \/ circuit.state = "HALF_OPEN"
    \/ circuit.state = "CLOSED" /\ circuit.failures + 1 >= FailureThreshold

Failed ==
    [state |-> IF Opens THEN "OPEN" ELSE circuit.state,
     failures |-> circuit.failures + 1,
     next |-> IF Opens THEN clock + ResetTimeout ELSE circuit.next]

\* An answer is cached, one that says "not found" too.
Answer(c) ==
    /\ callPc[c] = "sent"
    /\ circuit' = Succeeded /\ cached' = TRUE
    /\ Goto(c, "answered")
    /\ UNCHANGED <<clock, stamps, wakeAt, attempt, sends>>

\* 429 sleeps longer each time, 5xx and no answer a fixed while; the rate limit comes again.
Retry(c) ==
    /\ callPc[c] = "sent"
    /\ \/ attempt[c] < Retries429 /\ wakeAt' = [wakeAt EXCEPT ![c] = clock + attempt[c] + 1]
       \/ attempt[c] < Retries5xx /\ wakeAt' = [wakeAt EXCEPT ![c] = clock + 2]
    /\ attempt' = [attempt EXCEPT ![c] = @ + 1]
    /\ Goto(c, "limited")
    /\ UNCHANGED <<clock, circuit, stamps, cached, sends>>

\* The retries are used up, or the answer is any other error, a 4xx too.
Fail(c) ==
    /\ callPc[c] = "sent"
    /\ circuit' = Failed
    /\ Goto(c, "unavailable")
    /\ UNCHANGED <<clock, stamps, wakeAt, attempt, cached, sends>>

\* The answer's time to live passes.
Expire ==
    /\ cached /\ cached' = FALSE
    /\ UNCHANGED <<clock, circuit, stamps, callPc, wakeAt, attempt, sends>>

Tick ==
    /\ clock < MaxTime /\ clock' = clock + 1
    /\ UNCHANGED <<circuit, stamps, callPc, wakeAt, attempt, cached, sends>>

Init ==
    /\ clock = 0 /\ circuit = [state |-> "CLOSED", failures |-> 0, next |-> 0] /\ stamps = <<>>
    /\ callPc = [c \in Calls |-> "begin"] /\ wakeAt = [c \in Calls |-> 0]
    /\ attempt = [c \in Calls |-> 0] /\ cached = FALSE /\ sends = <<>>

Next ==
    \/ \E c \in Calls : Lookup(c) \/ Send(c) \/ Sleep(c) \/ Answer(c) \/ Retry(c) \/ Fail(c)
    \/ Expire \/ Tick

TypeOK ==
    /\ clock \in 0..MaxTime /\ cached \in BOOLEAN
    /\ circuit \in [state : {"CLOSED", "OPEN", "HALF_OPEN"}, failures : Nat, next : Nat]

\* No window of time holds more requests than the limit, first attempts and retries
\* together: of one more in a row, the last is sent when the first has left the window.
RateIsBounded ==
    \A i \in 1..(Len(sends) - MaxPerWindow) : sends[i] + Window <= sends[i + MaxPerWindow]

\* The circuit does not stay half open with nothing under way to close or open it: whoever
\* answers first decides, an early call too.
HalfOpenIsDecided ==
    circuit.state = "HALF_OPEN" => \E c \in Calls : callPc[c] \in InFlight

\* A closed circuit has counted fewer failures than open it.
ClosedIsBelowThreshold == circuit.state = "CLOSED" => circuit.failures < FailureThreshold

\* Calls to Hacienda's public API.
BreakerInv == TypeOK /\ RateIsBounded /\ HalfOpenIsDecided /\ ClosedIsBelowThreshold
=============================================================================
