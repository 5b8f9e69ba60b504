--------------------------- MODULE SafeHttpClient ---------------------------
(***************************************************************************)
(* The bounded JSON client of the providers (safe-http-client.ts): retries, *)
(* redirects, its own time-out and the abort signal of its caller.         *)
(*                                                                         *)
(* Each caller has one request at a time.  The network and the server may  *)
(* answer in any way; every answer other than a good one, a time-out or an *)
(* abort is a fault, and the scenario bounds their number.  What a good    *)
(* answer says is the business of the module that extends this one.        *)
(***************************************************************************)
EXTENDS Naturals

CONSTANTS
    Callers,
    MaxRetries,      \* attempts after the first
    MaxRedirects     \* redirects that one attempt follows

VARIABLES
    aborted,         \* the callers whose signal is aborted
    call,            \* the request of each caller
    faults           \* the faults that may still happen

httpVars == <<aborted, call, faults>>

ASSUME HttpAssumption == MaxRetries \in Nat /\ MaxRedirects \in Nat

Methods == {"GET", "POST"}

\* HttpErrorKind; "unavailable" is a provider_error of status 502, 503 or 504.
HttpErrors == {"invalid_response", "network_error", "not_found", "provider_error",
               "rate_limited", "timeout", "unavailable"}

CallPhases == {"idle", "waiting", "body", "closing", "pausing", "done"}

Calls ==
    [phase : CallPhases, method : Methods, attempt : 0..MaxRetries, hops : 0..MaxRedirects,
     cause : {"none", "parent", "timeout"},          \* abortCause: the first one counts
     error : HttpErrors \cup {"none"},               \* thrown, while the body is closed
     outcome : HttpErrors \cup {"none", "json", "cancelled"}]

NoCall == [phase |-> "idle", method |-> "GET", attempt |-> 0, hops |-> 0,
           cause |-> "none", error |-> "none", outcome |-> "none"]

HttpTypeOK == aborted \subseteq Callers /\ call \in [Callers -> Calls] /\ faults \in Nat

HttpInit == aborted = {} /\ call = [c \in Callers |-> NoCall]

Running(c) == call[c].phase \in {"waiting", "body", "closing"}

-----------------------------------------------------------------------------
(* One request: jsonWithRetry around jsonOnce.                             *)

Finish(c, outcome) == call' = [call EXCEPT ![c] = [NoCall EXCEPT !.phase = "done",
                                                                  !.outcome = outcome]]

\* The signal may have been aborted before the attempt starts.
Attempt(c, method, n) ==
    call' = [call EXCEPT ![c] = [NoCall EXCEPT !.phase = "waiting", !.method = method,
                                               !.attempt = n,
                                               !.cause = IF c \in aborted THEN "parent" ELSE "none"]]

Ask(c, method) ==
    /\ call[c].phase = "idle"
    /\ IF c \in aborted THEN Finish(c, "cancelled") ELSE Attempt(c, method, 0)

Retryable == {"network_error", "timeout", "unavailable"}

\* Faulty variant: the retry delay is not told of the abort.
PauseUnseen(c) == FALSE

\* The retry delay ends at once when the caller has aborted.
PauseRejected(c) == c \in aborted

\* The catch block of jsonWithRetry.
Thrown(c, error) ==
    IF c \in aborted /\ error # "timeout" THEN Finish(c, "cancelled")
    ELSE IF call[c].attempt = MaxRetries \/ error \notin Retryable THEN Finish(c, error)
    ELSE call' = [call EXCEPT ![c].phase = "pausing"]

\* The catch block of jsonOnce: the cause of the abort outranks the error.
Settle(c, error) ==
    CASE call[c].cause = "parent" -> Finish(c, "cancelled")
      [] call[c].cause = "timeout" -> Thrown(c, "timeout")
      [] OTHER -> Thrown(c, error)

\* An abort rejects the pending fetch or read.
Rejected(c) ==
    /\ call[c].phase \in {"waiting", "body"} /\ call[c].cause # "none"
    /\ Settle(c, "network_error")
    /\ UNCHANGED <<aborted, faults>>

\* The body is cancelled before the error is thrown, which takes a while.
Close(c, error) == call' = [call EXCEPT ![c].phase = "closing", ![c].error = error]

Closed(c) ==
    /\ call[c].phase = "closing"
    /\ Settle(c, call[c].error)
    /\ UNCHANGED <<aborted, faults>>

PauseEnds(c) ==
    /\ call[c].phase = "pausing"
    /\ IF PauseRejected(c) THEN Finish(c, "cancelled")
       ELSE Attempt(c, call[c].method, call[c].attempt + 1)
    /\ UNCHANGED <<aborted, faults>>

\* Faulty variant: requests have no time-out.
TimerOff(c) == FALSE

TimerFires(c) ==
    /\ Running(c) /\ call[c].cause = "none"
    /\ call' = [call EXCEPT ![c].cause = "timeout"]
    /\ UNCHANGED <<aborted, faults>>

\* What happens without the server: the promises of an aborted request settle.
ClientStep(c) == Rejected(c) \/ Closed(c) \/ PauseEnds(c) \/ TimerFires(c)

-----------------------------------------------------------------------------
(* The caller's signal, the network and the server.                        *)

\* One signal may be that of several callers.
Abort(cs) ==
    /\ aborted' = aborted \cup cs
    /\ call' = [c \in Callers |-> IF c \in cs /\ Running(c) /\ call[c].cause = "none"
                                  THEN [call[c] EXCEPT !.cause = "parent"] ELSE call[c]]
    /\ UNCHANGED faults

Pending(c, phase) == call[c].phase = phase /\ call[c].cause = "none"

GoodHeaders(c) ==
    /\ Pending(c, "waiting")
    /\ call' = [call EXCEPT ![c].phase = "body"]
    /\ UNCHANGED <<aborted, faults>>

GoodBody(c) ==
    /\ Pending(c, "body")
    /\ Finish(c, "json")
    /\ UNCHANGED <<aborted, faults>>

Fault == faults > 0 /\ faults' = faults - 1 /\ UNCHANGED aborted

\* Statuses 404, 429, 502 to 504 and others; another content type; a redirect
\* that a POST or the limit forbids, or without Location.
BadStatus(c) ==
    /\ Pending(c, "waiting") /\ Fault
    /\ \E error \in {"not_found", "rate_limited", "unavailable", "provider_error",
                     "invalid_response"} : Close(c, error)

\* The body is cancelled before Location is followed, to an allowed URL only
\* (assertAllowedUrl); one that cannot be parsed counts as a network error.
Redirect(c) ==
    /\ Pending(c, "waiting") /\ Fault
    /\ IF call[c].method = "POST" \/ call[c].hops = MaxRedirects THEN Close(c, "provider_error")
       ELSE \/ call' = [call EXCEPT ![c].hops = @ + 1]
            \/ \E error \in {"invalid_response", "provider_error", "network_error"} : Close(c, error)

Unreachable(c) ==
    /\ Pending(c, "waiting") /\ Fault
    /\ Thrown(c, "network_error")

\* Too long, broken off, not UTF-8, not JSON.
BadBody(c) ==
    /\ Pending(c, "body") /\ Fault
    /\ Close(c, "invalid_response") \/ Thrown(c, "invalid_response")

NetworkStep(c) ==
    GoodHeaders(c) \/ GoodBody(c) \/ BadStatus(c) \/ Redirect(c) \/ Unreachable(c) \/ BadBody(c)
=============================================================================
