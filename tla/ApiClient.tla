------------------------------ MODULE ApiClient ------------------------------
(***************************************************************************)
(* The single networking layer of the frontend (src/frontend/js/api.js):   *)
(* requests with their deadlines and retries, and the one login gate that  *)
(* every 401, every boot check and every paused download shares.           *)
(*                                                                         *)
(* A caller runs one operation at a time: a "get" (apiGetJson), a "post"   *)
(* (apiFetch), "ensure" (ensureSession) or "subscribe"                     *)
(* (waitForGateOrAbort).                                                   *)
(* The server, the network and the person at the gate answer as they like; *)
(* a reply may be older than the last login, so nothing ties one answer to *)
(* another.  The settlement of a shared promise and the reactions to it    *)
(* run in one turn of the event loop and are one action here.              *)
(***************************************************************************)
EXTENDS Naturals

CONSTANTS
    Caller,      \* callers of the layer
    MaxRetries,  \* MAX_RETRIES
    Budget,      \* MAX_AUTO_RETRY_WAIT_MS, in the unit of After
    After,       \* Retry-After values a server sends, 0 for none
    Shared       \* the waiter that the shared authentication puts in the list

ASSUME CallerAssumption == Shared \notin Caller
ASSUME NumbersAssumption ==
    MaxRetries \in Nat /\ Budget \in Nat /\ After \subseteq Nat /\ 0 \in After

VARIABLES
    authMode,        \* authMode
    probe,           \* sessionStatePromise is set: GET /api/session in flight
    authenticating,  \* the shared promise, and what it is waiting for
    gateWaiters,     \* gateWaiters, without the waiters that are done
    gate,            \* the .auth-gate element, and its submitting flag
    op,              \* what the caller asked for
    pc,              \* where its call stands
    attempt,         \* attemptNumber
    timedOut,        \* timedOut of the attempt
    wire,            \* what its last request came back with
    wait,            \* what the back-off sleeps: 0 is the jittered delay
    signal,          \* the caller has aborted its signal
    result           \* how the call ended

shared == <<authMode, probe, authenticating, gateWaiters, gate>>
calls == <<op, pc, attempt, timedOut, wire, wait, signal, result>>
vars == <<shared, calls>>

\* Replies by what apiFetch does with them; classifyStatus reads Retry-After for
\* a 429 and for nothing else.
Reply == [status : {"ok", "401", "4xx", "5xx"}, after : {0}]
           \cup [status : {"429"}, after : After]
Nothing == [status |-> "none", after |-> 0]
Lost == [status |-> "lost", after |-> 0]
\* What came instead of an answer: its deadline, that of the retry after a login
\* (which has a timer of its own), and headers whose body stalls or is cut off.
Late == [status |-> "late", after |-> 0]
Expired == [status |-> "expired", after |-> 0]
Stalled == [status |-> "stalled", after |-> 0]
Cut == [status |-> "cut", after |-> 0]

OnWire(c) == pc[c] \in {"request", "retry"}

\* The kinds of ApiError.
Classify(reply) ==
    CASE reply.status = "401" -> "unauthorized"
      [] reply.status = "4xx" -> "permanent"
      [] reply.status = "429" -> "rateLimited"
      [] reply.status = "5xx" -> "serverUnavailable"
      [] reply.status = "late" -> "timeout"
      [] reply.status \in {"lost", "expired"} -> "offline"

Init ==
    /\ authMode = "unknown" /\ probe = FALSE
    /\ authenticating = "none" /\ gateWaiters = {} /\ gate = "hidden"
    /\ op = [c \in Caller |-> "none"]
    /\ pc = [c \in Caller |-> "idle"]
    /\ attempt = [c \in Caller |-> 0]
    /\ timedOut = [c \in Caller |-> FALSE]
    /\ wire = [c \in Caller |-> Nothing]
    /\ wait = [c \in Caller |-> 0]
    /\ signal = [c \in Caller |-> FALSE]
    /\ result = [c \in Caller |-> "none"]

Ends(c, r) ==
    /\ pc' = [pc EXCEPT ![c] = "done"]
    /\ result' = [result EXCEPT ![c] = r]

\* ensureAuthenticatedOnce: joins the authentication in flight or starts one,
\* which joins the probe in flight or sends one.
Authenticate ==
    IF authenticating = "none"
      THEN authenticating' = "probing" /\ probe' = TRUE
      ELSE UNCHANGED <<authenticating, probe>>

(***************************************************************************)
(* apiFetch                                                                *)
(***************************************************************************)
FetchRefused(c, o) ==
    /\ pc[c] = "idle" /\ signal[c]
    /\ op' = [op EXCEPT ![c] = o]
    /\ Ends(c, "aborted")
    /\ UNCHANGED <<shared, attempt, timedOut, wire, wait, signal>>

Fetch(c, o) ==
    /\ pc[c] = "idle" /\ ~signal[c]
    /\ op' = [op EXCEPT ![c] = o]
    /\ pc' = [pc EXCEPT ![c] = "request"]
    /\ UNCHANGED <<shared, attempt, timedOut, wire, wait, signal, result>>

MayRetryPost(c, kind, after) ==
    /\ kind \in {"offline", "timeout", "serverUnavailable", "rateLimited"}
    /\ attempt[c] < MaxRetries
    /\ after <= Budget

MayRetry(c, kind, after) ==
    /\ op[c] = "get"
    /\ kind \in {"offline", "timeout", "serverUnavailable", "rateLimited"}
    /\ attempt[c] < MaxRetries
    /\ after <= Budget

\* A request came back with `reply` that ends this attempt.
Fails(c, reply, kind) ==
    /\ wire' = [wire EXCEPT ![c] = reply]
    /\ IF MayRetry(c, kind, reply.after)
         THEN /\ pc' = [pc EXCEPT ![c] = "backoff"]
              /\ wait' = [wait EXCEPT ![c] = reply.after]
              /\ UNCHANGED result
         ELSE Ends(c, kind) /\ UNCHANGED wait
    /\ UNCHANGED <<shared, op, attempt, signal>>

\* Headers of a success.  apiFetch is done, and takes its listener off the
\* caller's signal; apiGetJson goes on to read the body.
Answered(c) ==
    /\ OnWire(c)
    /\ wire' = [wire EXCEPT ![c] = [status |-> "ok", after |-> 0]]
    /\ IF op[c] = "get"
         THEN pc' = [pc EXCEPT ![c] = "body"] /\ UNCHANGED result
         ELSE Ends(c, "ok")
    /\ UNCHANGED <<shared, op, attempt, timedOut, wait, signal>>

\* readJsonBounded: the body is whole, or too large, or not JSON.
BodyEnds(c) ==
    /\ pc[c] = "body"
    /\ \E r \in {"ok", "tooLarge", "malformed"} : Ends(c, r)
    /\ UNCHANGED <<shared, op, attempt, timedOut, wire, wait, signal>>

\* Its idle deadline; an error of the stream, which is reported as the same.
BodyStalls(c) ==
    /\ pc[c] = "body"
    /\ wire' = [wire EXCEPT ![c] = Stalled]
    /\ Ends(c, "timeout")
    /\ UNCHANGED <<shared, op, attempt, timedOut, wait, signal>>

BodyLost(c) ==
    /\ pc[c] = "body"
    /\ wire' = [wire EXCEPT ![c] = Cut]
    /\ Ends(c, "timeout")
    /\ UNCHANGED <<shared, op, attempt, timedOut, wait, signal>>

\* The first 401 of an attempt; its deadline goes on running.
Challenged(c) ==
    /\ pc[c] = "request" /\ authMode # "disabled"
    /\ wire' = [wire EXCEPT ![c] = [status |-> "401", after |-> 0]]
    /\ pc' = [pc EXCEPT ![c] = "auth"]
    /\ Authenticate
    /\ UNCHANGED <<authMode, gateWaiters, gate>>
    /\ UNCHANGED <<op, attempt, timedOut, wait, signal, result>>

Refused(c) ==
    /\ OnWire(c)
    /\ \E reply \in Reply :
         /\ reply.status # "ok"
         /\ reply.status = "401" => pc[c] = "retry" \/ authMode = "disabled"
         /\ Fails(c, reply, Classify(reply))
    /\ UNCHANGED timedOut

NetworkFails(c) ==
    /\ OnWire(c)
    /\ Fails(c, Lost, IF timedOut[c] THEN "timeout" ELSE Classify(Lost))
    /\ UNCHANGED timedOut

\* The deadline of the attempt; the retry after a login has a timer of its
\* own, which aborts the request and does not set timedOut.
Deadline(c) ==
    \/ /\ pc[c] = "request"
       /\ timedOut' = [timedOut EXCEPT ![c] = TRUE]
       /\ Fails(c, Late, Classify(Late))
    \/ /\ pc[c] = "retry"
       /\ Fails(c, Expired, IF timedOut[c] THEN "timeout" ELSE Classify(Expired))
       /\ UNCHANGED timedOut

\* The attempt's deadline while the gate is open: the request has its answer.
DeadlineAtGate(c) ==
    /\ pc[c] = "auth" /\ ~timedOut[c]
    /\ timedOut' = [timedOut EXCEPT ![c] = TRUE]
    /\ UNCHANGED <<shared, op, pc, attempt, wire, wait, signal, result>>

WakeUncounted(c) ==
    /\ pc[c] = "backoff"
    /\ pc' = [pc EXCEPT ![c] = "request"]
    /\ timedOut' = [timedOut EXCEPT ![c] = FALSE]
    /\ wait' = [wait EXCEPT ![c] = 0]
    /\ UNCHANGED <<shared, op, attempt, wire, signal, result>>

Wake(c) ==
    /\ pc[c] = "backoff"
    /\ pc' = [pc EXCEPT ![c] = "request"]
    /\ attempt' = [attempt EXCEPT ![c] = @ + 1]
    /\ timedOut' = [timedOut EXCEPT ![c] = FALSE]
    /\ wait' = [wait EXCEPT ![c] = 0]
    /\ UNCHANGED <<shared, op, wire, signal, result>>

(***************************************************************************)
(* The session and the gate                                                *)
(***************************************************************************)
EnsureSession(c) ==
    /\ pc[c] = "idle" /\ ~signal[c]
    /\ op' = [op EXCEPT ![c] = "ensure"]
    /\ pc' = [pc EXCEPT ![c] = "probing"]
    /\ probe' = TRUE
    /\ UNCHANGED <<authMode, authenticating, gateWaiters, gate>>
    /\ UNCHANGED <<attempt, timedOut, wire, wait, signal, result>>

Subscribe(c) ==
    /\ pc[c] = "idle"
    /\ op' = [op EXCEPT ![c] = "subscribe"]
    /\ IF signal[c]
         THEN Ends(c, "aborted") /\ UNCHANGED <<authenticating, probe, gateWaiters>>
         ELSE /\ pc' = [pc EXCEPT ![c] = "subscribed"]
              /\ gateWaiters' = gateWaiters \cup {c}
              /\ Authenticate
              /\ UNCHANGED result
    /\ UNCHANGED <<authMode, gate, attempt, timedOut, wire, wait, signal>>

\* The calls in S continue: a fetch sends its request again on a controller
\* and a timer of its own, unless its caller has left meanwhile.
Resumes(S) ==
    /\ pc' = [c \in Caller |->
                IF c \notin S THEN pc[c]
                ELSE IF pc[c] = "auth" /\ ~signal[c] THEN "retry" ELSE "done"]
    /\ result' = [c \in Caller |->
                IF c \notin S \/ (pc[c] = "auth" /\ ~signal[c]) THEN result[c]
                ELSE IF pc[c] = "auth" THEN "aborted" ELSE "ok"]
    /\ UNCHANGED <<op, attempt, wire, wait, signal>>

ContinueTimedOut(S) == Resumes(S) /\ UNCHANGED timedOut

Continue(S) ==
    /\ Resumes(S)
    /\ timedOut' = [c \in Caller |-> timedOut[c] /\ (c \notin S \/ pc[c] # "auth")]

Joined == {c \in Caller : pc[c] \in {"auth", "subscribed"}}
Probing == {c \in Caller : pc[c] = "probing"}

\* fetchSessionState ends, at the latest after its five seconds.
ProbeLearns(mode) ==
    /\ probe /\ probe' = FALSE
    /\ authMode' = mode

ProbePasses(mode, authenticated) ==
    /\ ProbeLearns(mode)
    /\ mode = "disabled" \/ authenticated
    /\ Continue(Probing \cup (IF authenticating = "probing" THEN Joined ELSE {}))
    /\ authenticating' = IF authenticating = "probing" THEN "none" ELSE authenticating
    /\ gateWaiters' = IF authenticating = "probing"
                        THEN gateWaiters \ Joined ELSE gateWaiters
    /\ UNCHANGED gate

\* waitForAuth, for the shared authentication and for each boot check.
WaitForAuth ==
    /\ gateWaiters' = gateWaiters \cup Probing
                        \cup (IF authenticating = "probing" THEN {Shared} ELSE {})
    /\ pc' = [c \in Caller |-> IF c \in Probing THEN "waiting" ELSE pc[c]]
    /\ authenticating' = IF authenticating = "probing" THEN "gate" ELSE authenticating

ProbeRefused(mode) ==
    /\ ProbeLearns(mode) /\ mode # "disabled"
    /\ WaitForAuth
    /\ gate' = IF gate = "hidden" THEN "shown" ELSE gate
    /\ UNCHANGED <<op, attempt, timedOut, wire, wait, signal, result>>

ProbeAnswers ==
    \/ \E mode \in {"session", "disabled"}, authenticated \in BOOLEAN :
         ProbePasses(mode, authenticated)
    \/ ProbeRefused("session")

\* The probe fails or comes too late: nothing is learnt about the mode.
ProbeFails == ProbePasses(authMode, FALSE) \/ ProbeRefused(authMode)

Submit ==
    /\ gate = "shown"
    /\ gate' = "submitting"
    /\ UNCHANGED <<authMode, probe, authenticating, gateWaiters, calls>>

LoginFails ==
    /\ gate = "submitting"
    /\ gate' = "shown"
    /\ UNCHANGED <<authMode, probe, authenticating, gateWaiters, calls>>

\* loginWithKey, hideGate and resolveGateWaiters(true).
LoginForgetsJoined ==
    /\ gate = "submitting" /\ gate' = "hidden"
    /\ authMode' = "session"
    /\ Continue(gateWaiters \ {Shared})
    /\ gateWaiters' = {}
    /\ authenticating' = IF authenticating = "gate" THEN "none" ELSE authenticating
    /\ UNCHANGED probe

LoginSucceeds ==
    /\ gate = "submitting" /\ gate' = "hidden"
    /\ authMode' = "session"
    /\ Continue((gateWaiters \ {Shared}) \cup (IF Shared \in gateWaiters THEN Joined ELSE {}))
    /\ gateWaiters' = {}
    /\ authenticating' = IF authenticating = "gate" THEN "none" ELSE authenticating
    /\ UNCHANGED probe

(***************************************************************************)
(* The callers' signals                                                    *)
(***************************************************************************)
Abort(c) ==
    /\ ~signal[c] /\ op[c] # "ensure" /\ pc[c] # "done"
    /\ signal' = [signal EXCEPT ![c] = TRUE]
    /\ IF pc[c] \in {"request", "retry", "backoff", "subscribed"}
         THEN Ends(c, "aborted") ELSE UNCHANGED <<pc, result>>
    /\ gateWaiters' = gateWaiters \ {c}
    /\ UNCHANGED <<authMode, probe, authenticating, gate>>
    /\ UNCHANGED <<op, attempt, timedOut, wire, wait>>

\* The caller takes the result, and later calls again with a new signal.
Return(c) ==
    /\ pc[c] = "done"
    /\ op' = [op EXCEPT ![c] = "none"]
    /\ pc' = [pc EXCEPT ![c] = "idle"]
    /\ attempt' = [attempt EXCEPT ![c] = 0]
    /\ timedOut' = [timedOut EXCEPT ![c] = FALSE]
    /\ wire' = [wire EXCEPT ![c] = Nothing]
    /\ wait' = [wait EXCEPT ![c] = 0]
    /\ signal' = [signal EXCEPT ![c] = FALSE]
    /\ result' = [result EXCEPT ![c] = "none"]
    /\ UNCHANGED shared

Calls(c) ==
    \/ \E o \in {"get", "post"} : Fetch(c, o) \/ FetchRefused(c, o)
    \/ EnsureSession(c)
    \/ Subscribe(c)

CallSteps(c) ==
    \/ Answered(c) \/ Challenged(c) \/ Refused(c) \/ NetworkFails(c)
    \/ BodyEnds(c) \/ BodyStalls(c) \/ BodyLost(c)
    \/ Deadline(c) \/ DeadlineAtGate(c) \/ Wake(c)
    \/ Abort(c) \/ Return(c)

Next ==
    \/ \E c \in Caller : Calls(c) \/ CallSteps(c)
    \/ ProbeAnswers \/ ProbeFails
    \/ Submit \/ LoginFails \/ LoginSucceeds

\* Timers fire: those of a request, of a back-off and of a body that stalls, and
\* the five seconds of a probe.  Nobody has to come to the gate.
Fairness ==
    /\ \A c \in Caller : WF_vars(Deadline(c)) /\ WF_vars(Wake(c))
                        /\ WF_vars(BodyEnds(c) \/ BodyStalls(c))
    /\ WF_vars(ProbeAnswers \/ ProbeFails)

Spec == Init /\ [][Next]_vars /\ Fairness

-----------------------------------------------------------------------------
TypeOK ==
    /\ authMode \in {"unknown", "session", "disabled"}
    /\ probe \in BOOLEAN
    /\ authenticating \in {"none", "probing", "gate"}
    /\ gateWaiters \subseteq Caller \cup {Shared}
    /\ gate \in {"hidden", "shown", "submitting"}
    /\ op \in [Caller -> {"none", "get", "post", "ensure", "subscribe"}]
    /\ pc \in [Caller -> {"idle", "request", "auth", "retry", "backoff", "probing",
                          "waiting", "subscribed", "body", "done"}]
    /\ attempt \in [Caller -> 0 .. MaxRetries]
    /\ timedOut \in [Caller -> BOOLEAN]
    /\ wire \in [Caller -> Reply \cup {Nothing, Lost, Late, Expired, Stalled, Cut}]
    /\ wait \in [Caller -> After]
    /\ signal \in [Caller -> BOOLEAN]
    /\ result \in [Caller -> {"none", "ok", "unauthorized", "permanent", "rateLimited",
                              "serverUnavailable", "offline", "timeout", "aborted",
                              "tooLarge", "malformed"}]

Awaited ==
    /\ Joined # {} => authenticating # "none"
    /\ authenticating = "probing" \/ Probing # {} => probe
    /\ authenticating = "gate" <=> Shared \in gateWaiters
    /\ gateWaiters \ {Shared} = {c \in Caller : pc[c] \in {"waiting", "subscribed"}}
    /\ Shared \in gateWaiters \/ (\E c \in Caller : pc[c] = "waiting") => gate # "hidden"

\* Whoever waits is known to what will wake it: a call at a 401 and a
\* subscriber to an authentication in flight, the authentication to a probe or
\* to the gate's list, and a list that only the gate can resolve to a gate on
\* the screen (api.js:593-650).
NobodyForgotten == TypeOK /\ Awaited

\* A failure is reported as what it was, and not as what an earlier part of the
\* call ran into: a cancellation only to a caller that cancelled; a timeout when
\* the last request ran into its deadline or its body did not come whole, and
\* never because the attempt's deadline passed while the gate was open; being
\* offline when no answer came (api.js:548-580).  Two of these are coarser than
\* the code's list of kinds (api.js:22-23): a body that the network cuts off is
\* a timeout (:154-156), and a retry after a login that runs into its deadline
\* is offline, because its timer does not set timedOut (:507).
Classified ==
    \A c \in Caller :
        /\ result[c] = "aborted" => signal[c]
        /\ result[c] = "timeout" => wire[c] \in {Late, Stalled, Cut}
        /\ result[c] = "offline" => wire[c] \in {Lost, Expired}
        /\ result[c] = "unauthorized" => wire[c].status = "401"

\* A POST is never sent again after anything but a 401, so nothing that may
\* have taken effect is done twice (api.js:10, 233).
PostsNotRepeated ==
    [][\A c \in Caller :
          op[c] = "post" /\ pc'[c] # pc[c] /\ pc'[c] \in {"request", "retry"}
            => wire[c].status = "401"]_vars

\* Every request comes to an end or to the gate, through at most MaxRetries
\* back-offs; and whoever waits for the session goes on, or sees the gate.
CallsEnd ==
    \A c \in Caller :
        /\ pc[c] \in {"request", "retry", "backoff", "body"} ~> pc[c] \in {"done", "auth"}
        /\ pc[c] \in {"auth", "probing", "waiting", "subscribed"}
             ~> pc[c] \in {"retry", "done"} \/ gate # "hidden"

\* What the locals of a call say at each of its steps: nothing is slept for that
\* may not be sent again, a deadline that has passed is forgotten with its
\* attempt, and a call has a result when it is done and not before.
Locals ==
    \A c \in Caller :
        /\ pc[c] = "idle" => op[c] = "none"
        /\ pc[c] = "backoff" => op[c] = "get" /\ attempt[c] < MaxRetries
        /\ pc[c] \in {"idle", "request", "retry"} => ~timedOut[c]
        /\ pc[c] = "auth" => wire[c].status = "401"
        /\ pc[c] \in {"probing", "waiting"} => op[c] = "ensure"
        /\ result[c] = "none" <=> pc[c] # "done"

\* Inductive, and implies NobodyForgotten and Classified.
IInv == NobodyForgotten /\ Locals /\ Classified
=============================================================================
