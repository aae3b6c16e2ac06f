-------------------------- MODULE ApiClient_proofs --------------------------
(***************************************************************************)
(* Safety of the networking layer for any callers, retries and budgets:    *)
(* IInv is inductive, and the properties follow from it.                   *)
(***************************************************************************)
EXTENDS ApiClient, TLAPS

\* Positions at which a call waits for a shared promise or in the gate's list.
Stops == {"auth", "probing", "waiting", "subscribed"}

\* A step of calls that neither enter nor leave such a position, and that leave
\* the gate alone, forgets nobody (api.js:582-650).
LEMMA AwayFromGate ==
    ASSUME Awaited, UNCHANGED shared,
           \A c \in Caller : pc'[c] = pc[c] \/ {pc[c], pc'[c]} \cap Stops = {}
    PROVE  Awaited'
<1>1. \A c \in Caller : \A s \in Stops : pc'[c] = s <=> pc[c] = s
  BY DEF Stops
<1>2. Joined' = Joined /\ Probing' = Probing
  BY <1>1 DEF Joined, Probing, Stops
<1>3. {c \in Caller : pc'[c] \in {"waiting", "subscribed"}}
        = {c \in Caller : pc[c] \in {"waiting", "subscribed"}}
  BY <1>1 DEF Stops
<1>4. (\E c \in Caller : pc'[c] = "waiting") <=> (\E c \in Caller : pc[c] = "waiting")
  BY <1>1 DEF Stops
<1> QED
  BY <1>2, <1>3, <1>4 DEF Awaited, shared

LEMMA InitSafe == Init => IInv
<1> SUFFICES ASSUME Init PROVE IInv
  OBVIOUS
<1> USE CallerAssumption, NumbersAssumption DEF Init
<1>1. TypeOK
  <2>1. wire \in [Caller -> Reply \cup {Nothing, Lost, Late, Expired, Stalled, Cut}]
    OBVIOUS
  <2>2. attempt \in [Caller -> 0 .. MaxRetries] /\ wait \in [Caller -> After]
    OBVIOUS
  <2>3. /\ op \in [Caller -> {"none", "get", "post", "ensure", "subscribe"}]
        /\ timedOut \in [Caller -> BOOLEAN] /\ signal \in [Caller -> BOOLEAN]
    OBVIOUS
  <2> QED
    BY <2>1, <2>2, <2>3 DEF TypeOK
<1>2. Awaited
  BY DEF Awaited, Joined, Probing
<1>3. Locals
  BY DEF Locals
<1>4. Classified
  BY DEF Classified
<1> QED
  BY <1>1, <1>2, <1>3, <1>4 DEF IInv, NobodyForgotten

-----------------------------------------------------------------------------
\* The start of a fetch (api.js:454-489).
LEMMA FetchStep ==
    ASSUME IInv, NEW c \in Caller, NEW o \in {"get", "post"}, Fetch(c, o) \/ FetchRefused(c, o)
    PROVE  IInv'
<1> USE NumbersAssumption DEF IInv, NobodyForgotten, Ends, shared
<1>1. CASE Fetch(c, o)
  <2> USE <1>1 DEF Fetch
  <2>1. TypeOK'
    BY DEF TypeOK
  <2>2. Awaited'
    BY AwayFromGate DEF TypeOK, Stops
  <2>3. Locals'
    BY DEF Locals, TypeOK
  <2>4. Classified'
    BY DEF Classified, TypeOK
  <2> QED
    BY <2>1, <2>2, <2>3, <2>4
<1>2. CASE FetchRefused(c, o)
  <2> USE <1>2 DEF FetchRefused
  <2>1. TypeOK'
    BY DEF TypeOK
  <2>2. Awaited'
    BY AwayFromGate DEF TypeOK, Stops
  <2>3. Locals'
    BY DEF Locals, TypeOK
  <2>4. Classified'
    BY DEF Classified, TypeOK
  <2> QED
    BY <2>1, <2>2, <2>3, <2>4
<1> QED
  BY <1>1, <1>2

\* A request that came back with a failure: the call sleeps or is done, in
\* either case away from the gate (api.js:521-572).
LEMMA FailureStep ==
    ASSUME IInv, NEW c \in Caller, OnWire(c),
           NEW reply \in Reply \cup {Lost, Late, Expired}, reply.status # "ok",
           NEW kind, Fails(c, reply, kind), kind = Classify(reply),
           timedOut' \in [Caller -> BOOLEAN],
           \A d \in Caller \ {c} : timedOut'[d] = timedOut[d]
    PROVE  IInv'
<1> USE NumbersAssumption DEF IInv, NobodyForgotten, shared
<1>1. /\ reply.status \in {"401", "4xx", "429", "5xx", "lost", "late", "expired"}
      /\ reply.after \in After
      /\ reply.status = "late" => reply = Late
      /\ reply.status \in {"lost", "expired"} => reply \in {Lost, Expired}
  BY DEF Reply, Lost, Late, Expired
<1>2. reply.after \in After
  BY <1>1
<1>3. /\ kind \in {"unauthorized", "permanent", "rateLimited", "serverUnavailable",
                    "offline", "timeout"}
      /\ kind = "timeout" => reply = Late
      /\ kind = "offline" => reply \in {Lost, Expired}
      /\ kind = "unauthorized" => reply.status = "401"
  BY <1>1 DEF Classify
<1>4. /\ UNCHANGED <<op, attempt, signal>>
      /\ UNCHANGED shared
      /\ wire' = [wire EXCEPT ![c] = reply]
  BY DEF Fails
<1>5. CASE MayRetry(c, kind, reply.after)
  <2>1. /\ pc' = [pc EXCEPT ![c] = "backoff"]
        /\ wait' = [wait EXCEPT ![c] = reply.after]
        /\ UNCHANGED result
    BY <1>5 DEF Fails
  <2>2. op[c] = "get" /\ attempt[c] < MaxRetries
    BY <1>5 DEF MayRetry
  <2>3. TypeOK'
    BY <1>2, <1>4, <2>1 DEF TypeOK
  <2>4. Awaited'
    BY <1>4, <2>1, AwayFromGate DEF TypeOK, Stops, OnWire
  <2>5. Locals'
    BY <1>4, <2>1, <2>2 DEF Locals, TypeOK, OnWire
  <2>6. Classified'
    BY <1>4, <2>1 DEF Classified, Locals, TypeOK, OnWire
  <2> QED
    BY <2>3, <2>4, <2>5, <2>6
<1>6. CASE ~MayRetry(c, kind, reply.after)
  <2>1. /\ pc' = [pc EXCEPT ![c] = "done"]
        /\ result' = [result EXCEPT ![c] = kind]
        /\ UNCHANGED wait
    BY <1>6 DEF Fails, Ends
  <2>2. TypeOK'
    BY <1>3, <1>4, <2>1 DEF TypeOK
  <2>3. Awaited'
    BY <1>4, <2>1, AwayFromGate DEF TypeOK, Stops, OnWire
  <2>4. Locals'
    BY <1>3, <1>4, <2>1 DEF Locals, TypeOK
  <2>5. Classified'
    BY <1>3, <1>4, <2>1 DEF Classified, TypeOK
  <2> QED
    BY <2>2, <2>3, <2>4, <2>5
<1> QED
  BY <1>5, <1>6

\* The ways in which a request comes back: a status, a loss, a deadline
\* (api.js:489-557).
LEMMA RefusedStep ==
    ASSUME IInv, NEW c \in Caller, Refused(c) PROVE IInv'
<1>1. PICK reply \in Reply : reply.status # "ok" /\ Fails(c, reply, Classify(reply))
  BY DEF Refused
<1>2. OnWire(c) /\ timedOut' = timedOut /\ timedOut' \in [Caller -> BOOLEAN]
  BY DEF Refused, IInv, NobodyForgotten, TypeOK
<1> QED
  BY <1>1, <1>2, FailureStep

LEMMA NetworkStep ==
    ASSUME IInv, NEW c \in Caller, NetworkFails(c) PROVE IInv'
<1>1. ~timedOut[c]
  BY DEF NetworkFails, OnWire, IInv, Locals
<1>2. Fails(c, Lost, Classify(Lost))
  BY <1>1 DEF NetworkFails
<1>3. OnWire(c) /\ timedOut' = timedOut /\ timedOut' \in [Caller -> BOOLEAN]
  BY DEF NetworkFails, IInv, NobodyForgotten, TypeOK
<1>4. Lost.status # "ok"
  BY DEF Lost
<1> QED
  BY <1>2, <1>3, <1>4, FailureStep

LEMMA DeadlineStep ==
    ASSUME IInv, NEW c \in Caller, Deadline(c) PROVE IInv'
<1>1. OnWire(c) /\ ~timedOut[c]
  BY DEF Deadline, OnWire, IInv, Locals
<1>2. Fails(c, Late, Classify(Late)) \/ Fails(c, Expired, Classify(Expired))
  BY <1>1 DEF Deadline
<1>3. /\ timedOut' \in [Caller -> BOOLEAN]
      /\ \A d \in Caller \ {c} : timedOut'[d] = timedOut[d]
  BY DEF Deadline, IInv, NobodyForgotten, TypeOK
<1>4. Late.status # "ok" /\ Expired.status # "ok"
  BY DEF Late, Expired
<1> QED
  BY <1>1, <1>2, <1>3, <1>4, FailureStep

\* The headers of a success (api.js:517).
LEMMA AnsweredStep ==
    ASSUME IInv, NEW c \in Caller, Answered(c)
    PROVE  IInv'
<1> USE NumbersAssumption DEF IInv, NobodyForgotten, shared, Answered, OnWire, Ends
<1>1. TypeOK'
  <2>1. [status |-> "ok", after |-> 0] \in Reply
    BY DEF Reply
  <2> QED
    BY <2>1 DEF TypeOK
<1>2. Awaited'
  BY AwayFromGate DEF TypeOK, Stops
<1>3. Locals'
  BY DEF Locals, TypeOK
<1>4. Classified'
  BY DEF Classified, Locals, TypeOK
<1> QED
  BY <1>1, <1>2, <1>3, <1>4

\* The body, whole or not (api.js:106-168).
LEMMA BodyStep ==
    ASSUME IInv, NEW c \in Caller, BodyEnds(c) \/ BodyStalls(c) \/ BodyLost(c)
    PROVE  IInv'
<1> USE NumbersAssumption DEF IInv, NobodyForgotten, shared, BodyEnds, BodyStalls, BodyLost, Ends
<1>1. TypeOK'
  BY DEF TypeOK
<1>2. Awaited'
  BY AwayFromGate DEF TypeOK, Stops
<1>3. Locals'
  BY DEF Locals, TypeOK
<1>4. Classified'
  BY DEF Classified, TypeOK
<1> QED
  BY <1>1, <1>2, <1>3, <1>4

\* The end of a back-off (api.js:469, 426-446).
LEMMA WakeStep ==
    ASSUME IInv, NEW c \in Caller, Wake(c)
    PROVE  IInv'
<1> USE NumbersAssumption DEF IInv, NobodyForgotten, shared, Wake
<1>1. TypeOK'
  BY DEF TypeOK, Locals
<1>2. Awaited'
  BY AwayFromGate DEF TypeOK, Stops
<1>3. Locals'
  BY DEF Locals, TypeOK
<1>4. Classified'
  BY DEF Classified, TypeOK
<1> QED
  BY <1>1, <1>2, <1>3, <1>4

\* The attempt's deadline while the gate is open (api.js:483).
LEMMA GateDeadlineStep ==
    ASSUME IInv, NEW c \in Caller, DeadlineAtGate(c)
    PROVE  IInv'
<1> USE NumbersAssumption DEF IInv, NobodyForgotten, shared, DeadlineAtGate
<1>1. TypeOK'
  BY DEF TypeOK
<1>2. Awaited'
  BY AwayFromGate DEF TypeOK, Stops
<1>3. Locals'
  BY DEF Locals, TypeOK
<1>4. Classified'
  BY DEF Classified, TypeOK
<1> QED
  BY <1>1, <1>2, <1>3, <1>4

\* The caller takes its result.
LEMMA ReturnStep ==
    ASSUME IInv, NEW c \in Caller, Return(c)
    PROVE  IInv'
<1> USE NumbersAssumption DEF IInv, NobodyForgotten, shared, Return
<1>1. TypeOK'
  BY DEF TypeOK
<1>2. Awaited'
  BY AwayFromGate DEF TypeOK, Stops
<1>3. Locals'
  BY DEF Locals, TypeOK
<1>4. Classified'
  BY DEF Classified, TypeOK
<1> QED
  BY <1>1, <1>2, <1>3, <1>4

-----------------------------------------------------------------------------
\* A 401 joins the shared authentication or starts it (api.js:491, 584).
LEMMA ChallengedStep ==
    ASSUME IInv, NEW c \in Caller, Challenged(c)
    PROVE  IInv'
<1> USE NumbersAssumption, CallerAssumption DEF IInv, NobodyForgotten, Challenged
<1>1. TypeOK'
  <2>1. [status |-> "401", after |-> 0] \in Reply
    BY DEF Reply
  <2> QED
    BY <2>1 DEF TypeOK, Authenticate
<1>2. Awaited'
  <2>1. authenticating' # "none" /\ (authenticating' = "gate" <=> authenticating = "gate")
    BY DEF Authenticate, TypeOK
  <2>2. Probing' = Probing
    BY DEF Probing, TypeOK
  <2>3. authenticating' = "probing" \/ Probing' # {} => probe'
    BY <2>2 DEF Authenticate, Awaited
  <2>4. {d \in Caller : pc'[d] \in {"waiting", "subscribed"}}
          = {d \in Caller : pc[d] \in {"waiting", "subscribed"}}
    BY DEF TypeOK
  <2>5. (\E d \in Caller : pc'[d] = "waiting") <=> (\E d \in Caller : pc[d] = "waiting")
    BY DEF TypeOK
  <2> QED
    BY <2>1, <2>3, <2>4, <2>5 DEF Awaited
<1>3. Locals'
  BY DEF Locals, TypeOK
<1>4. Classified'
  BY DEF Classified, Locals, TypeOK
<1> QED
  BY <1>1, <1>2, <1>3, <1>4

\* A subscription to the gate (api.js:616).
LEMMA SubscribeStep ==
    ASSUME IInv, NEW c \in Caller, Subscribe(c)
    PROVE  IInv'
<1> USE NumbersAssumption, CallerAssumption DEF IInv, NobodyForgotten
<1>1. CASE signal[c]
  <2>1. /\ pc[c] = "idle" /\ op' = [op EXCEPT ![c] = "subscribe"]
        /\ pc' = [pc EXCEPT ![c] = "done"]
        /\ result' = [result EXCEPT ![c] = "aborted"]
        /\ UNCHANGED <<shared, attempt, timedOut, wire, wait, signal>>
    BY <1>1 DEF Subscribe, Ends, shared
  <2>2. TypeOK'
    BY <2>1 DEF TypeOK, shared
  <2>3. Awaited'
    BY <2>1, AwayFromGate DEF TypeOK, Stops, shared
  <2>4. Locals'
    BY <2>1 DEF Locals, TypeOK
  <2>5. Classified'
    BY <1>1, <2>1 DEF Classified, TypeOK
  <2> QED
    BY <2>2, <2>3, <2>4, <2>5
<1>2. CASE ~signal[c]
  <2>1. /\ pc[c] = "idle" /\ op' = [op EXCEPT ![c] = "subscribe"]
        /\ pc' = [pc EXCEPT ![c] = "subscribed"]
        /\ gateWaiters' = gateWaiters \cup {c}
        /\ Authenticate
        /\ UNCHANGED <<authMode, gate, attempt, timedOut, wire, wait, signal, result>>
    BY <1>2 DEF Subscribe
  <2>2. TypeOK'
    BY <2>1 DEF TypeOK, Authenticate
  <2>3. Awaited'
    <3>1. authenticating' # "none" /\ (authenticating' = "gate" <=> authenticating = "gate")
      BY <2>1 DEF Authenticate, TypeOK
    <3>2. Probing' = Probing
      BY <2>1 DEF Probing, TypeOK
    <3>3. authenticating' = "probing" \/ Probing' # {} => probe'
      BY <2>1, <3>2 DEF Authenticate, Awaited
    <3>4. {d \in Caller : pc'[d] \in {"waiting", "subscribed"}}
            = {d \in Caller : pc[d] \in {"waiting", "subscribed"}} \cup {c}
      BY <2>1 DEF TypeOK
    <3>5. gateWaiters' \ {Shared} = (gateWaiters \ {Shared}) \cup {c}
      BY <2>1
    <3>6. (\E d \in Caller : pc'[d] = "waiting") <=> (\E d \in Caller : pc[d] = "waiting")
      BY <2>1 DEF TypeOK
    <3> QED
      BY <2>1, <3>1, <3>3, <3>4, <3>5, <3>6 DEF Awaited
  <2>4. Locals'
    BY <2>1 DEF Locals, TypeOK
  <2>5. Classified'
    BY <2>1 DEF Classified, TypeOK
  <2> QED
    BY <2>2, <2>3, <2>4, <2>5
<1> QED
  BY <1>1, <1>2

\* The boot check (api.js:398).
LEMMA EnsureStep ==
    ASSUME IInv, NEW c \in Caller, EnsureSession(c)
    PROVE  IInv'
<1> USE NumbersAssumption, CallerAssumption DEF IInv, NobodyForgotten, EnsureSession
<1>1. TypeOK'
  BY DEF TypeOK
<1>2. Awaited'
  <2>1. Joined' = Joined
    BY DEF Joined, TypeOK
  <2>2. {d \in Caller : pc'[d] \in {"waiting", "subscribed"}}
          = {d \in Caller : pc[d] \in {"waiting", "subscribed"}}
    BY DEF TypeOK
  <2>3. (\E d \in Caller : pc'[d] = "waiting") <=> (\E d \in Caller : pc[d] = "waiting")
    BY DEF TypeOK
  <2> QED
    BY <2>1, <2>2, <2>3 DEF Awaited
<1>3. Locals'
  BY DEF Locals, TypeOK
<1>4. Classified'
  BY DEF Classified, TypeOK
<1> QED
  BY <1>1, <1>2, <1>3, <1>4

\* A cancellation, which only takes its own caller out of the list
\* (api.js:472, 503, 623).
LEMMA AbortStep ==
    ASSUME IInv, NEW c \in Caller, Abort(c)
    PROVE  IInv'
<1> USE NumbersAssumption, CallerAssumption DEF IInv, NobodyForgotten, Abort, Ends
<1>1. TypeOK'
  BY DEF TypeOK
<1>2. Awaited'
  <2>1. Joined' \subseteq Joined /\ Probing' = Probing
    BY DEF Joined, Probing, TypeOK
  <2>2. pc[c] # "waiting"
    BY DEF Locals, TypeOK
  <2>3. {d \in Caller : pc'[d] \in {"waiting", "subscribed"}}
          = {d \in Caller : pc[d] \in {"waiting", "subscribed"}} \ {c}
    BY <2>2 DEF TypeOK
  <2>4. (\E d \in Caller : pc'[d] = "waiting") <=> (\E d \in Caller : pc[d] = "waiting")
    BY <2>2 DEF TypeOK
  <2>5. /\ gateWaiters' \ {Shared} = (gateWaiters \ {Shared}) \ {c}
        /\ Shared \in gateWaiters' <=> Shared \in gateWaiters
    BY DEF TypeOK
  <2> QED
    BY <2>1, <2>3, <2>4, <2>5 DEF Awaited
<1>3. Locals'
  BY DEF Locals, TypeOK
<1>4. Classified'
  BY DEF Classified, TypeOK
<1> QED
  BY <1>1, <1>2, <1>3, <1>4

-----------------------------------------------------------------------------
\* Calls of S that continue leave every place where a call waits, and their
\* locals stay in order (api.js:497-515).
LEMMA ContinueCalls ==
    ASSUME IInv, NEW S \in SUBSET {c \in Caller : pc[c] \in Stops}, Continue(S)
    PROVE  /\ op' \in [Caller -> {"none", "get", "post", "ensure", "subscribe"}]
           /\ pc' \in [Caller -> {"idle", "request", "auth", "retry", "backoff", "probing",
                                  "waiting", "subscribed", "body", "done"}]
           /\ timedOut' \in [Caller -> BOOLEAN]
           /\ result' \in [Caller -> {"none", "ok", "unauthorized", "permanent",
                                      "rateLimited", "serverUnavailable", "offline",
                                      "timeout", "aborted", "tooLarge", "malformed"}]
           /\ UNCHANGED <<op, attempt, wire, wait, signal>>
           /\ \A c \in Caller \ S : pc'[c] = pc[c]
           /\ \A c \in S : pc'[c] \in {"retry", "done"}
           /\ Locals'
           /\ Classified'
<1> USE DEF IInv, NobodyForgotten, Continue, Resumes
<1>1. UNCHANGED <<op, attempt, wire, wait, signal>>
  OBVIOUS
<1>2. ASSUME NEW c \in Caller, c \notin S
      PROVE  pc'[c] = pc[c] /\ result'[c] = result[c] /\ timedOut'[c] = timedOut[c]
  BY <1>2 DEF TypeOK
<1>3. ASSUME NEW c \in Caller, c \in S, pc[c] = "auth", ~signal[c]
      PROVE  pc'[c] = "retry" /\ result'[c] = result[c] /\ timedOut'[c] = FALSE
  BY <1>3 DEF TypeOK
<1>4. ASSUME NEW c \in Caller, c \in S, pc[c] = "auth", signal[c]
      PROVE  pc'[c] = "done" /\ result'[c] = "aborted" /\ timedOut'[c] = FALSE
  BY <1>4 DEF TypeOK
<1>5. ASSUME NEW c \in Caller, c \in S, pc[c] # "auth"
      PROVE  pc'[c] = "done" /\ result'[c] = "ok" /\ timedOut'[c] = timedOut[c]
  BY <1>5 DEF TypeOK
<1>6. op' \in [Caller -> {"none", "get", "post", "ensure", "subscribe"}]
  BY DEF TypeOK
<1>7. pc' \in [Caller -> {"idle", "request", "auth", "retry", "backoff", "probing",
                          "waiting", "subscribed", "body", "done"}]
  BY DEF TypeOK
<1>8. timedOut' \in [Caller -> BOOLEAN]
  BY DEF TypeOK
<1>9. result' \in [Caller -> {"none", "ok", "unauthorized", "permanent",
                              "rateLimited", "serverUnavailable", "offline",
                              "timeout", "aborted", "tooLarge", "malformed"}]
  BY DEF TypeOK
<1>10. \A c \in S : pc'[c] \in {"retry", "done"}
  BY <1>3, <1>4, <1>5
<1>11. Locals'
  <2> SUFFICES ASSUME NEW c \in Caller
               PROVE  /\ pc'[c] = "idle" => op[c] = "none"
                      /\ pc'[c] = "backoff" => op[c] = "get" /\ attempt[c] < MaxRetries
                      /\ pc'[c] \in {"idle", "request", "retry"} => ~timedOut'[c]
                      /\ pc'[c] = "auth" => wire[c].status = "401"
                      /\ pc'[c] \in {"probing", "waiting"} => op[c] = "ensure"
                      /\ result'[c] = "none" <=> pc'[c] # "done"
    BY <1>1 DEF Locals
  <2>1. CASE c \notin S
    BY <1>2, <2>1 DEF Locals
  <2>2. CASE c \in S
    BY <1>3, <1>4, <1>5, <2>2 DEF Locals, TypeOK
  <2> QED
    BY <2>1, <2>2
<1>12. Classified'
  <2> SUFFICES ASSUME NEW c \in Caller
               PROVE  /\ result'[c] = "aborted" => signal[c]
                      /\ result'[c] = "timeout" => wire[c] \in {Late, Stalled, Cut}
                      /\ result'[c] = "offline" => wire[c] \in {Lost, Expired}
                      /\ result'[c] = "unauthorized" => wire[c].status = "401"
    BY <1>1 DEF Classified
  <2>1. CASE c \notin S
    BY <1>2, <2>1 DEF Classified
  <2>2. CASE c \in S
    BY <1>3, <1>4, <1>5, <2>2 DEF Classified, TypeOK
  <2> QED
    BY <2>1, <2>2
<1> QED
  BY <1>1, <1>2, <1>6, <1>7, <1>8, <1>9, <1>10, <1>11, <1>12

\* A probe that finds a session, or a server that wants none (api.js:398, 586).
LEMMA ProbePassesStep ==
    ASSUME IInv, NEW mode \in {"unknown", "session", "disabled"},
           NEW authenticated \in BOOLEAN, ProbePasses(mode, authenticated)
    PROVE  IInv'
<1> DEFINE S == Probing \cup (IF authenticating = "probing" THEN Joined ELSE {})
<1>1. S \in SUBSET {c \in Caller : pc[c] \in Stops}
  BY DEF Probing, Joined, Stops
<1>2. Continue(S)
  BY DEF ProbePasses
<1> HIDE DEF S
<1> USE ContinueCalls, <1>1, <1>2
<1>3. /\ authMode' = mode /\ probe' = FALSE /\ gate' = gate
      /\ authenticating' = IF authenticating = "probing" THEN "none" ELSE authenticating
      /\ gateWaiters' = IF authenticating = "probing" THEN gateWaiters \ Joined
                                                      ELSE gateWaiters
  BY DEF ProbePasses, ProbeLearns
<1>4. TypeOK'
  BY <1>3 DEF IInv, NobodyForgotten, TypeOK
<1>5. Awaited'
  <2> USE CallerAssumption DEF IInv, NobodyForgotten
  <2>1. Probing' = {}
    BY DEF Probing, S
  <2>2. (\E c \in Caller : pc'[c] = "waiting") <=> (\E c \in Caller : pc[c] = "waiting")
    BY DEF S, Probing, Joined
  <2>3. CASE authenticating = "probing"
    <3>1. Joined' = {}
      BY <2>3 DEF Joined, S
    <3>2. Shared \notin gateWaiters /\ Shared \notin gateWaiters'
      BY <1>3, <2>3 DEF Awaited
    <3>3. {c \in Caller : pc'[c] \in {"waiting", "subscribed"}}
            = {c \in Caller : pc[c] \in {"waiting", "subscribed"}} \ Joined
      BY <2>3 DEF Joined, S, Probing
    <3>4. gateWaiters' \ {Shared} = {c \in Caller : pc'[c] \in {"waiting", "subscribed"}}
      BY <1>3, <2>3, <3>2, <3>3 DEF Awaited
    <3> QED
      BY <1>3, <2>1, <2>2, <2>3, <3>1, <3>2, <3>4 DEF Awaited
  <2>4. CASE authenticating # "probing"
    <3>1. Joined' = Joined
      BY <2>4 DEF Joined, S, Probing
    <3>2. {c \in Caller : pc'[c] \in {"waiting", "subscribed"}}
            = {c \in Caller : pc[c] \in {"waiting", "subscribed"}}
      BY <2>4 DEF S, Probing
    <3> QED
      BY <1>3, <2>1, <2>2, <2>4, <3>1, <3>2 DEF Awaited
  <2> QED
    BY <2>3, <2>4
<1> QED
  BY <1>4, <1>5 DEF IInv, NobodyForgotten

\* A probe without a session: whoever waited for it now waits at a visible gate
\* (api.js:377-401).
LEMMA ProbeRefusedStep ==
    ASSUME IInv, NEW mode \in {"unknown", "session", "disabled"}, ProbeRefused(mode)
    PROVE  IInv'
<1> USE CallerAssumption DEF IInv, NobodyForgotten, ProbeRefused, ProbeLearns, WaitForAuth
<1>1. /\ \A c \in Probing : pc'[c] = "waiting"
      /\ \A c \in Caller \ Probing : pc'[c] = pc[c]
  BY DEF Probing
<1>2. TypeOK'
  <2>1. Probing \subseteq Caller
    BY DEF Probing
  <2>2. pc' \in [Caller -> {"idle", "request", "auth", "retry", "backoff", "probing",
                            "waiting", "subscribed", "body", "done"}]
    BY DEF TypeOK
  <2> QED
    BY <2>1, <2>2 DEF TypeOK
<1>3. Awaited'
  <2>1. Probing' = {}
    BY <1>1 DEF Probing
  <2>2. Joined' = Joined
    BY <1>1 DEF Probing, Joined
  <2>3. {c \in Caller : pc'[c] \in {"waiting", "subscribed"}}
          = {c \in Caller : pc[c] \in {"waiting", "subscribed"}} \cup Probing
    BY <1>1 DEF Probing
  <2>4. gateWaiters' \ {Shared} = (gateWaiters \ {Shared}) \cup Probing
    BY DEF Probing
  <2>5. Shared \in gateWaiters' <=> Shared \in gateWaiters \/ authenticating = "probing"
    BY DEF Probing
  <2>6. gate' # "hidden" /\ authenticating' # "probing"
    BY DEF TypeOK
  <2>7. authenticating' = "gate" <=> Shared \in gateWaiters'
    BY <2>5 DEF Awaited, TypeOK
  <2>8. Joined' # {} => authenticating' # "none"
    BY <2>2 DEF Awaited
  <2> QED
    BY <2>1, <2>3, <2>4, <2>6, <2>7, <2>8 DEF Awaited
<1>4. Locals'
  BY <1>1 DEF Locals, Probing
<1>5. Classified'
  BY DEF Classified
<1> QED
  BY <1>2, <1>3, <1>4, <1>5

\* The person at the gate types a key, in vain (api.js:345-372).
LEMMA AttemptStep ==
    ASSUME IInv, Submit \/ LoginFails
    PROVE  IInv'
<1> USE DEF IInv, NobodyForgotten, Submit, LoginFails, calls
<1>1. TypeOK'
  BY DEF TypeOK
<1>2. Awaited'
  BY DEF Awaited, Joined, Probing
<1>3. Locals' /\ Classified'
  BY DEF Locals, Classified
<1> QED
  BY <1>1, <1>2, <1>3

\* A login wakes the gate's list and, through it, whoever joined the shared
\* authentication (api.js:356-358).
LEMMA LoginStep ==
    ASSUME IInv, LoginSucceeds
    PROVE  IInv'
<1> DEFINE S == (gateWaiters \ {Shared}) \cup (IF Shared \in gateWaiters THEN Joined ELSE {})
<1>1. S \in SUBSET {c \in Caller : pc[c] \in Stops}
  BY DEF IInv, NobodyForgotten, Awaited, Joined, Stops
<1>2. Continue(S)
  BY DEF LoginSucceeds
<1>3. {c \in Caller : pc[c] \in {"waiting", "subscribed"}} \subseteq S
  BY DEF IInv, NobodyForgotten, Awaited
<1>4. Shared \in gateWaiters => Joined \subseteq S
  OBVIOUS
<1>5. \A c \in S : pc[c] # "probing"
  BY DEF IInv, NobodyForgotten, Awaited, Joined
<1> HIDE DEF S
<1> USE ContinueCalls, <1>1, <1>2
<1>6. /\ authMode' = "session" /\ probe' = probe /\ gate' = "hidden" /\ gateWaiters' = {}
      /\ authenticating' = IF authenticating = "gate" THEN "none" ELSE authenticating
  BY DEF LoginSucceeds
<1>7. TypeOK'
  BY <1>6 DEF IInv, NobodyForgotten, TypeOK
<1>8. Awaited'
  <2> USE CallerAssumption DEF IInv, NobodyForgotten
  <2>1. Probing' = Probing
    BY <1>5 DEF Probing
  <2>2. {c \in Caller : pc'[c] \in {"waiting", "subscribed"}} = {}
    BY <1>3
  <2>3. Joined' \subseteq Joined
    BY DEF Joined
  <2>4. authenticating = "gate" => Joined' = {}
    BY <1>4, <2>3 DEF Joined, Awaited
  <2>5. authenticating' # "gate"
    BY <1>6
  <2> QED
    BY <1>6, <2>1, <2>2, <2>3, <2>4, <2>5 DEF Awaited
<1> QED
  BY <1>7, <1>8 DEF IInv, NobodyForgotten

-----------------------------------------------------------------------------
LEMMA StutterStep == ASSUME IInv, UNCHANGED vars PROVE IInv'
<1> USE DEF IInv, NobodyForgotten, vars, shared, calls
<1>1. TypeOK'
  BY DEF TypeOK
<1>2. Awaited'
  BY DEF Awaited, Joined, Probing
<1>3. Locals' /\ Classified'
  BY DEF Locals, Classified
<1> QED
  BY <1>1, <1>2, <1>3

LEMMA Inductive == ASSUME IInv, [Next]_vars PROVE IInv'
<1>1. ASSUME NEW c \in Caller, Calls(c) PROVE IInv'
  BY <1>1, FetchStep, EnsureStep, SubscribeStep DEF Calls
<1>2. ASSUME NEW c \in Caller, CallSteps(c) PROVE IInv'
  BY <1>2, AnsweredStep, ChallengedStep, RefusedStep, NetworkStep, BodyStep, DeadlineStep,
     GateDeadlineStep, WakeStep, AbortStep, ReturnStep DEF CallSteps
<1>3. CASE ProbeAnswers
  BY <1>3, ProbePassesStep, ProbeRefusedStep DEF ProbeAnswers
<1>4. CASE ProbeFails
  <2>1. authMode \in {"unknown", "session", "disabled"}
    BY DEF IInv, NobodyForgotten, TypeOK
  <2> QED
    BY <1>4, <2>1, ProbePassesStep, ProbeRefusedStep DEF ProbeFails
<1>5. CASE Submit \/ LoginFails \/ LoginSucceeds
  BY <1>5, AttemptStep, LoginStep
<1>6. CASE UNCHANGED vars
  BY <1>6, StutterStep
<1> QED
  BY <1>1, <1>2, <1>3, <1>4, <1>5, <1>6 DEF Next

LEMMA Invariance == Spec => []IInv
<1>1. IInv /\ [Next]_vars => IInv'
  BY Inductive
<1> QED
  BY InitSafe, <1>1, PTL DEF Spec

\* Whoever waits for a session is known to what will wake it, whatever the
\* order of replies, probes, logins and cancellations (api.js:582-650).
THEOREM WaitersAreKnown == Spec => []NobodyForgotten
<1>1. IInv => NobodyForgotten
  BY DEF IInv
<1> QED
  BY Invariance, <1>1, PTL

\* No failure is reported as what an earlier part of the call ran into, as far
\* as the kinds tell failures apart (see Classified; api.js:548-580).
THEOREM FailuresAreHonest == Spec => []Classified
<1>1. IInv => Classified
  BY DEF IInv
<1> QED
  BY Invariance, <1>1, PTL

\* The calls that continue after a wait have sent a request before only if it
\* was answered 401 (api.js:491).
LEMMA ContinueSends ==
    ASSUME IInv, NEW S, Continue(S), NEW c \in Caller, pc'[c] # pc[c], pc'[c] = "retry"
    PROVE  wire[c].status = "401"
<1>1. pc[c] = "auth"
  BY DEF Continue, Resumes, IInv, NobodyForgotten, TypeOK
<1> QED
  BY <1>1 DEF IInv, Locals

\* No POST is sent again after anything but a 401 (api.js:10, 541, 565).
THEOREM PostsAreSentOnce == Spec => PostsNotRepeated
<1>1. ASSUME IInv, Next, NEW c \in Caller,
             op[c] = "post", pc'[c] # pc[c], pc'[c] \in {"request", "retry"}
      PROVE  wire[c].status = "401"
  <2> USE DEF IInv, NobodyForgotten, TypeOK
  <2>1. ASSUME NEW d \in Caller, Calls(d) PROVE wire[c].status = "401"
    BY <1>1, <2>1 DEF Calls, Fetch, FetchRefused, EnsureSession, Subscribe, Ends, Locals
  <2>2. ASSUME NEW d \in Caller, CallSteps(d) PROVE wire[c].status = "401"
    <3>1. CASE Wake(d)
      BY <1>1, <3>1 DEF Wake, Locals
    <3>2. CASE Refused(d) \/ NetworkFails(d) \/ Deadline(d)
      BY <1>1, <3>2 DEF Refused, NetworkFails, Deadline, Fails, Ends
    <3>3. CASE Answered(d) \/ BodyEnds(d) \/ BodyStalls(d) \/ BodyLost(d) \/ Abort(d)
      BY <1>1, <3>3 DEF Answered, BodyEnds, BodyStalls, BodyLost, Abort, Ends
    <3>4. CASE Challenged(d) \/ DeadlineAtGate(d) \/ Return(d)
      BY <1>1, <3>4 DEF Challenged, DeadlineAtGate, Return
    <3> QED
      BY <2>2, <3>1, <3>2, <3>3, <3>4 DEF CallSteps
  <2>3. CASE ProbeAnswers \/ ProbeFails
    <3>1. CASE \E mode \in {"session", "disabled", authMode}, authenticated \in BOOLEAN :
                 ProbePasses(mode, authenticated)
      <4>1. PICK S : Continue(S)
        BY <3>1 DEF ProbePasses
      <4>2. pc'[c] = "retry"
        BY <1>1, <4>1 DEF Continue, Resumes
      <4> QED
        BY <1>1, <4>1, <4>2, ContinueSends
    <3>2. CASE \E mode \in {"session", authMode} : ProbeRefused(mode)
      BY <1>1, <3>2 DEF ProbeRefused, WaitForAuth
    <3> QED
      BY <2>3, <3>1, <3>2 DEF ProbeAnswers, ProbeFails
  <2>4. CASE Submit \/ LoginFails
    BY <1>1, <2>4 DEF Submit, LoginFails, calls
  <2>5. CASE LoginSucceeds
    <3>1. PICK S : Continue(S)
      BY <2>5 DEF LoginSucceeds
    <3>2. pc'[c] = "retry"
      BY <1>1, <3>1 DEF Continue, Resumes
    <3> QED
      BY <1>1, <3>1, <3>2, ContinueSends
  <2> QED
    BY <1>1, <2>1, <2>2, <2>3, <2>4, <2>5 DEF Next
<1> DEFINE Once == \A c \in Caller :
                     op[c] = "post" /\ pc'[c] # pc[c] /\ pc'[c] \in {"request", "retry"}
                       => wire[c].status = "401"
<1>2. IInv /\ [Next]_vars => [Once]_vars
  BY <1>1
<1> QED
  BY Invariance, <1>2, PTL DEF Spec, PostsNotRepeated

=============================================================================
