----------------------------- MODULE ConcurrencyGate -----------------------------
(***************************************************************************)
(* The gate every yt-dlp operation passes (src/services/ytdlp/queue.ts):   *)
(* at most activeLimit tasks run, at most queueMax flights wait, and calls *)
(* with the same work key share one flight, each with its own promise and  *)
(* abort signal.                                                           *)
(*                                                                         *)
(* The gate is synchronous between the steps of the event loop: an action  *)
(* is one call, timer callback, abort event or task settlement.  A flight  *)
(* that has settled is unreachable, so that its identity is used again.    *)
(* CancelReleasesSlot, SettleErasesNewer and the like are defects the code *)
(* could have had; they are not part of the specification.                 *)
(***************************************************************************)
EXTENDS Naturals, Sequences, FiniteSets

CONSTANTS
    Flight,   \* identities of Flight objects
    Caller,   \* calls of run()
    Key,      \* work keys
    NoKey,    \* a call without a key
    Options   \* ConcurrencyGateOptions: [activeLimit, queueMax]

ASSUME GateAssumption ==
    /\ IsFiniteSet(Flight) /\ IsFiniteSet(Caller)
    /\ NoKey \notin Key
    /\ Options \subseteq [activeLimit: Nat \ {0}, queueMax: Nat]
    /\ Options # {}

VARIABLES
    bounds,    \* this.options
    active,    \* this.active
    queue,     \* this.queue
    flights,   \* this.flights: key -> {flight}, or {} for an absent key
    closed,    \* this.shuttingDown
    state,     \* flight.state
    key,       \* flight.key
    aborted,   \* flight.operation.signal.aborted
    waiters,   \* flight.waiters
    timer,     \* flight.queueTimer is armed
    answer,    \* how each caller's promise settled
    signalled  \* callers whose own AbortSignal has fired

flightVars == <<state, key, aborted, waiters, timer>>
callVars   == <<answer, signalled>>
vars       == <<bounds, active, queue, flights, closed, flightVars, callVars>>

-----------------------------------------------------------------------------
Outcome == {"ok", "error", "abort", "full", "timeout"}

TypeOK ==
    /\ bounds \in Options
    /\ active \in Nat
    /\ queue \in Seq(Flight)
    /\ flights \in [Key -> SUBSET Flight]
    /\ closed \in BOOLEAN
    /\ state \in [Flight -> {"queued", "active", "settled"}]
    /\ key \in [Flight -> Key \cup {NoKey}]
    /\ aborted \in [Flight -> BOOLEAN]
    /\ waiters \in [Flight -> SUBSET Caller]
    /\ timer \in [Flight -> BOOLEAN]
    /\ answer \in [Caller -> {"none", "wait"} \cup Outcome]
    /\ signalled \subseteq Caller

Queued  == {f \in Flight : state[f] = "queued"}
Started == {f \in Flight : state[f] = "active"}

\* The flight that identical work may join.
Joinable(k) == {f \in flights[k] : state[f] # "settled" /\ ~aborted[f]}

\* Completion deletes the entry of a key only when it is this flight's.
WithoutEntry(f) == [k \in Key |-> flights[k] \ {f}]
WithoutEntryOfKey(f) == [k \in Key |-> IF k = key[f] THEN {} ELSE flights[k]]

\* Nothing refers to a flight that has settled: what it held is forgotten.
Forget(S) ==
    /\ key' = [f \in Flight |-> IF f \in S THEN NoKey ELSE key[f]]
    /\ aborted' = [f \in Flight |-> aborted[f] /\ f \notin S]
    /\ waiters' = [f \in Flight |-> IF f \in S THEN {} ELSE waiters[f]]

\* finishFlight answers every remaining waiter.
Answered(f, res) == [c \in Caller |-> IF c \in waiters[f] THEN res ELSE answer[c]]

\* splice(indexOf(f), 1)
Remove(s, f) ==
    IF \A i \in 1..Len(s) : s[i] # f THEN s
    ELSE LET at == CHOOSE i \in 1..Len(s) : s[i] = f
         IN [i \in 1..(Len(s) - 1) |-> IF i < at THEN s[i] ELSE s[i + 1]]

-----------------------------------------------------------------------------
(* run()                                                                   *)

\* A pre-aborted caller neither enqueues nor joins.
RunAborted(c) ==
    /\ answer[c] = "none"
    /\ answer' = [answer EXCEPT ![c] = "abort"]
    /\ signalled' = signalled \cup {c}
    /\ UNCHANGED <<bounds, active, queue, flights, closed, flightVars>>

RunClosed(c) ==
    /\ answer[c] = "none"
    /\ closed
    /\ answer' = [answer EXCEPT ![c] = "full"]
    /\ UNCHANGED <<bounds, active, queue, flights, closed, flightVars, signalled>>

\* Identical work is shared: one more waiter.
RunJoins(c, k) ==
    /\ answer[c] = "none" /\ ~closed
    /\ k # NoKey
    /\ \E f \in Joinable(k) : waiters' = [waiters EXCEPT ![f] = @ \cup {c}]
    /\ answer' = [answer EXCEPT ![c] = "wait"]
    /\ UNCHANGED <<bounds, active, queue, flights, closed, state, key, aborted, timer,
                   signalled>>

\* A call that cannot join takes over its key from an abandoned flight.
NewWork(c, k) ==
    /\ answer[c] = "none" /\ ~closed
    /\ k # NoKey => Joinable(k) = {}

Create(f, c, k, st) ==
    /\ state[f] = "settled"
    /\ state' = [state EXCEPT ![f] = st]
    /\ key' = [key EXCEPT ![f] = k]
    /\ aborted' = [aborted EXCEPT ![f] = FALSE]
    /\ waiters' = [waiters EXCEPT ![f] = {c}]
    /\ timer' = [timer EXCEPT ![f] = (st = "queued")]
    /\ flights' = IF k = NoKey THEN flights ELSE [flights EXCEPT ![k] = {f}]
    /\ answer' = [answer EXCEPT ![c] = "wait"]

RunStarts(c, k, f) ==
    /\ NewWork(c, k)
    /\ active < bounds.activeLimit
    /\ Create(f, c, k, "active")
    /\ active' = active + 1
    /\ UNCHANGED <<bounds, queue, closed, signalled>>

RunQueues(c, k, f) ==
    /\ NewWork(c, k)
    /\ active >= bounds.activeLimit
    /\ Len(queue) < bounds.queueMax
    /\ Create(f, c, k, "queued")
    /\ queue' = Append(queue, f)
    /\ UNCHANGED <<bounds, active, closed, signalled>>

\* A full queue: the new flight is finished at once, its key is free again.
RunRejected(c, k) ==
    /\ NewWork(c, k)
    /\ active >= bounds.activeLimit
    /\ Len(queue) >= bounds.queueMax
    /\ answer' = [answer EXCEPT ![c] = "full"]
    /\ flights' = IF k = NoKey THEN flights ELSE [flights EXCEPT ![k] = {}]
    /\ UNCHANGED <<bounds, active, queue, closed, flightVars, signalled>>

-----------------------------------------------------------------------------
(* The caller's signal and the queue timer.                                *)

\* Other waiters keep the flight alive.
CancelOne(c, f) ==
    /\ answer[c] = "wait" /\ c \in waiters[f]
    /\ waiters[f] # {c}
    /\ waiters' = [waiters EXCEPT ![f] = @ \ {c}]
    /\ answer' = [answer EXCEPT ![c] = "abort"]
    /\ signalled' = signalled \cup {c}
    /\ UNCHANGED <<bounds, active, queue, flights, closed, state, key, aborted, timer>>

\* The last waiter of a queued flight takes it out of the queue.
CancelQueued(c, f) ==
    /\ answer[c] = "wait" /\ waiters[f] = {c}
    /\ state[f] = "queued"
    /\ state' = [state EXCEPT ![f] = "settled"]
    /\ timer' = [timer EXCEPT ![f] = FALSE]
    /\ Forget({f})
    /\ queue' = Remove(queue, f)
    /\ flights' = WithoutEntry(f)
    /\ answer' = [answer EXCEPT ![c] = "abort"]
    /\ signalled' = signalled \cup {c}
    /\ UNCHANGED <<bounds, active, closed>>

CancelReleasesSlot(c, f) ==
    /\ answer[c] = "wait" /\ waiters[f] = {c} /\ state[f] = "active"
    /\ aborted' = [aborted EXCEPT ![f] = TRUE]
    /\ active' = active - 1
    /\ waiters' = [waiters EXCEPT ![f] = {}]
    /\ answer' = [answer EXCEPT ![c] = "abort"]
    /\ signalled' = signalled \cup {c}
    /\ UNCHANGED <<bounds, queue, flights, closed, state, key, timer>>

\* The last waiter of an active flight aborts its operation; the flight
\* keeps its slot until the task settles.
CancelActive(c, f) ==
    /\ answer[c] = "wait" /\ waiters[f] = {c}
    /\ state[f] = "active"
    /\ aborted' = [aborted EXCEPT ![f] = TRUE]
    /\ waiters' = [waiters EXCEPT ![f] = {}]
    /\ answer' = [answer EXCEPT ![c] = "abort"]
    /\ signalled' = signalled \cup {c}
    /\ UNCHANGED <<bounds, active, queue, flights, closed, state, key, timer>>

QueueTimeout(f) ==
    /\ timer[f]
    /\ queue' = Remove(queue, f)
    /\ state' = [state EXCEPT ![f] = "settled"]
    /\ timer' = [timer EXCEPT ![f] = FALSE]
    /\ Forget({f})
    /\ flights' = WithoutEntry(f)
    /\ answer' = Answered(f, "timeout")
    /\ UNCHANGED <<bounds, active, closed, signalled>>

-----------------------------------------------------------------------------
(* Settlement of a task, and shutdown.                                     *)

\* A task rejects with an AbortError only when its operation was aborted.
TaskResults(f) == {"ok", "error"} \cup (IF aborted[f] THEN {"abort"} ELSE {})

\* finishFlight for an active flight whose task has settled.
FinishActive(f, res) ==
    /\ state[f] = "active"
    /\ res \in TaskResults(f)
    /\ Forget({f})
    /\ answer' = Answered(f, res)
    /\ UNCHANGED <<bounds, closed, signalled>>

SettleErasesNewer(f, res) ==
    /\ FinishActive(f, res)
    /\ flights' = WithoutEntryOfKey(f)
    /\ IF closed \/ queue = <<>>
       THEN /\ state' = [state EXCEPT ![f] = "settled"] /\ active' = active - 1
            /\ UNCHANGED <<queue, timer>>
       ELSE /\ state' = [state EXCEPT ![f] = "settled", ![Head(queue)] = "active"]
            /\ timer' = [timer EXCEPT ![Head(queue)] = FALSE]
            /\ queue' = Tail(queue)
            /\ UNCHANGED active

SettleStartsNewest(f, res) ==
    /\ FinishActive(f, res)
    /\ flights' = WithoutEntry(f)
    /\ LET n    == IF closed \/ queue = <<>> THEN 0 ELSE 1
           next == IF n = 0 THEN {} ELSE {queue[Len(queue)]}
       IN /\ active' = active - 1 + n
          /\ queue' = SubSeq(queue, 1, Len(queue) - n)
          /\ state' = [g \in Flight |-> IF g = f THEN "settled"
                                        ELSE IF g \in next THEN "active" ELSE state[g]]
          /\ timer' = [g \in Flight |-> timer[g] /\ g \notin next]

\* The slot is released and pump() fills the free slots from the queue.
TaskSettles(f, res) ==
    /\ FinishActive(f, res)
    /\ flights' = WithoutEntry(f)
    /\ LET free == bounds.activeLimit - (active - 1)
           n    == IF closed THEN 0 ELSE IF free < Len(queue) THEN free ELSE Len(queue)
           next == {queue[i] : i \in 1..n}
       IN /\ active' = active - 1 + n
          /\ queue' = SubSeq(queue, n + 1, Len(queue))
          /\ state' = [g \in Flight |-> IF g = f THEN "settled"
                                        ELSE IF g \in next THEN "active" ELSE state[g]]
          /\ timer' = [g \in Flight |-> timer[g] /\ g \notin next]

\* abortQueued(): admission is closed for good, queued flights are rejected.
AbortQueued ==
    /\ ~closed
    /\ closed' = TRUE
    /\ queue' = <<>>
    /\ state' = [f \in Flight |-> IF f \in Queued THEN "settled" ELSE state[f]]
    /\ timer' = [f \in Flight |-> timer[f] /\ f \notin Queued]
    /\ Forget(Queued)
    /\ flights' = [k \in Key |-> flights[k] \ Queued]
    /\ answer' = [c \in Caller |-> IF \E f \in Queued : c \in waiters[f] THEN "full"
                                   ELSE answer[c]]
    /\ UNCHANGED <<bounds, active, signalled>>

\* configure() refuses while anything is active, queued or closed.
Configure ==
    /\ ~closed /\ active = 0 /\ queue = <<>>
    /\ bounds' \in Options
    /\ UNCHANGED <<active, queue, flights, closed, flightVars, callVars>>

\* The caller consumes its answer and may call again.
Return(c) ==
    /\ answer[c] \in Outcome
    /\ answer' = [answer EXCEPT ![c] = "none"]
    /\ signalled' = signalled \ {c}
    /\ UNCHANGED <<bounds, active, queue, flights, closed, flightVars>>

-----------------------------------------------------------------------------
Init ==
    /\ bounds \in Options
    /\ active = 0 /\ queue = <<>>
    /\ flights = [k \in Key |-> {}]
    /\ closed = FALSE
    /\ state = [f \in Flight |-> "settled"]
    /\ key = [f \in Flight |-> NoKey]
    /\ aborted = [f \in Flight |-> FALSE]
    /\ waiters = [f \in Flight |-> {}]
    /\ timer = [f \in Flight |-> FALSE]
    /\ answer = [c \in Caller |-> "none"]
    /\ signalled = {}

Run(c, k) ==
    \/ RunJoins(c, k) \/ RunRejected(c, k)
    \/ \E f \in Flight : RunStarts(c, k, f) \/ RunQueues(c, k, f)

Cancel(c, f) == CancelOne(c, f) \/ CancelQueued(c, f) \/ CancelActive(c, f)

Next ==
    \/ \E c \in Caller :
          \/ RunAborted(c) \/ RunClosed(c) \/ Return(c)
          \/ \E k \in Key \cup {NoKey} : Run(c, k)
          \/ \E f \in Flight : Cancel(c, f)
    \/ \E f \in Flight :
          \/ QueueTimeout(f)
          \/ \E res \in Outcome : TaskSettles(f, res)
    \/ AbortQueued
    \/ Configure

\* That tasks settle, and so calls are answered, is the runner's part.
Spec == Init /\ [][Next]_vars

-----------------------------------------------------------------------------
(* What the gate promises.                                                 *)

\* The slot counter is the number of tasks in progress, and never above the
\* limit: no interleaving of cancellation, timeout and settlement leaks a
\* slot or releases one twice.
SlotsAccounted ==
    /\ active = Cardinality(Started)
    /\ active <= bounds.activeLimit

\* The queue holds each queued flight once and is bounded; its timers are
\* armed exactly for the flights in it, so none fires for a running task.
QueueAccounted ==
    /\ {queue[i] : i \in 1..Len(queue)} = Queued
    /\ \A i, j \in 1..Len(queue) : i # j => queue[i] # queue[j]
    /\ Len(queue) <= bounds.queueMax
    /\ \A f \in Flight : timer[f] <=> f \in Queued

\* Work waits only while every slot is taken.
NoIdleSlot == queue # <<>> => ~closed /\ active = bounds.activeLimit

\* One flight per key that anybody can still join: an abandoned flight and
\* its replacement run side by side, and neither loses the other's entry.
SingleFlight ==
    /\ \A k \in Key : \A f \in flights[k] : state[f] # "settled" /\ key[f] = k
    /\ \A k \in Key : \A f, g \in flights[k] : f = g
    /\ \A f \in Flight : state[f] # "settled" /\ key[f] # NoKey /\ ~aborted[f] =>
                            f \in flights[key[f]]

\* Every unanswered caller waits for exactly one flight in progress, and
\* work that nobody waits for has been told to stop.
WaitersAccounted ==
    /\ \A c \in Caller : answer[c] = "wait" <=> \E f \in Flight : c \in waiters[f]
    /\ \A f, g \in Flight : f # g => waiters[f] \cap waiters[g] = {}
    /\ \A f \in Flight : state[f] = "settled" => waiters[f] = {}
    /\ \A f \in Flight : state[f] # "settled" => (waiters[f] = {} <=> aborted[f])

\* A caller is told "aborted" only when its own signal fired, never because
\* of the other callers of the flight it shares.
NoForeignAbort == \A c \in Caller : answer[c] = "abort" => c \in signalled

\* The books of the gate stay in order, whatever calls, signals, timers,
\* settlements and shutdown follow one another: slots, queue, timers and
\* waiters agree, no slot is idle while work waits, and nobody is told of an
\* abort that was another's.
Accounted ==
    /\ TypeOK
    /\ SlotsAccounted /\ QueueAccounted /\ WaitersAccounted
    /\ NoIdleSlot /\ NoForeignAbort

-----------------------------------------------------------------------------
\* The gate implements a bounded pool of jobs that are started in the order
\* they came: keys, callers, signals and timers decide only which job comes
\* or leaves.
Pool == INSTANCE BoundedPool WITH
    Job     <- Flight,
    running <- Started,
    waiting <- queue,
    open    <- ~closed

ImplementsPool == Pool!Spec
=============================================================================
