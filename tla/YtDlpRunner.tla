------------------------------- MODULE YtDlpRunner -------------------------------
(***************************************************************************)
(* The yt-dlp executor over the gate (src/services/ytdlp/runYtDlp.ts) and  *)
(* the ordered shutdown of the process (src/index.ts): the task of a       *)
(* flight starts one turn after its slot was taken, spawns a child and     *)
(* settles when the child closes, or as soon as its operation is aborted.  *)
(*                                                                         *)
(* A child may ignore SIGTERM; it may close at any time.  What it prints,  *)
(* the detected version and the classification of its failures are left    *)
(* out: "error" stands for every rejection that is not an abort.  The      *)
(* bounds of the gate are those configured before the server listens.      *)
(***************************************************************************)
EXTENDS ConcurrencyGate

CONSTANTS
    Child,    \* bound: child processes that can be alive at the same time
    Probe,    \* owner of a version probe's child
    Nobody    \* owner of a child whose promise has settled already

ASSUME RunnerAssumption ==
    /\ IsFiniteSet(Child)
    /\ Probe \notin Flight /\ Nobody \notin Flight /\ Probe # Nobody

VARIABLES
    task,        \* where the task of each flight is
    children,    \* activeChildren: children that have not closed
    dead,        \* those of them that have an exitCode or a signalCode
    owner,       \* whose promise the child will settle
    signal,      \* the strongest signal sent to the child
    escalation,  \* record.escalationTimer is armed
    killTimer,   \* killTimer is armed: the process timeout or the overflow timer
    fence,       \* spawnFence
    shutdown,    \* the shutdown sequence, and how the process exited
    awaited,     \* children the shutdown sequence still waits for
    drained      \* the HTTP server has closed

childVars    == <<children, dead, owner, signal, escalation, killTimer>>
shutdownVars == <<fence, shutdown, awaited, drained>>
runnerVars   == <<vars, task, childVars, shutdownVars>>

RunnerTypeOK ==
    /\ TypeOK
    /\ task \in [Flight -> {"none", "due", "spawned", "ok", "error", "abort"}]
    /\ children \subseteq Child /\ dead \subseteq children
    /\ owner \in [Child -> Flight \cup {Probe, Nobody}]
    /\ signal \in [Child -> {"none", "term", "kill"}]
    /\ escalation \in [Child -> BOOLEAN]
    /\ killTimer \in [Child -> BOOLEAN]
    /\ fence \in BOOLEAN /\ drained \in BOOLEAN
    /\ shutdown \in {"no", "draining", "clean", "forced"}
    /\ awaited \subseteq children

Exited  == shutdown \in {"clean", "forced"}
Serving == ~Exited

-----------------------------------------------------------------------------
(* The gate's steps, seen by the runner: a flight that takes a slot has a  *)
(* task that is due, a flight that settles has none.                       *)

TaskOfGate ==
    task' = [f \in Flight |-> IF state'[f] # "active" THEN "none"
                              ELSE IF state[f] # "active" THEN "due" ELSE task[f]]

GateStep ==
    /\ Serving
    /\ \/ \E c \in Caller :
             \/ RunAborted(c) \/ RunClosed(c) \/ Return(c)
             \/ \E k \in Key \cup {NoKey} : Run(c, k)
             \/ \E f \in Flight : CancelOne(c, f) \/ CancelQueued(c, f)
       \/ \E f \in Flight : QueueTimeout(f)
    /\ TaskOfGate
    /\ UNCHANGED <<childVars, shutdownVars>>

\* The task's promise settles the flight in a microtask.
Settle(f) ==
    /\ Serving
    /\ task[f] \in {"ok", "error", "abort"}
    /\ TaskSettles(f, task[f])
    /\ TaskOfGate
    /\ UNCHANGED <<childVars, shutdownVars>>

-----------------------------------------------------------------------------
(* spawnYtDlpProcess                                                       *)

TerminateWithoutEscalation(S) ==
    /\ signal' = [ch \in Child |-> IF ch \in S /\ signal[ch] = "none" THEN "term" ELSE signal[ch]]
    /\ UNCHANGED escalation

\* terminateChild for each of S: SIGTERM once, and one escalation timer; one
\* that has exited is left alone.
Terminate(S) ==
    LET T == {ch \in S \ dead : ~escalation[ch]} IN
    /\ signal' = [ch \in Child |-> IF ch \in T /\ signal[ch] = "none" THEN "term" ELSE signal[ch]]
    /\ escalation' = [ch \in Child |-> escalation[ch] \/ ch \in T]

Spawn(ch, who) ==
    /\ ch \notin children
    /\ children' = children \cup {ch}
    /\ dead' = dead
    /\ owner' = [owner EXCEPT ![ch] = who]
    /\ signal' = [signal EXCEPT ![ch] = "none"]
    /\ escalation' = [escalation EXCEPT ![ch] = FALSE]
    /\ killTimer' = [killTimer EXCEPT ![ch] = TRUE]

\* The fence and an abort that came first are checked before spawning;
\* spawn() itself may throw.
TaskRefused(f) ==
    /\ Serving
    /\ task[f] = "due"
    /\ task' = [task EXCEPT ![f] = IF ~fence /\ aborted[f] THEN "abort" ELSE "error"]
    /\ UNCHANGED <<vars, childVars, shutdownVars>>

TaskSpawns(f, ch) ==
    /\ Serving
    /\ task[f] = "due"
    /\ ~fence /\ ~aborted[f]
    /\ Spawn(ch, f)
    /\ task' = [task EXCEPT ![f] = "spawned"]
    /\ UNCHANGED <<vars, shutdownVars>>

ProbeSpawnsUnfenced(ch) ==
    /\ Serving /\ \A d \in children : owner[d] # Probe
    /\ Spawn(ch, Probe)
    /\ UNCHANGED <<vars, task, shutdownVars>>

\* One version probe at a time; it has its child beside the gate.
ProbeSpawns(ch) ==
    /\ Serving
    /\ ~fence
    /\ \A d \in children : owner[d] # Probe
    /\ Spawn(ch, Probe)
    /\ UNCHANGED <<vars, task, shutdownVars>>

AbortWithoutSignal(c, f) ==
    /\ Serving /\ CancelActive(c, f)
    /\ task' = [task EXCEPT ![f] = IF @ = "spawned" THEN "abort" ELSE @]
    /\ owner' = [ch \in Child |-> IF ch \in children /\ owner[ch] = f THEN Nobody ELSE owner[ch]]
    /\ UNCHANGED <<children, dead, signal, escalation, killTimer, shutdownVars>>

\* The last caller leaves: the child is told to terminate and the task is
\* rejected at once, without waiting for the child to close.
Abort(c, f) ==
    /\ Serving
    /\ CancelActive(c, f)
    /\ LET mine == {ch \in children : owner[ch] = f} IN
       /\ Terminate(mine)
       /\ owner' = [ch \in Child |-> IF ch \in mine THEN Nobody ELSE owner[ch]]
    /\ task' = [task EXCEPT ![f] = IF @ = "spawned" THEN "abort" ELSE @]
    /\ UNCHANGED <<children, dead, killTimer, shutdownVars>>

\* The child runs longer than its timeout.
KillTimerFires(ch) ==
    /\ Serving
    /\ ch \in children /\ killTimer[ch]
    /\ killTimer' = [killTimer EXCEPT ![ch] = FALSE]
    /\ Terminate({ch})
    /\ UNCHANGED <<vars, task, children, dead, owner, shutdownVars>>

\* The output exceeds its cap; when the child goes on printing, another
\* timer takes the place of the first one.
Overflow(ch) ==
    /\ Serving
    /\ ch \in children \ dead /\ owner[ch] # Nobody
    /\ Terminate({ch})
    /\ killTimer' \in {killTimer, [killTimer EXCEPT ![ch] = TRUE]}
    /\ signal[ch] = "none" => killTimer' = killTimer
    /\ UNCHANGED <<vars, task, children, dead, owner, shutdownVars>>

\* Two seconds after SIGTERM: SIGKILL for a child that has not exited.
Escalate(ch) ==
    /\ Serving
    /\ ch \in children /\ escalation[ch]
    /\ escalation' = [escalation EXCEPT ![ch] = FALSE]
    /\ signal' = IF ch \in dead THEN signal ELSE [signal EXCEPT ![ch] = "kill"]
    /\ UNCHANGED <<vars, task, children, dead, owner, killTimer, shutdownVars>>

\* The child exits; it closes when its pipes are closed as well.  What was
\* sent to it no longer matters, and its killTimer would find it gone.
Exit(ch) ==
    /\ Serving
    /\ ch \in children \ dead
    /\ dead' = dead \cup {ch}
    /\ signal' = [signal EXCEPT ![ch] = "none"]
    /\ killTimer' = [killTimer EXCEPT ![ch] = FALSE]
    /\ UNCHANGED <<vars, task, children, owner, escalation, shutdownVars>>

CloseKeepsOwner(ch) ==
    /\ Serving /\ ch \in children
    /\ children' = children \ {ch} /\ dead' = dead \ {ch}
    /\ awaited' = awaited \ {ch}
    /\ escalation' = [escalation EXCEPT ![ch] = FALSE]
    /\ killTimer' = [killTimer EXCEPT ![ch] = FALSE]
    /\ signal' = [signal EXCEPT ![ch] = "none"]
    /\ UNCHANGED <<vars, task, owner, fence, shutdown, drained>>

\* close, or an error of the child: resources are released and, unless an abort did so
\* before, the task settles.
Close(ch) ==
    /\ Serving
    /\ ch \in children
    /\ children' = children \ {ch} /\ dead' = dead \ {ch}
    /\ awaited' = awaited \ {ch}
    /\ escalation' = [escalation EXCEPT ![ch] = FALSE]
    /\ killTimer' = [killTimer EXCEPT ![ch] = FALSE]
    /\ IF owner[ch] \in Flight
       THEN \E res \in {"ok", "error"} : task' = [task EXCEPT ![owner[ch]] = res]
       ELSE UNCHANGED task
    /\ owner' = [owner EXCEPT ![ch] = Nobody]
    /\ signal' = [signal EXCEPT ![ch] = "none"]
    /\ UNCHANGED <<vars, fence, shutdown, drained>>

-----------------------------------------------------------------------------
(* shutdown() in src/index.ts                                              *)

\* The first SIGTERM or SIGINT: admission is closed, the fence is raised and
\* every registered child is told to terminate.
Shutdown ==
    /\ shutdown = "no"
    /\ shutdown' = "draining"
    /\ AbortQueued
    /\ TaskOfGate
    /\ fence' = TRUE
    /\ Terminate(children)
    /\ awaited' = children
    /\ UNCHANGED <<children, dead, owner, killTimer, drained>>

HttpDrained ==
    /\ shutdown = "draining" /\ ~drained
    /\ drained' = TRUE
    /\ UNCHANGED <<vars, task, childVars, fence, shutdown, awaited>>

\* terminateAllChildren(8000) stops waiting; the escalation to SIGKILL came
\* after two of the eight seconds, unless the child had exited by then.
ChildDeadline ==
    /\ shutdown = "draining"
    /\ awaited # {} /\ \A ch \in awaited : signal[ch] = "kill" \/ ch \in dead
    /\ awaited' = {}
    /\ UNCHANGED <<vars, task, childVars, fence, shutdown, drained>>

CleanExit ==
    /\ shutdown = "draining"
    /\ awaited = {} /\ drained
    /\ shutdown' = "clean"
    /\ UNCHANGED <<vars, task, childVars, fence, awaited, drained>>

ForcedExitAfterDrain ==
    /\ shutdown = "draining"
    /\ awaited = {} /\ drained
    /\ shutdown' = "forced"
    /\ Terminate(children)
    /\ UNCHANGED <<vars, task, children, dead, owner, killTimer, fence, awaited, drained>>

\* SHUTDOWN_GRACE_MS: ten seconds, after the deadline of the children.
ForcedExit ==
    /\ shutdown = "draining"
    /\ awaited = {} /\ ~drained
    /\ shutdown' = "forced"
    /\ Terminate(children)
    /\ UNCHANGED <<vars, task, children, dead, owner, killTimer, fence, awaited, drained>>

-----------------------------------------------------------------------------
RunnerInit ==
    /\ Init
    /\ task = [f \in Flight |-> "none"]
    /\ children = {} /\ dead = {}
    /\ owner = [ch \in Child |-> Nobody]
    /\ signal = [ch \in Child |-> "none"]
    /\ escalation = [ch \in Child |-> FALSE]
    /\ killTimer = [ch \in Child |-> FALSE]
    /\ fence = FALSE
    /\ shutdown = "no" /\ awaited = {} /\ drained = FALSE

RunnerNext ==
    \/ GateStep
    \/ \E f \in Flight :
          \/ TaskRefused(f) \/ Settle(f)
          \/ \E ch \in Child : TaskSpawns(f, ch)
          \/ \E c \in Caller : Abort(c, f)
    \/ \E ch \in Child :
          ProbeSpawns(ch) \/ KillTimerFires(ch) \/ Overflow(ch) \/ Escalate(ch)
          \/ Exit(ch) \/ Close(ch)
    \/ Shutdown \/ HttpDrained \/ ChildDeadline \/ CleanExit \/ ForcedExit

\* Microtasks run and timers fire; a child that was sent SIGKILL exits; the
\* pipes of a child that has exited are closed, which assumes that no process
\* the child has started keeps them open for ever.
RunnerFairness ==
    /\ \A f \in Flight :
          /\ WF_runnerVars(TaskRefused(f) \/ \E ch \in Child : TaskSpawns(f, ch))
          /\ WF_runnerVars(Settle(f))
    /\ \A ch \in Child :
          /\ WF_runnerVars(KillTimerFires(ch))
          /\ WF_runnerVars(Escalate(ch))
          /\ WF_runnerVars(Exit(ch) /\ signal[ch] = "kill")
          /\ WF_runnerVars(Close(ch) /\ ch \in dead)
    /\ WF_runnerVars(ChildDeadline)
    /\ WF_runnerVars(CleanExit)
    /\ WF_runnerVars(ForcedExit)

RunnerSpec == RunnerInit /\ [][RunnerNext]_runnerVars /\ RunnerFairness

-----------------------------------------------------------------------------
(* What the runner promises.                                               *)

\* A child runs on behalf of a flight in progress (one child each, which
\* its task waits for) or of the one version probe; any other child has
\* exited, or was told to terminate and its escalation is under way or done.
ChildrenOwned ==
    /\ RunnerTypeOK
    /\ \A ch \in children :
          /\ owner[ch] \in Flight => task[owner[ch]] = "spawned"
          /\ owner[ch] = Nobody => ch \in dead \/ signal[ch] = "kill" \/ escalation[ch]
    /\ \A ch, d \in children : ch # d /\ owner[ch] # Nobody => owner[ch] # owner[d]
    /\ \A f \in Flight : task[f] = "spawned" => \E ch \in children : owner[ch] = f

\* Once shutdown began every child that lives has been told to terminate: the
\* fence leaves no child, and no version probe asked for while sockets drain,
\* that the snapshot of the registry missed.
ShutdownReachesAll ==
    shutdown # "no" => \A ch \in children \ dead : signal[ch] # "none"

\* A caller is answered, unless the process exits first: the runner settles
\* every task the gate has started.
CallerServed == \A c \in Caller : answer[c] = "wait" ~> answer[c] # "wait" \/ Exited

\* The process ends after a signal, whatever children and sockets do.
ShutdownEnds == shutdown = "draining" ~> Exited

\* No child outlives its task for ever.
ChildrenReaped == \A ch \in Child : owner[ch] = Nobody /\ ch \in children
                                       ~> ch \notin children \/ Exited

\* queue.ts:25-26 says that a cancelled child still shutting down occupies
\* its slot: the gate bounds the live children.
LiveChildrenBounded ==
    Cardinality({ch \in children \ dead : owner[ch] # Probe}) <= bounds.activeLimit
=============================================================================
