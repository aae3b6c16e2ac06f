--------------------------- MODULE YtDlpRunner_proofs ----------------------------
(***************************************************************************)
(* Proofs about the runner and the shutdown, for any number of flights,    *)
(* callers and children: which child belongs to whom, and that shutdown    *)
(* reaches every child.                                                    *)
(***************************************************************************)
EXTENDS YtDlpRunner, ConcurrencyGate_proofs

-----------------------------------------------------------------------------
(* The inductive invariant.  The gate's books are part of it: that a flight *)
(* whose task runs keeps its slot is what keeps a child from losing its     *)
(* owner unnoticed.                                                         *)

\* The runner's own variables; TypeOK is the gate's.
OwnTypeOK ==
    /\ task \in [Flight -> {"none", "due", "spawned", "ok", "error", "abort"}]
    /\ children \subseteq Child /\ dead \subseteq children
    /\ owner \in [Child -> Flight \cup {Probe, Nobody}]
    /\ signal \in [Child -> {"none", "term", "kill"}]
    /\ escalation \in [Child -> BOOLEAN]
    /\ killTimer \in [Child -> BOOLEAN]
    /\ fence \in BOOLEAN /\ drained \in BOOLEAN
    /\ shutdown \in {"no", "draining", "clean", "forced"}
    /\ awaited \subseteq children

\* What ChildrenOwned says of owners and tasks.
OwnersWait ==
    /\ \A ch \in children : owner[ch] \in Flight => task[owner[ch]] = "spawned"
    /\ \A ch, d \in children : ch # d /\ owner[ch] # Nobody => owner[ch] # owner[d]
    /\ \A f \in Flight : task[f] = "spawned" => \E ch \in children : owner[ch] = f

\* What it says of children whose promise has settled.
OrphansTold ==
    \A ch \in children \ dead : owner[ch] = Nobody => signal[ch] = "kill" \/ escalation[ch]

\* A flight has a task exactly while it has a slot.
TaskFollows == \A f \in Flight : task[f] = "none" <=> state[f] # "active"

\* The fence is up from the beginning of the shutdown.
Fenced == fence <=> shutdown # "no"

\* A child whose escalation is under way has had its SIGTERM; without this a
\* child that terminateChild() passes over could be one without a signal.
Warned == \A ch \in children \ dead : escalation[ch] => signal[ch] # "none"

RunnerInv ==
    /\ GateInv /\ OwnTypeOK
    /\ OwnersWait /\ OrphansTold /\ ShutdownReachesAll
    /\ TaskFollows /\ Fenced /\ Warned

LEMMA RunnerInvGives == RunnerInv => ChildrenOwned /\ ShutdownReachesAll
BY DEF RunnerInv, ChildrenOwned, RunnerTypeOK, OwnTypeOK, OwnersWait, OrphansTold, GateInv, Accounted

LEMMA RunnerInitSafe == RunnerInit => RunnerInv
<1> SUFFICES ASSUME RunnerInit PROVE RunnerInv
    OBVIOUS
<1> USE DEF RunnerInit
<1>1. GateInv
    BY GateInitSafe
<1>2. OwnTypeOK
    BY DEF OwnTypeOK
<1>3. OwnersWait /\ OrphansTold /\ ShutdownReachesAll /\ Fenced /\ Warned
    BY DEF OwnersWait, OrphansTold, ShutdownReachesAll, Fenced, Warned
<1>4. TaskFollows
    BY DEF TaskFollows, Init
<1> QED BY <1>1, <1>2, <1>3, <1>4 DEF RunnerInv

-----------------------------------------------------------------------------
(* The gate under the runner.                                              *)

\* Every step of the runner is one of the gate, or leaves the gate alone.
LEMMA RunnerIsGate ==
    ASSUME RunnerInv, [RunnerNext]_runnerVars
    PROVE  [Next]_vars
<1>1. CASE UNCHANGED runnerVars
    BY <1>1 DEF runnerVars
<1>2. CASE GateStep
    BY <1>2 DEF GateStep, Next, Cancel
<1>3. ASSUME NEW f \in Flight, Settle(f) PROVE Next
    <2>1. task[f] \in Outcome
        BY <1>3 DEF Settle, Outcome
    <2> QED BY <1>3, <2>1 DEF Settle, Next
<1>4. ASSUME NEW f \in Flight, NEW c \in Caller, Abort(c, f) PROVE Next
    BY <1>4 DEF Abort, Next, Cancel
<1>5. CASE Shutdown
    BY <1>5 DEF Shutdown, Next
<1>6. ASSUME NEW f \in Flight, NEW ch \in Child, TaskSpawns(f, ch)
      PROVE  UNCHANGED vars
    BY <1>6 DEF TaskSpawns
<1>7. ASSUME NEW ch \in Child,
             ProbeSpawns(ch) \/ KillTimerFires(ch) \/ Overflow(ch) \/ Escalate(ch)
             \/ Exit(ch) \/ Close(ch)
      PROVE  UNCHANGED vars
    BY <1>7 DEF ProbeSpawns, KillTimerFires, Overflow, Escalate, Exit, Close
<1>8. CASE HttpDrained \/ ChildDeadline \/ CleanExit \/ ForcedExit
    BY <1>8 DEF HttpDrained, ChildDeadline, CleanExit, ForcedExit
<1>9. ASSUME NEW f \in Flight, TaskRefused(f)
      PROVE  UNCHANGED vars
    BY <1>9 DEF TaskRefused
<1> QED
    BY <1>1, <1>2, <1>3, <1>4, <1>5, <1>6, <1>7, <1>8, <1>9 DEF RunnerNext

\* What runs goes on running, whoever calls or leaves.
LEMMA ActiveStays ==
    ASSUME TypeOK, QueueAccounted, GateStep, NEW f \in Flight, state[f] = "active"
    PROVE  state'[f] = "active"
<1> USE DEF TypeOK
<1>1. ASSUME NEW c \in Caller, RunAborted(c) \/ RunClosed(c) \/ Return(c)
      PROVE  state'[f] = "active"
    BY <1>1 DEF RunAborted, RunClosed, Return, flightVars
<1>2. ASSUME NEW c \in Caller, NEW k \in Key \cup {NoKey}, Run(c, k)
      PROVE  state'[f] = "active"
    BY <1>2 DEF Run, RunJoins, RunRejected, RunStarts, RunQueues, Create, flightVars
<1>3. ASSUME NEW c \in Caller, NEW g \in Flight, CancelOne(c, g) \/ CancelQueued(c, g)
      PROVE  state'[f] = "active"
    BY <1>3 DEF CancelOne, CancelQueued
<1>4. ASSUME NEW g \in Flight, QueueTimeout(g)
      PROVE  state'[f] = "active"
    BY <1>4 DEF QueueTimeout, QueueAccounted, Queued
<1> QED BY <1>1, <1>2, <1>3, <1>4 DEF GateStep

\* When the gate moves, tasks that have spawned are the ones that had.
LEMMA TasksMove ==
    ASSUME TaskFollows, OwnTypeOK, TaskOfGate,
           \A f \in Flight : task[f] = "spawned" => state'[f] = "active"
    PROVE  /\ TaskFollows'
           /\ task' \in [Flight -> {"none", "due", "spawned", "ok", "error", "abort"}]
           /\ \A f \in Flight : task'[f] = "spawned" <=> task[f] = "spawned"
BY DEF TaskFollows, OwnTypeOK, TaskOfGate

\* A step of the gate that leaves the children alone.
LEMMA GateMovesKeep ==
    ASSUME RunnerInv, GateInv', TaskOfGate,
           \A f \in Flight : task[f] = "spawned" => state'[f] = "active",
           UNCHANGED <<childVars, shutdownVars>>
    PROVE  RunnerInv'
<1> USE DEF RunnerInv, childVars, shutdownVars
<1>1. /\ TaskFollows'
      /\ task' \in [Flight -> {"none", "due", "spawned", "ok", "error", "abort"}]
      /\ \A f \in Flight : task'[f] = "spawned" <=> task[f] = "spawned"
    BY TasksMove
<1>2. OwnTypeOK'
    BY <1>1 DEF OwnTypeOK
<1>3. OwnersWait'
    BY <1>1 DEF OwnersWait
<1>4. (OrphansTold /\ ShutdownReachesAll /\ Fenced /\ Warned)'
    BY DEF OrphansTold, ShutdownReachesAll, Fenced, Warned
<1> QED BY <1>1, <1>2, <1>3, <1>4

LEMMA GateStepKeeps == ASSUME RunnerInv, GateInv', GateStep PROVE RunnerInv'
<1>1. \A f \in Flight : task[f] = "spawned" => state'[f] = "active"
    BY ActiveStays DEF RunnerInv, GateInv, Accounted, TaskFollows
<1> QED BY <1>1, GateMovesKeep DEF GateStep

LEMMA RunnerSettleKeeps ==
    ASSUME RunnerInv, GateInv', NEW f \in Flight, Settle(f)
    PROVE  RunnerInv'
<1>1. task[f] # "spawned" /\ TaskSettles(f, task[f])
    BY DEF Settle
<1>2. \A g \in Flight : task[g] = "spawned" => state[g] = "active"
    BY DEF RunnerInv, TaskFollows
<1>3. \A g \in Flight : g # f /\ state[g] = "active" => state'[g] = "active"
    BY <1>1, SettleIs DEF RunnerInv, FreesSlot, PassesSlot
<1> QED BY <1>1, <1>2, <1>3, GateMovesKeep DEF Settle

-----------------------------------------------------------------------------
(* Tasks and children, while the gate stands still.                        *)

\* Without a step of the gate its slots are what they were.
LEMMA GateStands ==
    ASSUME GateInv, UNCHANGED vars
    PROVE  GateInv' /\ state' = state
BY GateStepSafe DEF vars, flightVars

\* A task that is due is refused: it never had a child.
LEMMA RefusedKeeps ==
    ASSUME RunnerInv, NEW f \in Flight, TaskRefused(f)
    PROVE  RunnerInv'
<1> USE DEF RunnerInv, TaskRefused, childVars, shutdownVars
<1>1. /\ task[f] = "due"
      /\ \E t \in {"abort", "error"} : task' = [task EXCEPT ![f] = t]
    OBVIOUS
<1>2. GateInv' /\ state' = state
    BY GateStands
<1>3. OwnTypeOK'
    BY <1>1 DEF OwnTypeOK
<1>4. \A g \in Flight : (task'[g] = "spawned" <=> task[g] = "spawned")
                        /\ (task'[g] = "none" <=> task[g] = "none")
    BY <1>1 DEF OwnTypeOK
<1>5. OwnersWait'
    BY <1>4 DEF OwnersWait
<1>6. TaskFollows'
    BY <1>2, <1>4 DEF TaskFollows
<1>7. (OrphansTold /\ ShutdownReachesAll /\ Fenced /\ Warned)'
    BY DEF OrphansTold, ShutdownReachesAll, Fenced, Warned
<1> QED BY <1>2, <1>3, <1>5, <1>6, <1>7

\* A new child, for a flight or for the version probe: the fence is down, so
\* no shutdown has begun, and no other child has this owner.
LEMMA SpawnKeeps ==
    ASSUME RunnerInv, NEW ch \in Child, NEW who \in Flight \cup {Probe}, Spawn(ch, who),
           ~fence, UNCHANGED <<vars, shutdownVars>>,
           \A d \in children : owner[d] # who,
           who \in Flight => task[who] = "due" /\ task' = [task EXCEPT ![who] = "spawned"],
           who = Probe => task' = task
    PROVE  RunnerInv'
<1> USE RunnerAssumption DEF RunnerInv, Spawn, shutdownVars
<1>1. GateInv' /\ state' = state
    BY GateStands
<1>2. OwnTypeOK'
    BY DEF OwnTypeOK
<1>3. /\ dead' = dead /\ dead \subseteq children
      /\ \A d \in Child : owner'[d] = IF d = ch THEN who ELSE owner[d]
      /\ \A d \in Child : signal'[d] = IF d = ch THEN "none" ELSE signal[d]
      /\ \A d \in Child : escalation'[d] <=> (escalation[d] /\ d # ch)
      /\ children \subseteq Child
    BY DEF OwnTypeOK
<1>4. \A g \in Flight : task'[g] = IF g = who THEN "spawned" ELSE task[g]
    BY DEF OwnTypeOK
<1>5. OwnersWait'
    <2>1. \A d \in children' : owner'[d] \in Flight => task'[owner'[d]] = "spawned"
        BY <1>3, <1>4 DEF OwnersWait
    <2>2. \A d, e \in children' : d # e /\ owner'[d] # Nobody => owner'[d] # owner'[e]
        BY <1>3 DEF OwnersWait
    <2>3. \A g \in Flight : task'[g] = "spawned" => \E d \in children' : owner'[d] = g
        BY <1>3, <1>4 DEF OwnersWait
    <2> QED BY <2>1, <2>2, <2>3 DEF OwnersWait
<1>6. TaskFollows'
    BY <1>1, <1>4 DEF TaskFollows
<1>7. OrphansTold'
    BY <1>3 DEF OrphansTold
<1>8. ShutdownReachesAll' /\ Fenced' /\ Warned'
    BY <1>3 DEF ShutdownReachesAll, Fenced, Warned
<1> QED BY <1>1, <1>2, <1>5, <1>6, <1>7, <1>8

LEMMA SpawnsKeep ==
    ASSUME RunnerInv, NEW ch \in Child,
           ProbeSpawns(ch) \/ \E f \in Flight : TaskSpawns(f, ch)
    PROVE  RunnerInv'
<1>1. CASE ProbeSpawns(ch)
    <2>1. Probe \notin Flight
        BY RunnerAssumption
    <2> QED BY <1>1, <2>1, SpawnKeeps DEF ProbeSpawns
<1>2. ASSUME NEW f \in Flight, TaskSpawns(f, ch) PROVE RunnerInv'
    <2>1. \A d \in children : owner[d] # f
        BY <1>2 DEF TaskSpawns, RunnerInv, OwnersWait
    <2>2. f # Probe
        BY RunnerAssumption
    <2> QED BY <1>2, <2>1, <2>2, SpawnKeeps DEF TaskSpawns
<1> QED BY <1>1, <1>2

\* Terminating children takes no signal and no escalation back, and leaves
\* each of them told and on the way to SIGKILL.
LEMMA TerminateTells ==
    ASSUME RunnerInv, NEW S \in SUBSET children, Terminate(S)
    PROVE  /\ signal' \in [Child -> {"none", "term", "kill"}]
           /\ escalation' \in [Child -> BOOLEAN]
           /\ \A ch \in children \ dead :
                 /\ signal[ch] # "none" => signal'[ch] # "none"
                 /\ signal[ch] = "kill" => signal'[ch] = "kill"
                 /\ escalation[ch] => escalation'[ch]
                 /\ escalation'[ch] => signal'[ch] # "none"
                 /\ ch \in S => escalation'[ch]
<1> USE DEF RunnerInv, OwnTypeOK
<1>1. \A ch \in children : ch \in Child
    OBVIOUS
<1>2. /\ \A ch \in Child : signal'[ch] = IF (ch \in S \ dead /\ ~escalation[ch]) /\ signal[ch] = "none"
                                         THEN "term" ELSE signal[ch]
      /\ \A ch \in Child : escalation'[ch] <=> (escalation[ch] \/ ch \in S \ dead)
      /\ signal' \in [Child -> {"none", "term", "kill"}]
      /\ escalation' \in [Child -> BOOLEAN]
    BY DEF Terminate
<1>3. ASSUME NEW ch \in children \ dead
      PROVE  /\ signal[ch] # "none" => signal'[ch] # "none"
             /\ signal[ch] = "kill" => signal'[ch] = "kill"
             /\ escalation[ch] => escalation'[ch]
             /\ escalation'[ch] => signal'[ch] # "none"
             /\ ch \in S => escalation'[ch]
    BY <1>1, <1>2 DEF Warned
<1> QED BY <1>2, <1>3

\* The timers of a child, and output beyond its cap.
LEMMA TerminatedKeeps ==
    ASSUME RunnerInv, NEW ch \in Child, KillTimerFires(ch) \/ Overflow(ch)
    PROVE  RunnerInv'
<1> USE DEF RunnerInv, shutdownVars
<1>1. /\ ch \in children /\ Terminate({ch})
      /\ killTimer' \in [Child -> BOOLEAN]
      /\ UNCHANGED <<vars, task, children, dead, owner, fence, shutdown, awaited, drained>>
    BY DEF KillTimerFires, Overflow, OwnTypeOK
<1>2. /\ signal' \in [Child -> {"none", "term", "kill"}]
      /\ escalation' \in [Child -> BOOLEAN]
      /\ \A d \in children \ dead :
            /\ signal[d] # "none" => signal'[d] # "none"
            /\ signal[d] = "kill" => signal'[d] = "kill"
            /\ escalation[d] => escalation'[d]
            /\ escalation'[d] => signal'[d] # "none"
    BY <1>1, TerminateTells
<1>3. GateInv' /\ state' = state
    BY <1>1, GateStands
<1>4. OwnTypeOK'
    BY <1>1, <1>2 DEF OwnTypeOK
<1>5. OwnersWait' /\ TaskFollows'
    BY <1>1, <1>3 DEF OwnersWait, TaskFollows
<1>6. (OrphansTold /\ ShutdownReachesAll /\ Fenced /\ Warned)'
    BY <1>1, <1>2 DEF OrphansTold, ShutdownReachesAll, Fenced, Warned
<1> QED BY <1>3, <1>4, <1>5, <1>6

LEMMA EscalateKeeps ==
    ASSUME RunnerInv, NEW ch \in Child, Escalate(ch)
    PROVE  RunnerInv'
<1> USE DEF RunnerInv, Escalate, shutdownVars
<1>1. /\ \A d \in Child : signal'[d] = IF d = ch /\ ch \notin dead THEN "kill" ELSE signal[d]
      /\ signal' \in [Child -> {"none", "term", "kill"}]
      /\ \A d \in Child : escalation'[d] <=> (escalation[d] /\ d # ch)
      /\ children \subseteq Child
    BY DEF OwnTypeOK
<1>2. GateInv' /\ state' = state
    BY GateStands
<1>3. OwnTypeOK'
    BY DEF OwnTypeOK
<1>4. OwnersWait' /\ TaskFollows'
    BY <1>2 DEF OwnersWait, TaskFollows
<1>5. (OrphansTold /\ ShutdownReachesAll /\ Fenced /\ Warned)'
    BY <1>1 DEF OrphansTold, ShutdownReachesAll, Fenced, Warned
<1> QED BY <1>2, <1>3, <1>4, <1>5

\* The last caller leaves: the child of its flight, if there is one, becomes
\* nobody's and is on the way to SIGKILL.
LEMMA AbortKeeps ==
    ASSUME RunnerInv, GateInv', NEW c \in Caller, NEW f \in Flight, Abort(c, f)
    PROVE  RunnerInv'
<1> USE RunnerAssumption DEF RunnerInv, Abort, shutdownVars
<1> DEFINE mine == {ch \in children : owner[ch] = f}
<1>1. state' = state
    BY DEF CancelActive
<1>2. /\ \A ch \in Child : owner'[ch] = IF ch \in mine THEN Nobody ELSE owner[ch]
      /\ \A g \in Flight : task'[g] = IF g = f /\ task[f] = "spawned" THEN "abort" ELSE task[g]
      /\ children \subseteq Child
    BY DEF OwnTypeOK
<1>3. /\ signal' \in [Child -> {"none", "term", "kill"}]
      /\ escalation' \in [Child -> BOOLEAN]
      /\ \A ch \in children \ dead :
            /\ signal[ch] # "none" => signal'[ch] # "none"
            /\ signal[ch] = "kill" => signal'[ch] = "kill"
            /\ escalation[ch] => escalation'[ch]
            /\ escalation'[ch] => signal'[ch] # "none"
            /\ ch \in mine => escalation'[ch]
    BY TerminateTells
<1>4. OwnTypeOK'
    BY <1>3 DEF OwnTypeOK
<1>5. OwnersWait'
    <2>1. ASSUME NEW ch \in children, owner'[ch] \in Flight PROVE task'[owner'[ch]] = "spawned"
        <3>1. owner'[ch] = owner[ch] /\ owner[ch] # f
            BY <1>2, <2>1
        <3> QED BY <1>2, <2>1, <3>1 DEF OwnersWait
    <2>2. \A ch, d \in children : ch # d /\ owner'[ch] # Nobody => owner'[ch] # owner'[d]
        BY <1>2 DEF OwnersWait
    <2>3. ASSUME NEW g \in Flight, task'[g] = "spawned" PROVE \E ch \in children : owner'[ch] = g
        <3>1. g # f /\ task[g] = "spawned"
            BY <1>2, <2>3
        <3>2. PICK ch \in children : owner[ch] = g
            BY <3>1 DEF OwnersWait
        <3> QED BY <1>2, <3>1, <3>2
    <2> QED BY <2>1, <2>2, <2>3 DEF OwnersWait
<1>6. TaskFollows'
    BY <1>1, <1>2 DEF TaskFollows
<1>7. (OrphansTold /\ ShutdownReachesAll /\ Fenced /\ Warned)'
    BY <1>2, <1>3 DEF OrphansTold, ShutdownReachesAll, Fenced, Warned
<1> QED BY <1>4, <1>5, <1>6, <1>7

\* A child exits: it is no longer among those that must have been told.
LEMMA ExitKeeps ==
    ASSUME RunnerInv, NEW ch \in Child, Exit(ch)
    PROVE  RunnerInv'
<1> USE DEF RunnerInv, Exit, shutdownVars
<1>1. GateInv' /\ state' = state
    BY GateStands
<1>2. OwnTypeOK'
    BY DEF OwnTypeOK
<1>3. OwnersWait' /\ TaskFollows'
    BY <1>1 DEF OwnersWait, TaskFollows
<1>4. \A d \in children' \ dead' : d # ch /\ d \in children \ dead /\ signal'[d] = signal[d]
    BY DEF OwnTypeOK
<1>5. (OrphansTold /\ ShutdownReachesAll /\ Fenced /\ Warned)'
    BY <1>4 DEF OrphansTold, ShutdownReachesAll, Fenced, Warned
<1> QED BY <1>1, <1>2, <1>3, <1>5

\* A child closes, and the task that waited for it settles.
LEMMA CloseKeeps ==
    ASSUME RunnerInv, NEW ch \in Child, Close(ch)
    PROVE  RunnerInv'
<1> USE RunnerAssumption DEF RunnerInv, Close
<1>1. GateInv' /\ state' = state
    BY GateStands
<1>2. /\ \A d \in Child : owner'[d] = IF d = ch THEN Nobody ELSE owner[d]
      /\ \A d \in children' : signal'[d] = signal[d] /\ escalation'[d] = escalation[d]
      /\ children \subseteq Child /\ ch \in children /\ dead' = dead \ {ch}
    BY DEF OwnTypeOK
<1>3. /\ task' \in [Flight -> {"none", "due", "spawned", "ok", "error", "abort"}]
      /\ \A g \in Flight : IF g = owner[ch] THEN task'[g] \in {"ok", "error"} ELSE task'[g] = task[g]
    <2>1. CASE owner[ch] \in Flight
        <3>1. PICK res \in {"ok", "error"} : task' = [task EXCEPT ![owner[ch]] = res]
            BY <2>1
        <3> QED BY <2>1, <3>1 DEF OwnTypeOK
    <2>2. CASE owner[ch] \notin Flight
        BY <2>2 DEF OwnTypeOK
    <2> QED BY <2>1, <2>2
<1>4. OwnTypeOK'
    BY <1>3 DEF OwnTypeOK
<1>5. OwnersWait'
    <2>1. ASSUME NEW d \in children', owner'[d] \in Flight PROVE task'[owner'[d]] = "spawned"
        <3>1. d # ch /\ owner'[d] = owner[d] /\ owner[d] # owner[ch]
            BY <1>2, <2>1 DEF OwnersWait
        <3> QED BY <1>2, <1>3, <2>1, <3>1 DEF OwnersWait
    <2>2. \A d, e \in children' : d # e /\ owner'[d] # Nobody => owner'[d] # owner'[e]
        BY <1>2 DEF OwnersWait
    <2>3. ASSUME NEW g \in Flight, task'[g] = "spawned" PROVE \E d \in children' : owner'[d] = g
        <3>1. g # owner[ch] /\ task[g] = "spawned"
            BY <1>3, <2>3
        <3>2. PICK d \in children : owner[d] = g
            BY <3>1 DEF OwnersWait
        <3> QED BY <1>2, <3>1, <3>2
    <2> QED BY <2>1, <2>2, <2>3 DEF OwnersWait
<1>6. TaskFollows'
    <2>1. ASSUME NEW g \in Flight PROVE task'[g] = "none" <=> task[g] = "none"
        <3>1. g = owner[ch] => task[g] = "spawned"
            BY <1>2 DEF OwnersWait
        <3> QED BY <1>3, <3>1
    <2> QED BY <1>1, <2>1 DEF TaskFollows
<1>7. (OrphansTold /\ ShutdownReachesAll /\ Fenced /\ Warned)'
    BY <1>2 DEF OrphansTold, ShutdownReachesAll, Fenced, Warned
<1> QED BY <1>1, <1>4, <1>5, <1>6, <1>7

-----------------------------------------------------------------------------
(* The shutdown.                                                           *)

\* The first signal: the fence goes up in the step that tells every child.
LEMMA ShutdownKeeps == ASSUME RunnerInv, GateInv', Shutdown PROVE RunnerInv'
<1> USE DEF RunnerInv, Shutdown
<1>1. \A f \in Flight : task[f] = "spawned" => state'[f] = "active"
    <2>1. \A f \in Flight : state[f] = "active" => state'[f] = "active"
        BY DEF AbortQueued, Queued
    <2> QED BY <2>1 DEF TaskFollows
<1>2. /\ TaskFollows'
      /\ task' \in [Flight -> {"none", "due", "spawned", "ok", "error", "abort"}]
      /\ \A f \in Flight : task'[f] = "spawned" <=> task[f] = "spawned"
    BY <1>1, TasksMove
<1>3. /\ signal' \in [Child -> {"none", "term", "kill"}]
      /\ escalation' \in [Child -> BOOLEAN]
      /\ \A ch \in children \ dead :
            /\ signal[ch] = "kill" => signal'[ch] = "kill"
            /\ escalation'[ch] => signal'[ch] # "none"
            /\ escalation'[ch]
    BY TerminateTells
<1>4. OwnTypeOK'
    BY <1>2, <1>3 DEF OwnTypeOK
<1>5. OwnersWait'
    BY <1>2 DEF OwnersWait
<1>6. (OrphansTold /\ ShutdownReachesAll /\ Fenced /\ Warned)'
    BY <1>3 DEF OrphansTold, ShutdownReachesAll, Fenced, Warned
<1> QED BY <1>2, <1>4, <1>5, <1>6

\* Waiting for children and sockets, and the two ways out.
LEMMA EndingsKeep ==
    ASSUME RunnerInv, HttpDrained \/ ChildDeadline \/ CleanExit \/ ForcedExit
    PROVE  RunnerInv'
<1> USE DEF RunnerInv
<1>1. /\ UNCHANGED <<vars, task, children, dead, owner, killTimer, fence>>
      /\ shutdown # "no" /\ shutdown' \in {"draining", "clean", "forced"}
      /\ awaited' \subseteq children /\ drained' \in BOOLEAN
    BY DEF HttpDrained, ChildDeadline, CleanExit, ForcedExit, childVars, OwnTypeOK
<1>2. /\ signal' \in [Child -> {"none", "term", "kill"}]
      /\ escalation' \in [Child -> BOOLEAN]
      /\ \A ch \in children \ dead :
            /\ signal[ch] # "none" => signal'[ch] # "none"
            /\ signal[ch] = "kill" => signal'[ch] = "kill"
            /\ escalation[ch] => escalation'[ch]
            /\ escalation'[ch] => signal'[ch] # "none"
    <2>1. CASE UNCHANGED <<signal, escalation>>
        BY <2>1 DEF OwnTypeOK, Warned
    <2>2. CASE Terminate(children)
        BY <2>2, TerminateTells
    <2> QED BY <2>1, <2>2 DEF HttpDrained, ChildDeadline, CleanExit, ForcedExit, childVars
<1>3. GateInv' /\ state' = state
    BY <1>1, GateStands
<1>4. OwnTypeOK'
    BY <1>1, <1>2 DEF OwnTypeOK
<1>5. OwnersWait' /\ TaskFollows'
    BY <1>1, <1>3 DEF OwnersWait, TaskFollows
<1>6. (OrphansTold /\ ShutdownReachesAll /\ Fenced /\ Warned)'
    BY <1>1, <1>2 DEF OrphansTold, ShutdownReachesAll, Fenced, Warned
<1> QED BY <1>3, <1>4, <1>5, <1>6

-----------------------------------------------------------------------------
\* No step of the runner breaks its invariant.
LEMMA RunnerStepSafe == RunnerInv /\ [RunnerNext]_runnerVars => RunnerInv'
<1> SUFFICES ASSUME RunnerInv, [RunnerNext]_runnerVars PROVE RunnerInv'
    OBVIOUS
<1>1. GateInv'
    BY RunnerIsGate, GateStepSafe DEF RunnerInv
<1>2. CASE UNCHANGED runnerVars
    BY <1>1, <1>2 DEF runnerVars, vars, flightVars, childVars, shutdownVars, RunnerInv, OwnTypeOK,
       OwnersWait, OrphansTold, ShutdownReachesAll, TaskFollows, Fenced, Warned
<1>3. ASSUME NEW f \in Flight, NEW c \in Caller, Abort(c, f) PROVE RunnerInv'
    BY <1>1, <1>3, AbortKeeps
<1>4. ASSUME NEW f \in Flight, NEW ch \in Child, TaskSpawns(f, ch) PROVE RunnerInv'
    BY <1>4, SpawnsKeep
<1>5. ASSUME NEW f \in Flight, TaskRefused(f) \/ Settle(f) PROVE RunnerInv'
    BY <1>1, <1>5, RefusedKeeps, RunnerSettleKeeps
<1>6. ASSUME NEW ch \in Child,
             ProbeSpawns(ch) \/ KillTimerFires(ch) \/ Overflow(ch) \/ Escalate(ch)
             \/ Exit(ch) \/ Close(ch)
      PROVE  RunnerInv'
    BY <1>6, SpawnsKeep, TerminatedKeeps, EscalateKeeps, ExitKeeps, CloseKeeps
<1> QED
    BY <1>1, <1>2, <1>3, <1>4, <1>5, <1>6, GateStepKeeps, ShutdownKeeps, EndingsKeep DEF RunnerNext

\* spawnYtDlpProcess() and terminateChild() in src/services/ytdlp/runYtDlp.ts:
\* a child has one owner that waits for it, or has exited, or is on the way to
\* SIGKILL.
THEOREM RunnerChildrenOwned == RunnerSpec => []ChildrenOwned
BY RunnerInitSafe, RunnerStepSafe, RunnerInvGives, PTL DEF RunnerSpec

\* shutdown() in src/index.ts and the spawn fence in runYtDlp.ts: once the
\* shutdown has begun there is no child that was not told.
THEOREM RunnerShutdownReachesAll == RunnerSpec => []ShutdownReachesAll
BY RunnerInitSafe, RunnerStepSafe, RunnerInvGives, PTL DEF RunnerSpec

\* spawnFence in runYtDlp.ts: a child that shutdown() has not counted is never
\* added, so what it waits for only gets less.
THEOREM NoChildAfterShutdown ==
    RunnerSpec => [][shutdown # "no" => children' \subseteq children]_runnerVars
<1>1. RunnerInv /\ [RunnerNext]_runnerVars =>
        [shutdown # "no" => children' \subseteq children]_runnerVars
    <2> SUFFICES ASSUME RunnerInv, RunnerNext, shutdown # "no"
                 PROVE  children' \subseteq children
        OBVIOUS
    <2>1. fence
        BY DEF RunnerInv, Fenced
    <2> QED
        BY <2>1 DEF RunnerNext, GateStep, Settle, TaskRefused, TaskSpawns, Abort, ProbeSpawns,
           KillTimerFires, Overflow, Escalate, Exit, Close, Shutdown, HttpDrained, ChildDeadline,
           CleanExit, ForcedExit, childVars
<1> QED BY <1>1, RunnerInitSafe, RunnerStepSafe, PTL DEF RunnerSpec

\* The runner uses the gate as the gate may be used, so that what is proved of
\* the gate holds under the runner: its books, and that it is a bounded pool.
THEOREM RunnerImplementsPool == RunnerSpec => []Accounted /\ []SingleFlight /\ ImplementsPool
<1>1. RunnerInit => Init
    BY DEF RunnerInit
<1>2. RunnerSpec => Spec
    BY <1>1, RunnerInitSafe, RunnerStepSafe, RunnerIsGate, PTL DEF RunnerSpec, Spec
<1> QED BY <1>2, GateAccounted, GateSingleFlight, GateImplementsPool
=============================================================================
