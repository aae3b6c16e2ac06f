------------------------------ MODULE SessionStore ------------------------------
(***************************************************************************)
(* The persistent allowlist of active sessions                             *)
(* (src/services/sessionStore.ts): one live object per server process, one *)
(* writer chain that runs the mutations in order, and one JSON document    *)
(* replaced by write-to-temporary, fsync, rename, directory fsync.         *)
(*                                                                         *)
(* A caller (a login or a logout request) makes a call and later finds its *)
(* answer in call[c].res.  Every await of an operation is a step boundary, *)
(* so a crash, another request or the clock may come between any two of    *)
(* them.  The operators named after a definition and a defect, such as     *)
(* StartRemoveMemoryOnly, are not part of the specification: each is a     *)
(* defect the code could have had, kept to show that a property notices it.*)
(***************************************************************************)
EXTENDS Naturals, Sequences, FiniteSets

CONSTANTS
    Sid,          \* session identifiers; each one is generated at most once
    Caller,       \* concurrent requests that may use the store
    Boot,         \* the call that the startup sequence makes
    MaxSessions,  \* MAX_ACTIVE_SESSIONS
    Lifetime,     \* sessionTokenLifetimeMs, in ticks of the clock
    MaxNow,       \* bound: the clock stops here
    MaxEpoch      \* bound: how many storage epochs are ever persisted

ASSUME StoreAssumption ==
    /\ IsFiniteSet(Sid)
    /\ Boot \notin Caller
    /\ MaxSessions \in Nat \ {0}
    /\ Lifetime \in Nat \ {0}
    /\ MaxNow \in Nat
    /\ MaxEpoch \in Nat \ {0}

VARIABLES
    now,          \* Date.now()
    up,           \* the server process is running
    epoch,        \* this.epoch, 0 for null
    sessions,     \* this.sessions: sid -> exp, 0 for an absent key
    initialized,
    healthy,
    queue,        \* the writer chain: callers in order, the head is running
    pc,           \* where the head is: "idle", "write", "rename" or "dirsync"
    call,         \* the promise each caller holds
    file,         \* the document a process finds at `path`
    durable,      \* the document a power loss is sure to leave at `path`
    synced,       \* no directory fsync has been swallowed since the last good one
    usedEpochs,   \* epochs that have ever been on disk
    issued,       \* sids that have been generated
    told,         \* [sid, exp] whose add() resolved: what a client may hold a cookie of
    granted,      \* those of told whose storage was not lost since
    leaving,      \* sids that a remove() has been called for
    revoked       \* sids whose remove() resolved

process == <<up, epoch, sessions, initialized, healthy, queue, pc, call>>
disk    == <<file, durable, synced, usedEpochs>>
history == <<issued, told, granted, leaving, revoked>>
vars    == <<now, process, disk, history>>

-----------------------------------------------------------------------------
Slot  == Caller \cup {Boot}
Empty == [s \in Sid |-> 0]

\* A promise: the operation, its arguments and how it settled.
CallRecord ==
    [op: {"add", "remove"}, sid: Sid, exp: Nat, res: {"pending", "ok", "full", "unavailable"}]
    \cup [op: {"none", "init"}, sid: {0}, exp: {0},
          res: {"none", "pending", "ok", "unavailable"}]
NoCall == [op |-> "none", sid |-> 0, exp |-> 0, res |-> "none"]

\* What lies at `path`: nothing, something loadFromDisk refuses, or a document.
Document == [st: {"missing", "corrupt", "doc"}, epoch: Nat, sessions: [Sid -> Nat]]
Missing  == [st |-> "missing", epoch |-> 0, sessions |-> Empty]
Corrupt  == [st |-> "corrupt", epoch |-> 0, sessions |-> Empty]
Snapshot == [st |-> "doc", epoch |-> epoch, sessions |-> sessions]

TypeOK ==
    /\ now \in Nat
    /\ up \in BOOLEAN /\ initialized \in BOOLEAN /\ healthy \in BOOLEAN
    /\ epoch \in Nat
    /\ sessions \in [Sid -> Nat]
    /\ queue \in Seq(Slot)
    /\ pc \in {"idle", "write", "rename", "dirsync"}
    /\ call \in [Slot -> CallRecord]
    /\ file \in Document /\ durable \in Document
    /\ synced \in BOOLEAN
    /\ usedEpochs \subseteq Nat
    /\ issued \subseteq Sid
    /\ told \subseteq [sid: Sid, exp: Nat]
    /\ granted \subseteq told
    /\ leaving \subseteq Sid
    /\ revoked \subseteq Sid

-----------------------------------------------------------------------------
\* assertUsable and isHealthy.
Usable == initialized /\ healthy

\* Requests are served once the startup call has resolved.
Listening == up /\ call[Boot].res = "ok"

Members(m) == {s \in Sid : m[s] # 0}
Live(m, s) == m[s] > now

\* add() first drops the records that have expired.
Pruned == [s \in Sid |-> IF Live(sessions, s) THEN sessions[s] ELSE 0]

\* A re-added session needs no room.
HasRoom(s) == Pruned[s] # 0 \/ Cardinality(Members(Pruned)) < MaxSessions

\* has(sid, exp): synchronous and in memory.
Has(s, exp) == Usable /\ sessions[s] # 0 /\ sessions[s] = exp

\* getEpoch(): null unless the store is usable.
GetEpoch == IF Usable THEN epoch ELSE 0

-----------------------------------------------------------------------------
(* Calls: an unusable store rejects at once, otherwise the operation joins *)
(* the writer chain.                                                       *)

Request(c, op, s, exp, mustBeUsable) ==
    /\ call[c] = NoCall
    /\ IF mustBeUsable => Usable
       THEN /\ queue' = Append(queue, c)
            /\ call' = [call EXCEPT ![c] =
                          [op |-> op, sid |-> s, exp |-> exp, res |-> "pending"]]
       ELSE /\ call' = [call EXCEPT ![c] =
                          [op |-> op, sid |-> s, exp |-> exp, res |-> "unavailable"]]
            /\ UNCHANGED queue
    /\ UNCHANGED <<now, up, epoch, sessions, initialized, healthy, pc, disk>>

\* issueSessionToken generates a fresh sid and fixes the expiry at the call.
CallAdd(c, s) ==
    /\ Listening
    /\ s \notin issued
    /\ issued' = issued \cup {s}
    /\ Request(c, "add", s, now + Lifetime, TRUE)
    /\ UNCHANGED <<told, granted, leaving, revoked>>

\* revokeSessionToken removes the sid of a cookie that verifies: one somebody
\* was told of, whatever has happened to the storage since.
CallRemove(c, s) ==
    /\ Listening
    /\ \E k \in told : k.sid = s /\ Has(s, k.exp) /\ k.exp > now
    /\ Request(c, "remove", s, 0, TRUE)
    /\ leaving' = leaving \cup {s}
    /\ UNCHANGED <<issued, told, granted, revoked>>

\* initialize() as the explicit recovery step.
CallInit(c) ==
    /\ Listening
    /\ Request(c, "init", 0, 0, FALSE)
    /\ UNCHANGED history

\* The caller consumes the settled promise.
Return(c) ==
    /\ call[c].res \in {"ok", "full", "unavailable"}
    /\ call' = [call EXCEPT ![c] = NoCall]
    /\ UNCHANGED <<now, up, epoch, sessions, initialized, healthy, queue, pc, disk, history>>

-----------------------------------------------------------------------------
(* The writer: the head of the chain runs, the others wait for it.         *)

Head1 == Head(queue)
Running(op) == up /\ queue # <<>> /\ call[Head1].op = op

Settle(res) ==
    /\ call' = [call EXCEPT ![Head1].res = res]
    /\ queue' = Tail(queue)

\* Prune the expired, enforce the cap, publish in memory, then persist.
StartAdd ==
    /\ Running("add") /\ pc = "idle"
    /\ LET s == call[Head1].sid IN
       \/ /\ ~Usable
          /\ Settle("unavailable")
          /\ UNCHANGED <<sessions, pc>>
       \/ /\ Usable /\ ~HasRoom(s)
          /\ sessions' = Pruned
          /\ Settle("full")
          /\ UNCHANGED pc
       \/ /\ Usable /\ HasRoom(s)
          /\ sessions' = [Pruned EXCEPT ![s] = call[Head1].exp]
          /\ pc' = "write"
          /\ UNCHANGED <<call, queue>>
    /\ UNCHANGED <<now, up, epoch, initialized, healthy, disk, history>>

StartRemoveMemoryOnly ==
    /\ Running("remove") /\ pc = "idle" /\ Usable
    /\ sessions' = [sessions EXCEPT ![call[Head1].sid] = 0]
    /\ revoked' = revoked \cup {call[Head1].sid}
    /\ Settle("ok")
    /\ UNCHANGED <<now, up, epoch, initialized, healthy, pc, disk, issued, told, granted, leaving>>

StartRemove ==
    /\ Running("remove") /\ pc = "idle"
    /\ LET s == call[Head1].sid IN
       \/ /\ ~Usable
          /\ Settle("unavailable")
          /\ UNCHANGED <<sessions, pc, revoked>>
       \/ /\ Usable /\ sessions[s] = 0
          /\ Settle("ok")
          /\ revoked' = revoked \cup {s}
          /\ UNCHANGED <<sessions, pc>>
       \/ /\ Usable /\ sessions[s] # 0
          /\ sessions' = [sessions EXCEPT ![s] = 0]
          /\ pc' = "write"
          /\ UNCHANGED <<call, queue, revoked>>
    /\ UNCHANGED <<now, up, epoch, initialized, healthy, disk, issued, told, granted, leaving>>

LoadDocumentEpochOnly ==
    /\ Running("init") /\ pc = "idle" /\ file.st = "doc"
    /\ epoch' = file.epoch
    /\ initialized' = TRUE /\ healthy' = TRUE
    /\ Settle("ok")
    /\ UNCHANGED <<now, up, sessions, pc, disk, history>>

\* loadFromDisk of a document it accepts.
LoadDocument ==
    /\ Running("init") /\ pc = "idle"
    /\ file.st = "doc"
    /\ epoch' = file.epoch
    /\ sessions' = file.sessions
    /\ initialized' = TRUE
    /\ healthy' = TRUE
    /\ Settle("ok")
    /\ UNCHANGED <<now, up, pc, disk, history>>

\* A genuinely missing file: fresh random epoch, empty allowlist, persist.
LoadMissing ==
    /\ Running("init") /\ pc = "idle"
    /\ file.st = "missing"
    /\ \E e \in 1..MaxEpoch : e \notin usedEpochs /\ epoch' = e
    /\ sessions' = Empty
    /\ pc' = "write"
    /\ UNCHANGED <<now, up, initialized, healthy, queue, call, disk, history>>

\* Anything corrupt, or a read error: the call rejects, nothing is replaced.
LoadRefused ==
    /\ Running("init") /\ pc = "idle"
    /\ Settle("unavailable")
    /\ IF file.st = "corrupt"
       THEN epoch' = 0 /\ sessions' = Empty
       ELSE UNCHANGED <<epoch, sessions>>
    /\ UNCHANGED <<now, up, initialized, healthy, pc, disk, history>>

WriteWithoutRename ==
    /\ up /\ pc = "write"
    /\ pc' = "dirsync"
    /\ UNCHANGED <<now, up, epoch, sessions, initialized, healthy, queue, call, disk, history>>

\* persistSnapshot: temporary file, rename, directory fsync.
WriteTemporary ==
    /\ up /\ pc = "write"
    /\ pc' = "rename"
    /\ UNCHANGED <<now, up, epoch, sessions, initialized, healthy, queue, call, disk, history>>

Rename ==
    /\ up /\ pc = "rename"
    /\ file' = Snapshot
    /\ usedEpochs' = usedEpochs \cup {epoch}
    /\ pc' = "dirsync"
    /\ UNCHANGED <<now, up, epoch, sessions, initialized, healthy, queue, call,
                   durable, synced, history>>

\* The directory fsync is best effort: its failure is swallowed.
DirSync ==
    /\ up /\ pc = "dirsync"
    /\ \/ durable' = file /\ synced' = TRUE
       \/ synced' = FALSE /\ UNCHANGED durable
    /\ pc' = "idle"
    /\ Settle("ok")
    /\ LET k == call[Head1] IN
       /\ initialized' = (initialized \/ k.op = "init")
       /\ healthy' = (healthy \/ k.op = "init")
       /\ IF k.op = "add"
          THEN /\ told' = told \cup {[sid |-> k.sid, exp |-> k.exp]}
               /\ granted' = granted \cup {[sid |-> k.sid, exp |-> k.exp]}
          ELSE UNCHANGED <<told, granted>>
       /\ revoked' = IF k.op = "remove" THEN revoked \cup {k.sid} ELSE revoked
    /\ UNCHANGED <<now, up, epoch, sessions, file, usedEpochs, issued, leaving>>

PersistFailsHealthy ==
    /\ up /\ pc \in {"write", "rename"}
    /\ pc' = "idle"
    /\ Settle("unavailable")
    /\ UNCHANGED <<now, up, epoch, sessions, initialized, healthy, disk, history>>

PersistFailsUnanswered ==
    /\ up /\ pc \in {"write", "rename"}
    /\ healthy' = FALSE /\ initialized' = TRUE
    /\ pc' = "idle"
    /\ queue' = Tail(queue)
    /\ UNCHANGED <<now, up, epoch, sessions, call, disk, history>>

PersistFails ==
    /\ up /\ pc \in {"write", "rename"}
    /\ healthy' = FALSE
    /\ initialized' = TRUE
    /\ pc' = "idle"
    /\ Settle("unavailable")
    /\ UNCHANGED <<now, up, epoch, sessions, disk, history>>

Writer == \/ StartAdd \/ StartRemove \/ LoadDocument \/ LoadMissing \/ LoadRefused
          \/ WriteTemporary \/ Rename \/ DirSync \/ PersistFails

-----------------------------------------------------------------------------
(* The process and its storage.                                            *)

Forget ==
    /\ up' = FALSE
    /\ epoch' = 0
    /\ sessions' = Empty
    /\ initialized' = FALSE
    /\ healthy' = FALSE
    /\ queue' = <<>>
    /\ pc' = "idle"
    /\ call' = [c \in Slot |-> NoCall]

\* startup() calls initialize() before it listens.
BootProcess ==
    /\ ~up
    /\ up' = TRUE
    /\ queue' = <<Boot>>
    /\ call' = [call EXCEPT ![Boot] =
                  [op |-> "init", sid |-> 0, exp |-> 0, res |-> "pending"]]
    /\ UNCHANGED <<now, epoch, sessions, initialized, healthy, pc, disk, history>>

\* A failed initialization ends the process.
ExitAtBoot ==
    /\ up /\ call[Boot].res = "unavailable"
    /\ Forget
    /\ UNCHANGED <<now, disk, history>>

Crash ==
    /\ up
    /\ Forget
    /\ UNCHANGED <<now, disk, history>>

\* A rename whose directory was not synced may be undone.  Where the fsync
\* was swallowed nothing is promised about answers given since.
PowerLoss ==
    /\ up
    /\ Forget
    /\ file' \in {file, durable}
    /\ durable' = file'
    /\ synced' = TRUE
    /\ IF synced THEN UNCHANGED <<granted, revoked>>
                 ELSE granted' = {} /\ revoked' = {}
    /\ UNCHANGED <<now, usedEpochs, issued, told, leaving>>

\* Ephemeral storage is replaced, or the document is damaged, between two
\* processes.  The sessions it held are gone.
LoseStorage ==
    /\ ~up
    /\ Cardinality(usedEpochs) < MaxEpoch
    /\ \E d \in {Missing, Corrupt} : file # d /\ file' = d /\ durable' = d
    /\ synced' = TRUE
    /\ granted' = {}
    /\ UNCHANGED <<now, process, usedEpochs, issued, told, leaving, revoked>>

Tick ==
    /\ now < MaxNow
    /\ now' = now + 1
    /\ UNCHANGED <<process, disk, history>>

-----------------------------------------------------------------------------
Init ==
    /\ now = 1
    /\ up = FALSE
    /\ epoch = 0 /\ sessions = Empty
    /\ initialized = FALSE /\ healthy = FALSE
    /\ queue = <<>> /\ pc = "idle"
    /\ call = [c \in Slot |-> NoCall]
    /\ file = Missing /\ durable = Missing /\ synced = TRUE
    /\ usedEpochs = {}
    /\ issued = {} /\ told = {} /\ granted = {} /\ leaving = {} /\ revoked = {}

Next ==
    \/ \E c \in Caller :
          \/ \E s \in Sid : CallAdd(c, s) \/ CallRemove(c, s)
          \/ CallInit(c)
          \/ Return(c)
    \/ Writer
    \/ BootProcess \/ ExitAtBoot \/ Crash \/ PowerLoss \/ LoseStorage
    \/ Tick

\* The event loop keeps running the writer: its I/O settles one way or the other.
Fairness == WF_vars(Writer)

Spec == Init /\ [][Next]_vars /\ Fairness
=============================================================================
