---------------------------- MODULE SessionStoreProps ----------------------------
(***************************************************************************)
(* What the session store promises (src/services/sessionStore.ts header).  *)
(***************************************************************************)
EXTENDS SessionStore

\* A document holds s until the record expires.
Holds(d, s, exp) == d.st = "doc" /\ d.sessions[s] = exp

\* A login whose add() resolved survives whatever happens next: until it
\* expires, its owner logs out or the storage is lost, the record is in the
\* document on disk, also in the one a power loss leaves behind.
GrantedDurable ==
    \A g \in granted : g.exp > now /\ g.sid \notin leaving =>
        /\ Holds(file, g.sid, g.exp)
        /\ synced => Holds(durable, g.sid, g.exp)

\* ... and it verifies in every process that can serve it: after restarts,
\* after recovery by initialize(), while other sessions are added and removed.
GrantedVerifies ==
    \A g \in granted : g.exp > now /\ g.sid \notin leaving /\ Usable => Has(g.sid, g.exp)

\* A logout whose remove() resolved is final: the sid is in no unexpired
\* record in memory or on disk, so no restart brings the cookie back.
RevokedGone ==
    \A s \in revoked :
        /\ ~Live(sessions, s)
        /\ ~Live(file.sessions, s)
        /\ synced => ~Live(durable.sessions, s)

\* With the writer idle a usable store and its document agree on the epoch
\* and on every unexpired record, whatever failed or was rejected before.
MemoryMatchesDisk ==
    Usable /\ pc = "idle" =>
        /\ file.st = "doc" /\ file.epoch = epoch
        /\ \A s \in Sid : Live(sessions, s) \/ Live(file.sessions, s) =>
                             sessions[s] = file.sessions[s]

\* The cap holds in memory and in every document, so that a store reloaded
\* from disk is within it too.
WithinCap ==
    /\ Cardinality(Members(sessions)) <= MaxSessions
    /\ Cardinality(Members(file.sessions)) <= MaxSessions
    /\ Cardinality(Members(durable.sessions)) <= MaxSessions

\* A full store rejects a login, it never evicts: while the process runs an
\* unexpired record changes only by its own login or logout, or when a
\* recovery reloads a document that has it otherwise.
NoEviction ==
    [][\A s \in Sid :
         up /\ up' /\ Live(sessions, s) /\ sessions'[s] # sessions[s] =>
            /\ queue # <<>>
            /\ \/ call[Head1].op \in {"add", "remove"} /\ call[Head1].sid = s
               \/ call[Head1].op = "init" /\ sessions'[s] = file.sessions[s]]_vars

\* A server never replaces a document it refuses to read: only the operator
\* removes it.
CorruptionKept == [][up /\ file.st = "corrupt" => file' = file]_vars

\* Retained storage keeps its epoch over any number of crashes, restarts and
\* failed writes: cookies are invalidated together only by lost storage.
EpochRetained ==
    [][file.st = "doc" /\ file'.st = "doc" => file'.epoch = file.epoch]_vars

\* Every call is answered, or the process dies: a failed or rejected
\* operation never blocks the chain behind it.
CallsSettle ==
    \A c \in Caller : call[c].res = "pending" ~> call[c].res # "pending"

-----------------------------------------------------------------------------
(* The inductive invariant behind the properties.                          *)

\* One writer: the chain holds each unanswered call once, and only the head
\* of a running process has an operation in progress.
SerialWriter ==
    /\ ~up => ~initialized /\ ~healthy /\ queue = <<>> /\ call = [c \in Slot |-> NoCall]
    /\ pc # "idle" => up /\ queue # <<>>
    /\ \A i \in 1..Len(queue) : call[queue[i]].res = "pending"
    /\ \A i, j \in 1..Len(queue) : i # j => queue[i] # queue[j]

\* A sid is added by one call, before anybody can have it removed.
FreshSids ==
    /\ \A c \in Slot :
          /\ call[c].op = "add" => call[c].sid \in issued
          /\ call[c].op = "add" /\ call[c].res = "pending" =>
                /\ call[c].sid \notin leaving
                /\ \A k \in told : k.sid # call[c].sid
          /\ call[c].op = "remove" => call[c].sid \in leaving
    /\ \A c, d \in Slot :
          c # d /\ call[c].op = "add" /\ call[d].op = "add" => call[c].sid # call[d].sid
    /\ \A k \in told : k.sid \in issued
    /\ leaving \subseteq issued
    /\ revoked \subseteq leaving

\* Two allowlists disagree on a record that has not expired in both.
Differ(m, n, s) == (Live(m, s) \/ Live(n, s)) /\ m[s] # n[s]

\* What memory knows of the document: an operation in progress accounts for
\* the one record on which they differ.
Persistence ==
    /\ file.st # "doc" => file.sessions = Empty
    /\ durable.st # "doc" => durable.sessions = Empty
    /\ file.st # "doc" => durable = file
    /\ durable.st = "doc" => file.epoch = durable.epoch
    /\ Usable => file.st = "doc" /\ file.epoch = epoch
    /\ pc # "idle" =>
          LET k == call[Head1] IN
          /\ k.op \in {"add", "remove", "init"}
          /\ k.op = "add" => Usable /\ sessions[k.sid] = k.exp
          /\ k.op = "remove" => Usable /\ sessions[k.sid] = 0
          /\ k.op = "init" => ~Usable
          /\ IF pc = "dirsync" THEN file = Snapshot
             ELSE /\ k.op = "init" => file.st = "missing" /\ sessions = Empty
                  /\ k.op # "init" =>
                        \A s \in Sid \ {k.sid} : ~Differ(sessions, file.sessions, s)

\* What a power loss can undo: a login nobody was told of, or a logout that
\* was interrupted and that nobody can repeat in this process.
Undoable ==
    synced => \A s \in Sid : Differ(durable.sessions, file.sessions, s) =>
        /\ \/ \A k \in told : k.sid # s
           \/ s \in leaving /\ ~Live(file.sessions, s)
        /\ pc # "dirsync" =>
              \A c \in Slot : ~(call[c].op = "remove" /\ call[c].res = "pending"
                                 /\ call[c].sid = s)

IInv == /\ TypeOK /\ SerialWriter /\ FreshSids /\ Persistence /\ Undoable
        /\ GrantedDurable /\ GrantedVerifies /\ RevokedGone /\ MemoryMatchesDisk
=============================================================================
