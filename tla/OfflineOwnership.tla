---------------------------- MODULE OfflineOwnership ----------------------------
(***************************************************************************)
(* The offline copy of one video, started, cancelled and removed from      *)
(* several tabs (startDownload, cancelDownload, removeDownload and the     *)
(* durable ownership record in src/frontend/js/services/offlineService.js).*)
(*                                                                         *)
(* A step is one IndexedDB transaction, or one answer from the server.     *)
(* Transactions a tab has created run in their order: todo holds those     *)
(* that are not part of the running operation.  Heartbeats are abstracted  *)
(* to whether the claim is fresh; it grows stale only when its tab is gone *)
(* or frozen.  A chunk is its index: what it holds and how the file is     *)
(* compared with it is the subject of ChunkDownload.  A transaction may     *)
(* fail, as often as the scenario allows: what each caller makes of that   *)
(* is told with the steps that fail.                                       *)
(***************************************************************************)
EXTENDS Integers, Sequences, FiniteSets

CONSTANTS
    Tab,
    Scenario       \* bound: what one behaviour has, as
                   \* [tabs     |-> the tabs that have the video open,
                   \*  chunks   |-> number of chunks of the whole file,
                   \*  waiting  |-> calls that may wait for one operation,
                   \*  reloads  |-> how often tabs are reloaded,
    \*  failures |-> how many transactions fail,
                   \*  freezing |-> whether tabs may be frozen (bfcache, background)]

ASSUME OwnershipAssumption ==
    /\ IsFiniteSet(Tab)
    /\ Scenario \subseteq [tabs : SUBSET Tab, chunks : Nat \ {0}, waiting : Nat, reloads : Nat,
                           failures : Nat, freezing : BOOLEAN]

VARIABLES
    owner,      \* who the ownership record names: a tab, "gone", or "none"
    fresh,      \* its heartbeat is younger than OWNER_LIVENESS_MS
    rec,        \* the video's record, status "none" when there is none
    chunks,     \* the indices in CHUNKS_STORE
    op,         \* each tab's operation
    waiting,    \* calls that await operation.done
    todo,       \* transactions a tab has created beside its operation
    last,       \* the last thing the user asked of the tab and was not refused
    frozen,
    reloads,
    failures,   \* transactions that have failed
    scenario    \* the scenario of this behaviour

vars == <<owner, fresh, rec, chunks, op, waiting, todo, last, frozen, reloads, failures, scenario>>
store == <<owner, fresh, rec, chunks>>
calls == <<waiting, todo, last, frozen, reloads>>

Chunks == scenario.chunks

NoRecord == [status |-> "none", count |-> 0, proof |-> FALSE]
NoOp     == [pc |-> "idle", count |-> 0, proof |-> FALSE, aborted |-> FALSE, seen |-> NoRecord]

RecordType ==
    [status : {"none", "downloading", "paused", "ready"}, count : 0..Chunks, proof : BOOLEAN]

TypeOK ==
    /\ owner \in Tab \cup {"gone", "none"} /\ fresh \in BOOLEAN
    /\ rec \in RecordType
    /\ chunks \subseteq 0..(Chunks - 1)
    /\ op \in [Tab -> [pc : {"idle", "own1", "own2", "claim", "bail", "load", "wipe", "meta",
                             "fetch", "login", "refetch", "write", "check", "ready",
                             "pause1", "pause2"},
                       count : 0..Chunks, proof : BOOLEAN, aborted : BOOLEAN, seen : RecordType]]
    /\ \A t \in Tab :
          /\ \A i \in 1..Len(waiting[t]) : waiting[t][i] \in {"cancel", "start"}
          /\ \A i \in 1..Len(todo[t]) : todo[t][i] \in {"release", "delete", "own1"}
          /\ waiting[t] # <<>> => op[t].aborted
          /\ op[t].pc = "own1" <=> \E i \in 1..Len(todo[t]) : todo[t][i] = "own1"
    /\ last \in [Tab -> {"none", "start", "cancel"}]
    /\ frozen \in [Tab -> BOOLEAN]
    /\ scenario \in Scenario
    /\ reloads \in 0..scenario.reloads /\ failures \in 0..scenario.failures

\* One tab has the video to itself.
Alone == Cardinality(scenario.tabs) = 1

\* What was last asked is kept where CancelWins speaks of it.
Said(t, what) == last' = IF Alone THEN [last EXCEPT ![t] = what] ELSE last

\* isForeignOwner
ForeignForEver(t) == owner \notin {t, "none"}
Foreign(t) == owner \notin {t, "none"} /\ fresh

-----------------------------------------------------------------------------
(* Calls.                                                                  *)

Free(t) == op[t].pc = "idle"
NewOp   == [NoOp EXCEPT !.pc = "own1"]

\* A start registers its operation at once; while a cancelled one is still
\* settling, it waits.  A second start of a running download does nothing.
Start(t) ==
    /\ ~frozen[t]
    /\ IF Free(t)
       THEN /\ op' = [op EXCEPT ![t] = NewOp]
            /\ todo' = [todo EXCEPT ![t] = Append(@, "own1")]
            /\ UNCHANGED waiting
       ELSE /\ op[t].aborted /\ Len(waiting[t]) < scenario.waiting
            /\ waiting' = [waiting EXCEPT ![t] = Append(@, "start")]
            /\ UNCHANGED <<op, todo>>
    /\ Said(t, "start")
    /\ UNCHANGED <<store, frozen, reloads>>

\* cancelDownload, and removeDownload, which is the same: abort, await the
\* settlement, delete.
Cancel(t) ==
    /\ ~frozen[t]
    /\ IF Free(t)
       THEN /\ Len(todo[t]) < scenario.waiting
            /\ todo' = [todo EXCEPT ![t] = Append(@, "delete")]
            /\ UNCHANGED <<op, waiting>>
       ELSE /\ Len(waiting[t]) < scenario.waiting
            /\ op' = [op EXCEPT ![t].aborted = TRUE]
            /\ waiting' = [waiting EXCEPT ![t] = Append(@, "cancel")]
            /\ UNCHANGED todo
    /\ Said(t, "cancel")
    /\ UNCHANGED <<store, frozen, reloads>>

-----------------------------------------------------------------------------
(* Settlement: the calls that waited go on in the order they came.         *)

\* Only the first start among them registers an operation; a cancel goes on
\* to its delete without looking at the operations again.  Up to that start all
\* go on, so it keeps its place; behind it only cancels do.
Continue(w) ==
    LET first(i) == i \in 1..Len(w) /\ w[i] = "start" /\ \A j \in 1..(i - 1) : w[j] = "cancel"
        kept     == {i \in 1..Len(w) : w[i] = "cancel" \/ first(i)}
    IN  [i \in 1..Cardinality(kept) |-> IF first(i) THEN "own1" ELSE "delete"]

\* A cancel behind a start: it deletes what the start's operation has not yet
\* written, and the download goes on.  The word counts as refused (history).
Overtaken(w) ==
    \E i, j \in 1..Len(w) : i < j /\ w[i] = "start" /\ w[j] = "cancel"

SettleForgetful(t, before) ==
    /\ op' = [op EXCEPT ![t] = NoOp]
    /\ waiting' = [waiting EXCEPT ![t] = <<>>]
    /\ todo' = [todo EXCEPT ![t] = before]
    /\ UNCHANGED <<last, frozen, reloads>>

Settle(t, before) ==
    LET next == Continue(waiting[t]) IN
    /\ op' = [op EXCEPT ![t] = IF \E i \in 1..Len(next) : next[i] = "own1" THEN NewOp ELSE NoOp]
    /\ waiting' = [waiting EXCEPT ![t] = <<>>]
    /\ todo' = [todo EXCEPT ![t] = before \o next]
    /\ Said(t, IF Overtaken(waiting[t]) THEN "none" ELSE last[t])
    /\ UNCHANGED <<frozen, reloads>>

Goto(t, pc) == op' = [op EXCEPT ![t].pc = pc] /\ UNCHANGED calls

\* The finalizer gives the claim back.
Done(t) == Settle(t, <<"release">>)

\* An error pauses the download, unless it was cancelled meanwhile.
Fails(t) == IF op[t].aborted THEN Done(t) ELSE Goto(t, "pause1")

-----------------------------------------------------------------------------
(* Transactions beside the operation.                                      *)

Active(t)      == ~frozen[t] /\ todo[t] = <<>>
Next1(t, what) == ~frozen[t] /\ todo[t] # <<>> /\ Head(todo[t]) = what
Pop(t)         == todo' = [todo EXCEPT ![t] = Tail(@)]

\* releaseOwnership: only ever our own record.
Release(t) ==
    /\ Next1(t, "release") /\ Pop(t)
    /\ IF owner = t THEN owner' = "none" /\ fresh' = FALSE ELSE UNCHANGED <<owner, fresh>>
    /\ UNCHANGED <<rec, chunks, op, waiting, last, frozen, reloads>>

\* deleteVideoDataFenced: refused while another live context owns the video.
Delete(t) ==
    /\ Next1(t, "delete") /\ Pop(t)
    /\ IF Foreign(t) THEN Said(t, "none") /\ UNCHANGED store
       ELSE /\ rec' = NoRecord /\ chunks' = {}
            /\ owner' = "none" /\ fresh' = FALSE
            /\ UNCHANGED last
    /\ UNCHANGED <<op, waiting, frozen, reloads>>

-----------------------------------------------------------------------------
(* The claim.                                                              *)

\* readOwnership
ReadOwnership(t) ==
    /\ Next1(t, "own1")
    /\ UNCHANGED store
    /\ IF Foreign(t) THEN Settle(t, Tail(todo[t]))
       ELSE /\ op' = [op EXCEPT ![t].pc = "own2"]
            /\ Pop(t)
            /\ UNCHANGED <<waiting, last, frozen, reloads>>

\* claimOwnership reads the record ...
ReadAgain(t) ==
    /\ Active(t) /\ op[t].pc = "own2"
    /\ UNCHANGED store
    /\ IF Foreign(t) THEN Settle(t, <<>>) ELSE Goto(t, "claim")

\* ... and writes its own in another transaction.
Claim(t) ==
    /\ Active(t) /\ op[t].pc = "claim"
    /\ owner' = t /\ fresh' = TRUE
    /\ UNCHANGED <<rec, chunks>>
    /\ Goto(t, IF op[t].aborted THEN "bail" ELSE "load")

\* Cancelled while the claim was being taken.
Bail(t) ==
    /\ Active(t) /\ op[t].pc = "bail"
    /\ IF owner = t THEN owner' = "none" /\ fresh' = FALSE ELSE UNCHANGED <<owner, fresh>>
    /\ UNCHANGED <<rec, chunks>>
    /\ Settle(t, <<>>)

-----------------------------------------------------------------------------
(* runDownload                                                             *)

\* loadValidatedChunks: how many chunks there are up to the first gap.
Prefix(S) == Cardinality({i \in S : 0..i \subseteq S})

Load(t) ==
    /\ Active(t) /\ op[t].pc = "load"
    /\ UNCHANGED store
    /\ LET n == IF rec.status = "none" THEN 0 ELSE Prefix(chunks) IN
       IF rec.status = "ready" /\ n = Chunks THEN Done(t)
       ELSE /\ op' = [op EXCEPT ![t].count = IF rec.proof THEN n ELSE 0, ![t].proof = rec.proof,
                        ![t].pc = IF \/ n > 0 /\ ~rec.proof
                                     \/ rec.count > n
                                  THEN "wipe" ELSE "meta"]
            /\ UNCHANGED calls

\* repairTrailingChunks: what is not proved goes.
Wipe(t) ==
    /\ Active(t) /\ op[t].pc = "wipe"
    /\ chunks' = {i \in chunks : i < op[t].count}
    /\ UNCHANGED <<owner, fresh, rec>>
    /\ Goto(t, "meta")

PutMeta(t) ==
    /\ Active(t) /\ op[t].pc = "meta"
    /\ rec' = [status |-> "downloading", count |-> op[t].count, proof |-> op[t].proof]
    /\ UNCHANGED <<owner, fresh, chunks>>
    /\ Goto(t, IF op[t].count = Chunks THEN "check" ELSE "fetch")

\* The server answers, or the request fails for good.
Fetched(t) ==
    /\ Active(t) /\ op[t].pc \in {"fetch", "refetch"}
    /\ UNCHANGED store
    /\ IF op[t].aborted THEN Done(t) ELSE Goto(t, "write")

FetchFails(t) ==
    /\ Active(t) /\ op[t].pc \in {"fetch", "refetch"}
    /\ UNCHANGED store
    /\ Fails(t)

\* The first 401 of a request goes to the login gate.  The second is for good.
Unauthorized(t) ==
    /\ Active(t) /\ op[t].pc = "fetch"
    /\ UNCHANGED store
    /\ IF op[t].aborted THEN Done(t) ELSE Goto(t, "login")

\* The gate is left by a login of the user, when he likes, or by an abort.
LoggedIn(t) ==
    /\ Active(t) /\ op[t].pc = "login" /\ ~op[t].aborted
    /\ UNCHANGED store
    /\ Goto(t, "refetch")

LeaveGate(t) ==
    /\ Active(t) /\ op[t].pc = "login" /\ op[t].aborted
    /\ UNCHANGED store
    /\ Done(t)

CommitNeedsClaim(t) ==
    /\ Active(t) /\ op[t].pc = "write" /\ owner = t
    /\ chunks' = chunks \cup {op[t].count}
    /\ rec' = [status |-> "downloading", count |-> op[t].count + 1, proof |-> TRUE]
    /\ op' = [op EXCEPT ![t].count = @ + 1, ![t].proof = TRUE,
                ![t].pc = IF op[t].count + 1 = Chunks THEN "check" ELSE "fetch"]
    /\ UNCHANGED <<owner, fresh, calls>>

\* writeOwnedChunkTransaction: the chunk and its record, if the claim is
\* still ours.
Commit(t) ==
    /\ Active(t) /\ op[t].pc = "write"
    /\ IF owner = t
       THEN /\ chunks' = chunks \cup {op[t].count}
            /\ rec' = [status |-> "downloading", count |-> op[t].count + 1, proof |-> TRUE]
            /\ op' = [op EXCEPT ![t].count = @ + 1, ![t].proof = TRUE,
                        ![t].pc = IF op[t].count + 1 = Chunks THEN "check" ELSE "fetch"]
            /\ UNCHANGED <<owner, fresh, calls>>
       ELSE UNCHANGED store /\ Fails(t)

\* The record and the coverage are read again ...
Check(t) ==
    /\ Active(t) /\ op[t].pc = "check"
    /\ UNCHANGED store
    /\ IF rec.status # "none" /\ Prefix(chunks) = Chunks /\ rec.count = Chunks
       THEN op' = [op EXCEPT ![t].pc = "ready", ![t].seen = rec] /\ UNCHANGED calls
       ELSE Fails(t)

\* ... before the copy is called ready, without looking at the claim.
PutReady(t) ==
    /\ Active(t) /\ op[t].pc = "ready"
    /\ rec' = [op[t].seen EXCEPT !.status = "ready", !.count = Chunks]
    /\ UNCHANGED <<owner, fresh, chunks>>
    /\ Done(t)

\* pauseWithError reads the record ...
PauseReads(t) ==
    /\ Active(t) /\ op[t].pc = "pause1"
    /\ UNCHANGED store
    /\ op' = [op EXCEPT ![t].pc = "pause2", ![t].seen = rec] /\ UNCHANGED calls

\* ... and writes it back as paused, a bare one if there was none.
PausePuts(t) ==
    /\ Active(t) /\ op[t].pc = "pause2"
    /\ rec' = [op[t].seen EXCEPT !.status = "paused"]
    /\ UNCHANGED <<owner, fresh, chunks>>
    /\ Done(t)

-----------------------------------------------------------------------------
(* Transactions that fail.                                                 *)

\* The release is given up: the record stays, and nothing renews it.
ReleaseFails(t) ==
    /\ UNCHANGED store
    /\ \/ Next1(t, "release") /\ Pop(t) /\ UNCHANGED <<op, waiting, last, frozen, reloads>>
       \/ Active(t) /\ op[t].pc = "bail" /\ Settle(t, <<>>)

\* The caller of a cancel or a removal is told of the failure.
DeleteFails(t) ==
    /\ Next1(t, "delete") /\ Pop(t) /\ Said(t, "none")
    /\ UNCHANGED <<store, op, waiting, frozen, reloads>>

\* A claim that cannot be read is none ...
OwnershipUnread(t) ==
    /\ UNCHANGED store
    /\ \/ /\ Next1(t, "own1") /\ Pop(t)
          /\ op' = [op EXCEPT ![t].pc = "own2"]
          /\ UNCHANGED <<waiting, last, frozen, reloads>>
       \/ Active(t) /\ op[t].pc = "own2" /\ Goto(t, "claim")

\* ... and one that cannot be written is not had.
ClaimFails(t) ==
    /\ Active(t) /\ op[t].pc = "claim"
    /\ UNCHANGED store
    /\ Settle(t, <<>>)

\* A record that cannot be read is none, for a start that resumes and for a
\* pause, which then leaves a bare one.
RecordUnread(t) ==
    /\ Active(t)
    /\ UNCHANGED store
    /\ \/ op[t].pc = "load" /\ Goto(t, "meta")
       \/ /\ op[t].pc = "pause1"
          /\ op' = [op EXCEPT ![t].pc = "pause2", ![t].seen = NoRecord] /\ UNCHANGED calls

\* The other transactions of a download fail it; a pause that cannot be
\* written is none.
DownloadFails(t) ==
    /\ Active(t)
    /\ UNCHANGED store
    /\ \/ op[t].pc \in {"load", "wipe", "meta", "write", "check", "ready"} /\ Fails(t)
       \/ op[t].pc = "pause2" /\ Done(t)

-----------------------------------------------------------------------------
(* Heartbeats, and what happens to tabs.                                   *)

\* A heartbeat runs from the claim to its release, also one that fails.
Beats(t) == op[t].pc \notin {"idle", "own1", "own2", "claim", "bail"}

Heartbeat(t) ==
    /\ ~frozen[t] /\ Beats(t)
    /\ owner = t /\ ~fresh
    /\ fresh' = TRUE
    /\ UNCHANGED <<owner, rec, chunks, op, calls>>

Expire ==
    /\ fresh
    /\ owner = "gone" \/ (owner \in Tab /\ (frozen[owner] \/ ~Beats(owner)))
    /\ fresh' = FALSE
    /\ UNCHANGED <<owner, rec, chunks, op, calls>>

Freeze(t) ==
    /\ scenario.freezing /\ ~frozen[t]
    /\ frozen' = [frozen EXCEPT ![t] = TRUE]
    /\ UNCHANGED <<store, op, waiting, todo, last, reloads>>

Thaw(t) ==
    /\ frozen[t]
    /\ frozen' = [frozen EXCEPT ![t] = FALSE]
    /\ UNCHANGED <<store, op, waiting, todo, last, reloads>>

\* The page is closed, crashes or is loaded again as another context.
Reload(t) ==
    /\ reloads < scenario.reloads
    /\ op[t] # NoOp \/ todo[t] # <<>>
    /\ reloads' = reloads + 1
    /\ owner' = IF owner = t THEN "gone" ELSE owner
    /\ op' = [op EXCEPT ![t] = NoOp]
    /\ waiting' = [waiting EXCEPT ![t] = <<>>]
    /\ todo' = [todo EXCEPT ![t] = <<>>]
    /\ Said(t, "none")
    /\ frozen' = [frozen EXCEPT ![t] = FALSE]
    /\ UNCHANGED <<fresh, rec, chunks>>

-----------------------------------------------------------------------------
Init ==
    /\ scenario \in Scenario
    /\ owner = "none" /\ fresh = FALSE
    /\ rec = NoRecord /\ chunks = {}
    /\ op = [t \in Tab |-> NoOp]
    /\ waiting = [t \in Tab |-> <<>>]
    /\ todo = [t \in Tab |-> <<>>]
    /\ last = [t \in Tab |-> "none"]
    /\ frozen = [t \in Tab |-> FALSE]
    /\ reloads = 0 /\ failures = 0

Works(t) ==
    \/ Release(t) \/ Delete(t)
    \/ ReadOwnership(t) \/ ReadAgain(t) \/ Claim(t) \/ Bail(t)
    \/ Load(t) \/ Wipe(t) \/ PutMeta(t)
    \/ Fetched(t) \/ FetchFails(t) \/ Unauthorized(t) \/ LeaveGate(t)
    \/ Commit(t) \/ Check(t) \/ PutReady(t) \/ PauseReads(t) \/ PausePuts(t)

StorageFails(t) ==
    \/ ReleaseFails(t) \/ DeleteFails(t) \/ OwnershipUnread(t) \/ ClaimFails(t)
    \/ RecordUnread(t) \/ DownloadFails(t)

Step(t) ==
    /\ UNCHANGED scenario
    /\ \/ Works(t) /\ UNCHANGED failures
       \/ StorageFails(t) /\ failures < scenario.failures /\ failures' = failures + 1

Next ==
    \/ \E t \in scenario.tabs : Step(t)
    \/ /\ UNCHANGED <<scenario, failures>>
       /\ \/ \E t \in scenario.tabs : \/ Start(t) \/ Cancel(t) \/ LoggedIn(t) \/ Heartbeat(t)
                                        \/ Freeze(t) \/ Thaw(t) \/ Reload(t)
          \/ Expire

\* Transactions end, requests have deadlines, time passes.  A login has none.
Fairness ==
    /\ \A t \in Tab : WF_vars(Step(t))
    /\ WF_vars(Expire /\ UNCHANGED <<scenario, failures>>)

Spec == Init /\ [][Next]_vars /\ Fairness

-----------------------------------------------------------------------------
(* What the offline copies promise.                                        *)

\* A video called ready is whole, also after cancels and starts that crossed
\* each other, and the user's last word counts: once a tab has settled after
\* a cancel, nothing of the video is left, unless that cancel had to wait
\* behind a start that waited as well, or its caller was told that it failed.  This is about a tab alone: of several
\* that meet less holds, see AtMostOneClaimant.
CancelWins ==
    /\ TypeOK
    /\ Alone =>
        /\ rec.status = "ready" => chunks = 0..(Chunks - 1)
        /\ \A t \in Tab : last[t] = "cancel" /\ Free(t) /\ todo[t] = <<>> =>
                            rec = NoRecord /\ chunks = {}

\* The comment on claimOwnership: it returns false when another live
\* context owns the video, so two tabs never both believe they do.
AtMostOneClaimant ==
    LET claimed == {t \in Tab : op[t].pc \in {"load", "wipe", "meta", "fetch", "login", "refetch",
                                              "write"}} IN
    \A t, u \in claimed : t = u

\* Operations settle, cancelled ones too: the tab ends up with none, or
\* with the first step of one that was asked for meanwhile.  Only one that
\* nobody cancels may stand at the login gate, for as long as nobody logs in.
OperationSettles ==
    \A t \in Tab :
        op[t].pc \notin {"idle", "own1"} ~>
            \/ op[t].pc \in {"idle", "own1"} \/ frozen[t]
            \/ [](op[t].pc = "login" /\ ~op[t].aborted)

\* The claim of a tab that is gone does not lock the others out, also when
\* transactions fail meanwhile: if one keeps trying it becomes the owner.
NotLockedOut ==
    (\A t \in Tab : WF_vars(Start(t) /\ UNCHANGED <<scenario, failures>>)) => (owner = "gone" ~> owner # "gone")
=============================================================================
