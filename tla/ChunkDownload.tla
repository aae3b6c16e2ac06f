----------------------------- MODULE ChunkDownload -----------------------------
(***************************************************************************)
(* One offline download in one browser tab, from startDownload() to its    *)
(* settlement (runDownload in src/frontend/js/services/offlineService.js): *)
(* a file is fetched as byte ranges, each committed to IndexedDB with its  *)
(* metadata, and resumed after pauses and reloads.  The file on the server *)
(* may change between any two requests.                                    *)
(*                                                                         *)
(* A version of the file is a record [name, total, etag, lm]; a stored     *)
(* chunk remembers the version its bytes came from, which the program does *)
(* not see.  The claim on the video, cancellation and other tabs are left  *)
(* to OfflineOwnership.  Waiting times, progress events, the MIME type     *)
(* and titles are left out.                                                *)
(***************************************************************************)
EXTENDS Integers, FiniteSets

CONSTANTS
    Version,            \* what the server may serve
    Scenario,           \* bound: which of them one behaviour has, and whether
                        \* a read of the store may fail before a download or a
                        \* pause, as [serves, misreads]
    StrongEtag,         \* the entity tags without W/
    Null,               \* an absent header, field or total
    ChunkBytes,         \* CHUNK_BYTES
    MaxChunkAttempts,   \* MAX_CHUNK_ATTEMPTS
    MaxSourceRestarts,  \* MAX_SOURCE_RESTARTS
    LegacyBytes,        \* the length of the copy of the first release
    OldStores           \* what earlier releases left in IndexedDB: sets of
                        \* [db |-> the record, chunks |-> its chunks]

Header == {Null} \cup {v.etag : v \in Version} \cup {v.lm : v \in Version}
Length == {Null} \cup Nat

Chunk == [index : Nat, start : Nat, end : Nat, ver : Version]

VideoRecord ==
    [status : {"downloading", "paused", "ready"}, completed : Nat, count : Nat,
     total : Nat, etag : Header, lm : Header]

Operation ==
    [offset : Nat, next : Nat, total : Length, etag : Header, lm : Header,
     restarts : 0..MaxSourceRestarts, attempt : 0..(MaxChunkAttempts - 1), auth : BOOLEAN]

Response == [ver : Version, end : Nat]

\* Chunks lie in the order of their numbers, side by side where the numbers
\* follow each other, and the first begins with the file.
Laid(S) ==
    \A c, d \in S :
        /\ c.index = d.index => c = d
        /\ c.index < d.index => c.end < d.start
        /\ d.index = c.index + 1 <=> d.start = c.end + 1
        /\ c.index = 0 <=> c.start = 0

ASSUME ChunkAssumption ==
    /\ \A v \in Version : v.total \in Nat
    /\ \A s \in Scenario : s.serves \subseteq Version /\ s.misreads \in BOOLEAN
    /\ ChunkBytes \in Nat \ {0}
    /\ MaxChunkAttempts \in Nat \ {0}
    /\ MaxSourceRestarts \in Nat
    /\ LegacyBytes \in Nat
    /\ Null \notin Nat /\ Null \notin StrongEtag /\ Null \notin VideoRecord

\* Earlier releases downloaded one file too, and did not finish; some of the
\* chunks may be lost.
ASSUME OldStoresAssumption ==
    \A s \in OldStores :
        /\ s.db \in VideoRecord /\ s.db.status # "ready"
        /\ s.chunks \subseteq Chunk /\ IsFiniteSet(s.chunks) /\ Laid(s.chunks)
        /\ \A c \in s.chunks :
              /\ c.start <= c.end /\ c.end < s.db.total /\ c.index < s.db.count
              /\ c.ver.total = s.db.total /\ c.ver.etag = s.db.etag /\ c.ver.lm = s.db.lm

VARIABLES
    cur,        \* the version the server serves now
    db,         \* the video's record in VIDEOS_STORE, or Null
    chunks,     \* its chunks in CHUNKS_STORE
    pc,         \* the next transaction or request of the operation
    op,         \* the local variables of runDownload and requestChunk
    resp,       \* the accepted response that is not committed yet
    inherited,  \* chunks the last operation began with and did not delete
    scenario,   \* the scenario of this behaviour
    misread     \* a failed read was taken for an absent record, and the chunks
                \* of that record have not been deleted since

vars == <<cur, db, chunks, pc, op, resp, inherited, misread, scenario>>

Bytes(S)   == UNION {c.start .. c.end : c \in S}
Known(t)   == IF t = 0 THEN Null ELSE t
Stored(t)  == IF t = Null THEN 0 ELSE t
Smaller(a, b) == IF a < b THEN a ELSE b

FreshOp == [offset |-> 0, next |-> 0, total |-> Null, etag |-> Null, lm |-> Null,
            restarts |-> 0, attempt |-> 0, auth |-> FALSE]

Record(status, o) ==
    [status |-> status, completed |-> o.offset, count |-> o.next,
     total |-> Stored(o.total), etag |-> o.etag, lm |-> o.lm]

TypeOK ==
    /\ scenario \in Scenario /\ cur \in scenario.serves
    /\ db \in VideoRecord \cup {Null}
    /\ chunks \subseteq Chunk /\ \A c \in chunks : c.start <= c.end
    /\ \A c, d \in chunks : c.index = d.index => c = d
    /\ pc \in {"idle", "repair", "wipe", "meta", "request", "gate", "reset", "write",
               "check", "ready", "pause"}
    /\ op \in Operation
    /\ resp \in Response
    /\ misread \in BOOLEAN

-----------------------------------------------------------------------------
(* Starting: what the stored chunks prove.                                 *)

\* loadValidatedChunks: the chunks in order of their starts, up to the first
\* that does not begin where the one before it ends.
Before(c, d)  == c.start < d.start \/ (c.start = d.start /\ c.index < d.index)
Tiles(S, n)   == Bytes(S) = 0..(n - 1) /\ \A c, d \in S : c # d => Bytes({c}) \cap Bytes({d}) = {}
Validated(S)  == {c \in S : Tiles({d \in S : Before(d, c)}, c.start)}

\* Records claimed that nothing proves.
Damaged(o) ==
    IF o.next > 0 THEN db.completed > o.offset \/ db.count > o.next ELSE db.count > 0

Complete(o) ==
    db.status = "ready" /\ db.total > 0 /\ o.offset = db.total /\ o.next > 0

\* Chunks are there, but no validator to compare the file with.
Unproven(o) == o.offset > 0 /\ o.etag = Null /\ o.lm = Null

AfterRepair(o) ==
    IF Complete(o) THEN "idle" ELSE IF Unproven(o) THEN "wipe" ELSE "meta"

LoadTrustingCounters ==
    /\ pc = "idle"
    /\ inherited' = chunks
    /\ op' = IF db = Null THEN FreshOp
             ELSE [FreshOp EXCEPT !.offset = db.completed, !.next = db.count,
                     !.total = Known(db.total), !.etag = db.etag, !.lm = db.lm]
    /\ pc' = IF db = Null THEN "meta" ELSE AfterRepair(op')
    /\ UNCHANGED <<cur, db, chunks, resp, misread, scenario>>

\* Existing metadata and chunks are read before any write.
Load ==
    /\ pc = "idle"
    /\ LET valid == Validated(chunks) IN
       op' = IF db = Null THEN FreshOp
             ELSE [FreshOp EXCEPT !.offset = Cardinality(Bytes(valid)), !.next = Cardinality(valid),
                     !.total = Known(db.total), !.etag = db.etag, !.lm = db.lm]
    /\ pc' = IF db = Null THEN "meta" ELSE IF Damaged(op') THEN "repair" ELSE AfterRepair(op')
    /\ inherited' = IF pc' = "idle" THEN inherited ELSE chunks
    /\ UNCHANGED <<cur, db, chunks, resp, misread, scenario>>

\* A failed read of the record counts as no record.
LoadWithoutRecord ==
    /\ pc = "idle" /\ scenario.misreads /\ db # Null
    /\ inherited' = chunks
    /\ op' = FreshOp
    /\ pc' = "meta"
    /\ misread' = TRUE
    /\ UNCHANGED <<cur, db, chunks, resp, scenario>>

\* Without the chunks the operation fails before it begins.
LoadFails ==
    /\ pc = "idle" /\ scenario.misreads
    /\ pc' = "pause"
    /\ op' = FreshOp
    /\ UNCHANGED <<cur, db, chunks, resp, inherited, misread, scenario>>

RepairFromStart ==
    /\ pc = "repair"
    /\ chunks' = {}
    /\ pc' = AfterRepair(op)
    /\ UNCHANGED <<cur, db, op, resp, inherited, misread, scenario>>

\* repairTrailingChunks from the first byte that is not proved.
Repair ==
    /\ pc = "repair"
    /\ chunks' = {c \in chunks : c.start < op.offset}
    /\ inherited' = chunks'
    /\ pc' = AfterRepair(op)
    /\ UNCHANGED <<cur, db, op, resp, misread, scenario>>

Wipe ==
    /\ pc = "wipe"
    /\ chunks' = {} /\ inherited' = {} /\ misread' = FALSE
    /\ op' = FreshOp
    /\ pc' = "meta"
    /\ UNCHANGED <<cur, db, resp, scenario>>

\* The loop of runDownload: a copy that is whole already is checked.
Loop(o) ==
    IF o.offset = o.total THEN "check"
    ELSE IF o.total # Null /\ o.offset > o.total THEN "pause" ELSE "request"

PutMeta ==
    /\ pc = "meta"
    /\ db' = Record("downloading", op)
    /\ pc' = Loop(op)
    /\ UNCHANGED <<cur, chunks, op, resp, inherited, misread, scenario>>

-----------------------------------------------------------------------------
(* One chunk.                                                              *)

ChangedIgnoringWeak(v) ==
    \/ op.etag # Null /\ v.etag # Null /\ v.etag # op.etag
       /\ (op.etag \in StrongEtag \/ v.etag \in StrongEtag)
    \/ op.etag \in StrongEtag /\ v.etag = Null
    \/ op.total # Null /\ v.total # op.total

\* representationChanged
Changed(v) ==
    \/ /\ op.etag # Null /\ v.etag # Null /\ v.etag # op.etag
       /\ op.etag \in StrongEtag \/ v.etag \in StrongEtag
    \/ op.etag \in StrongEtag /\ v.etag = Null
    \/ op.total # Null /\ v.total # op.total
    \/ /\ op.etag \notin StrongEtag
       /\ op.lm # Null /\ v.lm # Null /\ v.lm # op.lm
       /\ op.etag = Null \/ v.etag = Null \/ op.etag = v.etag

RestartUnbounded(v) ==
    /\ pc' = "reset" /\ op' = op
    /\ resp' = [ver |-> v, end |-> 0]

\* One clean restart per operation.
Restart(v) ==
    IF op.restarts >= MaxSourceRestarts
    THEN pc' = "pause" /\ UNCHANGED <<op, resp>>
    ELSE /\ pc' = "reset"
         /\ op' = [op EXCEPT !.restarts = @ + 1]
         /\ resp' = [ver |-> v, end |-> 0]

\* A 206 that begins where it was asked to and ends there or earlier.
PartialContent(e) ==
    LET last == IF op.total = Null THEN op.offset + ChunkBytes - 1
                ELSE Smaller(op.offset + ChunkBytes, op.total) - 1 IN
    /\ pc = "request"
    /\ e \in op.offset .. Smaller(last, cur.total - 1)
    /\ IF Changed(cur) THEN Restart(cur)
       ELSE /\ pc' = "write"
            /\ op' = [op EXCEPT !.total = cur.total, !.attempt = 0, !.auth = FALSE,
                        !.etag = IF cur.etag = Null THEN @ ELSE cur.etag,
                        !.lm = IF cur.lm = Null THEN @ ELSE cur.lm]
            /\ resp' = [ver |-> cur, end |-> e]
    /\ UNCHANGED <<cur, db, chunks, inherited, misread, scenario>>

\* A 416: the file ends before the range.
Unsatisfied ==
    /\ pc = "request"
    /\ op.offset >= cur.total
    /\ IF op.total = Null
       THEN /\ IF cur.total = 0 /\ op.offset = 0
               THEN pc' = "check" /\ op' = [op EXCEPT !.total = 0]
               ELSE pc' = "pause" /\ UNCHANGED op
            /\ UNCHANGED resp
       ELSE IF op.total = cur.total THEN pc' = "pause" /\ UNCHANGED <<op, resp>>
       ELSE Restart(cur)
    /\ UNCHANGED <<cur, db, chunks, inherited, misread, scenario>>

\* A transient failure is tried again a bounded number of times.
RequestRetried ==
    /\ pc = "request" /\ op.attempt < MaxChunkAttempts - 1
    /\ op' = [op EXCEPT !.attempt = @ + 1]
    /\ UNCHANGED <<cur, db, chunks, pc, resp, inherited, misread, scenario>>

\* The last attempt, a permanent failure, a 200, or a long Retry-After.
RequestFailed ==
    /\ pc = "request"
    /\ pc' = "pause"
    /\ UNCHANGED <<cur, db, chunks, op, resp, inherited, misread, scenario>>

\* The first 401 waits for the login gate and spends no attempt.
Unauthorized ==
    /\ pc = "request"
    /\ IF op.auth THEN pc' = "pause" /\ UNCHANGED op
       ELSE pc' = "gate" /\ op' = [op EXCEPT !.auth = TRUE]
    /\ UNCHANGED <<cur, db, chunks, resp, inherited, misread, scenario>>

LoggedIn ==
    /\ pc = "gate"
    /\ pc' = "request"
    /\ UNCHANGED <<cur, db, chunks, op, resp, inherited, misread, scenario>>

\* resetForNewRepresentation
Reset ==
    LET fresh == [FreshOp EXCEPT !.restarts = op.restarts, !.total = Known(resp.ver.total),
                    !.etag = resp.ver.etag, !.lm = resp.ver.lm] IN
    /\ pc = "reset"
    /\ chunks' = {} /\ inherited' = {} /\ misread' = FALSE
    /\ op' = fresh
    /\ db' = Record("downloading", fresh)
    /\ pc' = "request"
    /\ UNCHANGED <<cur, resp, scenario>>

\* writeOwnedChunkTransaction: the chunk and the record, or neither.
WriteChunk ==
    LET done == [op EXCEPT !.offset = resp.end + 1, !.next = @ + 1] IN
    /\ pc = "write"
    /\ chunks' = {c \in chunks : c.index # op.next} \cup
                 {[index |-> op.next, start |-> op.offset, end |-> resp.end, ver |-> resp.ver]}
    /\ op' = done
    /\ db' = Record("downloading", done)
    /\ pc' = Loop(done)
    /\ UNCHANGED <<cur, resp, inherited, misread, scenario>>

-----------------------------------------------------------------------------
(* Settling.                                                               *)

\* What is committed is read again before the video is called ready.
Check ==
    LET valid == Validated(chunks) IN
    /\ pc = "check"
    /\ pc' = IF \/ op.total = 0
                \/ /\ valid # {} /\ Cardinality(valid) = db.count
                   /\ Cardinality(Bytes(valid)) = op.total
             THEN "ready" ELSE "pause"
    /\ UNCHANGED <<cur, db, chunks, op, resp, inherited, misread, scenario>>

PutReady ==
    /\ pc = "ready"
    /\ db' = [db EXCEPT !.status = "ready", !.completed = op.total,
                !.count = IF op.total = 0 THEN 0 ELSE Cardinality(Validated(chunks)),
                !.total = op.total]
    /\ pc' = "idle"
    /\ UNCHANGED <<cur, chunks, op, resp, inherited, misread, scenario>>

\* pauseWithError: the record as it is stored, or a bare one.
Pause ==
    /\ pc = "pause"
    /\ db' = IF db = Null THEN Record("paused", FreshOp) ELSE [db EXCEPT !.status = "paused"]
    /\ pc' = "idle"
    /\ UNCHANGED <<cur, chunks, op, resp, inherited, misread, scenario>>

\* Where getDownload() cannot read the record, a bare one takes its place.
PauseUnread ==
    /\ pc = "pause" /\ scenario.misreads /\ db # Null
    /\ db' = Record("paused", FreshOp)
    /\ pc' = "idle"
    /\ misread' = TRUE
    /\ UNCHANGED <<cur, chunks, op, resp, inherited, scenario>>

\* Where there is none, it answers with that of a copy of the first release.
PauseLegacy ==
    /\ pc = "pause" /\ db = Null
    /\ db' = [Record("paused", FreshOp) EXCEPT !.completed = LegacyBytes, !.count = 1,
                                              !.total = LegacyBytes]
    /\ pc' = "idle"
    /\ UNCHANGED <<cur, chunks, op, resp, inherited, misread, scenario>>

\* A transaction aborts, for lack of space for example, or a read fails.
StorageFails ==
    /\ pc \in {"repair", "wipe", "meta", "reset", "write", "check", "ready", "pause"}
    /\ pc' = IF pc = "pause" THEN "idle" ELSE "pause"
    /\ UNCHANGED <<cur, db, chunks, op, resp, inherited, misread, scenario>>

\* The tab is closed or reloaded.
Reload ==
    /\ pc # "idle"
    /\ pc' = "idle"
    /\ UNCHANGED <<cur, db, chunks, op, resp, inherited, misread, scenario>>

\* removeDownload
Remove ==
    /\ pc = "idle" /\ db # Null
    /\ db' = Null
    /\ chunks' = {}
    /\ misread' = FALSE
    /\ UNCHANGED <<cur, pc, op, resp, inherited, scenario>>

SourceChanges ==
    /\ cur' \in scenario.serves \ {cur}
    /\ UNCHANGED <<db, chunks, pc, op, resp, inherited, misread, scenario>>

Init ==
    /\ scenario \in Scenario
    /\ cur \in scenario.serves
    /\ \E s \in OldStores \cup {[db |-> Null, chunks |-> {}]} : db = s.db /\ chunks = s.chunks
    /\ pc = "idle"
    /\ op = FreshOp
    /\ resp = [ver |-> cur, end |-> 0]
    /\ inherited = {}
    /\ misread = FALSE

Step ==
    \/ Repair \/ Wipe \/ PutMeta
    \/ \E e \in 0..(op.offset + ChunkBytes - 1) : PartialContent(e)
    \/ Unsatisfied \/ RequestRetried \/ RequestFailed \/ Unauthorized
    \/ Reset \/ WriteChunk \/ Check \/ PutReady \/ Pause \/ StorageFails

Next ==
    \/ Load \/ LoadWithoutRecord \/ LoadFails \/ Step \/ PauseUnread \/ PauseLegacy
    \/ LoggedIn \/ Reload \/ Remove \/ SourceChanges

\* Transactions end, and a request is answered or fails at a deadline.
Spec == Init /\ [][Next]_vars /\ WF_vars(Step)

-----------------------------------------------------------------------------
(* What an offline copy promises.                                          *)

\* The service compares each response with what the ones before it told: the
\* total and a strong ETag never change unnoticed, nor is a strong ETag lost;
\* Last-Modified counts where the ETags do not tell.  (An ETag that a file did
\* not have before goes unnoticed, and so do a weak ETag and Last-Modified that
\* both change.)
OtherFile(v, w) ==
    \/ v.total # w.total
    \/ v.etag \notin {Null, w.etag} /\ (v.etag \in StrongEtag \/ w.etag \in StrongEtag)
OlderFile(v, w) ==
    /\ v.etag \notin StrongEtag /\ w.etag \in {Null, v.etag}
    /\ v.lm # Null /\ w.lm # Null /\ v.lm # w.lm

Ready == db # Null /\ db.status = "ready"

\* A ready video is whole, and its bytes are those of one file as far as the
\* validators of the responses tell.  (A download that misread the record
\* promises nothing here or below: it writes over the metadata of chunks it
\* does not know of.)  Bytes of an interrupted download are among them only
\* where there was a validator to compare the later responses with.
ReadyUniform ==
    /\ TypeOK
    /\ Ready /\ ~misread =>
        /\ Bytes(chunks) = 0..(db.total - 1)
        /\ \A c, d \in chunks :
              /\ c.start < d.start => ~OtherFile(c.ver, d.ver)
              /\ d.start = c.end + 1 => ~OlderFile(c.ver, d.ver)
        /\ inherited \cap chunks # {} => db.etag # Null \/ db.lm # Null

\* Progress is what is committed, never what a counter says: a request
\* begins right after the last byte in the store.
OffsetIsCommitted ==
    pc \in {"request", "gate", "write"} /\ ~misread =>
        /\ Bytes(chunks) = 0..(op.offset - 1)
        /\ {c.index : c \in chunks} = 0..(op.next - 1)

\* Pauses, failures and reloads keep what is committed.  Proved bytes go
\* when the video is removed, when there is no validator, or when a
\* response came from another version than they did.
KeepsCommitted ==
    [][ \/ Validated(chunks) \subseteq chunks' \/ misread
        \/ Remove
        \/ pc = "wipe" /\ op.etag = Null /\ op.lm = Null
        \/ pc = "reset" /\ \E c \in chunks : c.ver # resp.ver ]_vars

\* An operation settles, or waits for the household to log in, however
\* often the file changes.
Settles == pc \notin {"idle", "gate"} ~> pc \in {"idle", "gate"}
=============================================================================
