----------------------------- MODULE OfflinePlayback -----------------------------
(***************************************************************************)
(* Playing the offline copy of a video in the page that downloads and      *)
(* removes it (offlinePlayUrl, playLegacyBlobUrl, revokeOfflineUrl and     *)
(* removeDownload in src/frontend/js/services/offlineService.js).          *)
(*                                                                         *)
(* A playback URL keeps the blob it was made from, so that it plays on     *)
(* when the records are deleted; it is handed out again and again until it *)
(* is revoked.  Here it is the set of the chunks it was made from, or      *)
(* Legacy, the monolithic copy of a first release.  One removal is under   *)
(* way at a time.                                                          *)
(***************************************************************************)
EXTENDS ChunkDownload

CONSTANTS
    PlayCall,  \* calls of offlinePlayUrl that may be under way together
    Legacy     \* the content of a URL of the legacy copy

ASSUME LegacyAssumption == Legacy \notin Chunk

VARIABLES
    legacy,    \* LEGACY_BLOBS_STORE has a valid row of the video
    urlCache,  \* the URL of the video: [of |-> its content, overlapped]
    play,      \* the calls of offlinePlayUrl
    removal    \* the transaction that a removal waits for

playVars == <<legacy, urlCache, play, removal>>

Call   == [pc : {"idle", "chunks", "legacy"}, total : Nat, overlapped : BOOLEAN]
NoCall == [pc |-> "idle", total |-> 0, overlapped |-> FALSE]
NoUrl  == [of |-> {}, overlapped |-> FALSE]

Calling(p) == play[p].pc # "idle"

-----------------------------------------------------------------------------
(* offlinePlayUrl.  A call is overlapped when a removal is under way at    *)
(* some moment of it (history).                                            *)

\* A cached URL is handed out.  Otherwise the record is read.
PlayReadsRecord(p) ==
    /\ ~Calling(p) /\ urlCache = NoUrl
    /\ play' = [play EXCEPT ![p] =
                  [pc |-> IF db # Null /\ db.status = "ready" /\ db.total > 0
                          THEN "chunks" ELSE "legacy",
                   total |-> IF db = Null THEN 0 ELSE db.total,
                   overlapped |-> removal # "no"]]
    /\ UNCHANGED <<vars, legacy, urlCache, removal>>

Cache(p, content) ==
    /\ urlCache' = [of |-> content, overlapped |-> play[p].overlapped]
    /\ play' = [play EXCEPT ![p] = NoCall]

\* The chunks cover the total of the record.
Covers(p, valid) == valid # {} /\ Bytes(valid) = 0..(play[p].total - 1)

\* The chunks are read and joined, if they are the whole file.
PlayReadsChunks(p) ==
    /\ play[p].pc = "chunks"
    /\ IF Covers(p, Validated(chunks))
       THEN Cache(p, Validated(chunks))
       ELSE play' = [play EXCEPT ![p].pc = "legacy"] /\ UNCHANGED urlCache
    /\ UNCHANGED <<vars, legacy, removal>>

\* playLegacyBlobUrl
PlayReadsLegacy(p) ==
    /\ play[p].pc = "legacy"
    /\ IF legacy THEN Cache(p, {Legacy})
       ELSE play' = [play EXCEPT ![p] = NoCall] /\ UNCHANGED urlCache
    /\ UNCHANGED <<vars, legacy, removal>>

\* A read fails: nothing to play.
PlayFails(p) ==
    /\ Calling(p)
    /\ play' = [play EXCEPT ![p] = NoCall]
    /\ UNCHANGED <<vars, legacy, urlCache, removal>>

-----------------------------------------------------------------------------
(* removeDownload, with no operation under way.                            *)

Overlap(calls) == [p \in PlayCall |-> [calls[p] EXCEPT !.overlapped = calls[p].pc # "idle"]]

\* A defect, not in the specification: the URL outlives what it was made of.
RemoveDataKeepsUrl ==
    /\ removal = "no"
    /\ Remove
    /\ removal' = "legacy"
    /\ play' = Overlap(play)
    /\ UNCHANGED <<legacy, urlCache>>

\* deleteVideoDataFenced: the URL is revoked in the transaction that deletes
\* the record and the chunks.
RemoveData ==
    /\ removal = "no"
    /\ \/ Remove
       \/ pc = "idle" /\ db = Null /\ legacy /\ UNCHANGED vars
    /\ urlCache' = NoUrl
    /\ removal' = "legacy"
    /\ play' = Overlap(play)
    /\ UNCHANGED legacy

\* The transaction aborts.  The URL is gone already.
RemoveFails ==
    /\ removal = "no" /\ pc = "idle"
    /\ urlCache' = NoUrl
    /\ UNCHANGED <<vars, legacy, play, removal>>

\* deleteLegacyBlobRecord: best effort.
RemoveLegacy ==
    /\ removal = "legacy"
    /\ removal' = "no"
    /\ legacy' \in {FALSE, legacy}
    /\ UNCHANGED <<vars, urlCache, play>>

-----------------------------------------------------------------------------
\* The cache and the calls go with the page.
ReloadPage ==
    /\ \/ Reload
       \/ pc = "idle" /\ UNCHANGED vars
    /\ urlCache' = NoUrl /\ removal' = "no"
    /\ play' = [p \in PlayCall |-> NoCall]
    /\ UNCHANGED legacy

PlaybackTypeOK ==
    /\ legacy \in BOOLEAN /\ removal \in {"no", "legacy"}
    /\ urlCache.overlapped \in BOOLEAN
    /\ play \in [PlayCall -> Call]

PlaybackInit ==
    /\ legacy \in BOOLEAN
    /\ urlCache = NoUrl /\ removal = "no"
    /\ play = [p \in PlayCall |-> NoCall]

PlaybackNext ==
    \/ /\ \/ Load \/ LoadWithoutRecord \/ LoadFails \/ Step \/ LoggedIn \/ SourceChanges
          \/ PauseUnread
          \/ PauseLegacy /\ legacy
       /\ UNCHANGED playVars
    \/ \E p \in PlayCall : PlayReadsRecord(p) \/ PlayReadsChunks(p) \/ PlayReadsLegacy(p)
                       \/ PlayFails(p)
    \/ RemoveData \/ RemoveFails \/ RemoveLegacy \/ ReloadPage

PlaybackSpec == Init /\ PlaybackInit /\ [][PlaybackNext]_<<vars, playVars>>

-----------------------------------------------------------------------------
\* What is played is the copy that the store has, whole and of one file as far
\* as validators tell, so that nothing removed is played.  A removal during the
\* call leaves its URL behind, for it is cached when the removal has revoked
\* what there was; and when the video is downloaded again between the two reads
\* of the call, its URL may have the beginning of a longer file.  (Where reads
\* fail, a start may pause a ready copy and download it again, and the URL that
\* was cached stays: nothing is said of that.)
PlaysWhatIsStored ==
    /\ PlaybackTypeOK
    /\ urlCache # NoUrl /\ ~scenario.misreads =>
        \/ /\ urlCache.of = {Legacy}
           /\ legacy \/ urlCache.overlapped
        \/ /\ Legacy \notin urlCache.of
           /\ Bytes(urlCache.of) = 0..(Cardinality(Bytes(urlCache.of)) - 1)
           /\ \A c, d \in urlCache.of : c.start < d.start => ~OtherFile(c.ver, d.ver)
           /\ \/ urlCache.overlapped
              \/ Ready /\ urlCache.of = chunks /\ Bytes(chunks) = 0..(db.total - 1)
=============================================================================
