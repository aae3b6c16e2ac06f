------------------------------ MODULE VideoPlayer ------------------------------
(***************************************************************************)
(* The watch page (src/frontend/js/components/videoPlayer.js): one media   *)
(* element whose source is replaced when a video opens, by a change of     *)
(* quality, by retries and by the offline copy, while metadata, errors,    *)
(* diagnostics, session renewals and reads of the offline copy arrive late.*)
(*                                                                         *)
(* The generation counter is in what a change of it drops: the listener    *)
(* (aim), the diagnostic and the session renewal of an earlier attempt do  *)
(* nothing, so only those of the present one are kept.  The element and    *)
(* the viewer are external, modelled as the module uses them.  The states  *)
(* PLAYING and BUFFERING are entered by the watchdog only from each other, *)
(* so the recovery of a stalled stream, which needs them, has no action.   *)
(***************************************************************************)
EXTENDS Integers

CONSTANTS
    Video,        \* videos
    NoVideo,      \* no video, no source
    MaxPos        \* bound: positions of a video are 0..MaxPos

ASSUME PlayerOptions == NoVideo \notin Video /\ MaxPos \in Nat \ {0}

VARIABLES
    page,         \* the module's state and the watch page
    el,           \* the media element
    aim,          \* the loadedmetadata listener of the present attempt
    diagnosis,    \* "none", "probing", its request at the "login" gate, or
                  \* "renewing" the session after it
    reading,      \* the video whose offline copy playOfflineCopy() awaits
    viewer        \* history: the place reached in the video, and how it may be lost

playerVars == <<page, el, aim, diagnosis, reading, viewer>>

NoAim  == [of |-> NoVideo, target |-> 0, play |-> FALSE]
NoPage == [video |-> NoVideo, shown |-> FALSE, offline |-> FALSE, state |-> "idle", url |-> NoVideo,
           desired |-> 0, retried |-> FALSE, pacing |-> FALSE, startup |-> "none",
           watchdog |-> FALSE, hidden |-> FALSE, notice |-> "none"]
\* An element on which src was just set.  asked: its play() was refused, and
\* nobody was told yet; load() drops that promise.  moved: it advanced since.
Source(v) == [src |-> v, loaded |-> FALSE, paused |-> TRUE, asked |-> FALSE, pos |-> 0,
              broken |-> FALSE, moved |-> FALSE]

-----------------------------------------------------------------------------
\* replaceSourcePreservingState(), with the startSteadyWatchdog() every caller
\* runs next.  p is the page as the caller leaves it; a desired time of 0 is
\* replaced by the position of the element, whatever its source is.
ReplaceSource(p, v, desiredTime, play) ==
    /\ page' = [p EXCEPT !.state = IF play THEN "starting" ELSE "paused",
                         !.startup = IF play THEN "running" ELSE "none", !.watchdog = TRUE]
    /\ el' = Source(v)
    /\ aim' = [of |-> v, target |-> IF desiredTime = 0 THEN el.pos ELSE desiredTime, play |-> play]
    /\ diagnosis' = "none"

\* openVideoPlayer().  A card's offline copy is opened after an await, so this
\* may happen while another video is on the page.
OpenStream(v) ==
    /\ ReplaceSource([page EXCEPT !.video = v, !.shown = TRUE, !.offline = FALSE, !.url = v, !.desired = 0,
                                  !.retried = FALSE, !.notice = "none"], v, 0, TRUE)
    /\ viewer' = [seen |-> 0, blind |-> el.pos > 0, strayed |-> FALSE]
    /\ UNCHANGED reading

OpenOffline(v) ==
    /\ ReplaceSource([page EXCEPT !.video = v, !.shown = TRUE, !.offline = TRUE, !.url = NoVideo,
                                  !.desired = 0, !.notice = "none"], v, 0, TRUE)
    /\ viewer' = [seen |-> 0, blind |-> el.pos > 0, strayed |-> FALSE]
    /\ UNCHANGED reading

\* closeVideoPlayer()
Close ==
    /\ page.shown
    /\ page' = [page EXCEPT !.video = NoVideo, !.shown = FALSE, !.offline = FALSE, !.state = "idle",
                            !.url = NoVideo, !.desired = 0, !.startup = "none", !.watchdog = FALSE,
                            !.notice = "none"]
    /\ el' = Source(NoVideo)
    /\ aim' = NoAim /\ diagnosis' = "none"
    /\ viewer' = [seen |-> 0, blind |-> FALSE, strayed |-> FALSE]
    /\ UNCHANGED reading

\* The callback of the quality sheet.
ChangeQuality ==
    /\ page.video # NoVideo
    /\ ReplaceSource([page EXCEPT !.offline = FALSE, !.url = page.video, !.desired = el.pos,
                                  !.notice = "none"],
                     page.video, el.pos, ~el.paused)
    /\ viewer' = [viewer EXCEPT !.blind = @ \/ ~el.loaded, !.strayed = FALSE]
    /\ UNCHANGED reading

-----------------------------------------------------------------------------
\* handleDownloadClick() on a ready download, up to the await of the URL.
ClickOffline ==
    /\ page.video # NoVideo /\ reading = NoVideo
    /\ reading' = page.video
    /\ UNCHANGED <<page, el, aim, diagnosis, viewer>>

\* playOfflineCopy() after the await: it does not ask which video is open.
PlayOfflineCopy ==
    /\ reading # NoVideo
    /\ reading' = NoVideo
    /\ ReplaceSource([page EXCEPT !.shown = TRUE, !.offline = TRUE, !.url = NoVideo, !.notice = "none"],
                     reading, 0, TRUE)
    /\ viewer' = [viewer EXCEPT !.blind = @ \/ ~el.loaded \/ reading # page.video,
                                 !.strayed = @ \/ reading # page.video]

NoOfflineCopy ==
    /\ reading # NoVideo
    /\ reading' = NoVideo
    /\ UNCHANGED <<page, el, aim, diagnosis, viewer>>

-----------------------------------------------------------------------------
LastBefore(end, target) == IF target < end THEN target ELSE end - 1

\* onLoadedMetadata(): the position is restored, as far as the source can be
\* played, and playback is asked for.  A source that ends before the place of
\* the viewer moves them to its end; one that has nothing, or that comes under
\* the message of a failure, loses the place.
LoadedMetadata(allowed, end) ==
    /\ el.src # NoVideo /\ ~el.loaded /\ ~el.broken
    /\ aim' = NoAim
    /\ LET acts  == aim # NoAim /\ page.video \in {NoVideo, aim.of}
           plays == acts /\ aim.play
       IN  /\ el' = [el EXCEPT !.loaded = TRUE, !.asked = ~allowed,
                               !.pos = IF acts THEN LastBefore(end, aim.target) ELSE 0,
                               !.paused = IF plays THEN ~allowed ELSE @]
           /\ ~allowed => plays
    /\ viewer' = IF viewer.seen < end THEN viewer
                 ELSE [viewer EXCEPT !.seen = end - 1, !.blind = @ \/ end = 1 \/ page.notice = "retry"]
    /\ UNCHANGED <<page, diagnosis, reading>>

\* The NotAllowedError of play() is heard: its callback asks for nothing.
PlayRefused ==
    /\ el.asked /\ ~el.broken
    /\ el' = [el EXCEPT !.asked = FALSE]
    /\ page' = [page EXCEPT !.state = "paused", !.notice = "play"]
    /\ UNCHANGED <<aim, diagnosis, reading, viewer>>

\* The element plays, or the viewer seeks.
Advance(p) ==
    /\ el.loaded /\ ~el.paused /\ ~el.broken /\ p # el.pos
    /\ el' = [el EXCEPT !.pos = p, !.moved = TRUE]
    /\ viewer' = IF viewer.strayed THEN viewer ELSE [viewer EXCEPT !.seen = p, !.blind = page.notice = "retry"]
    /\ UNCHANGED <<page, aim, diagnosis, reading>>

PausePlayback ==
    /\ el.loaded /\ ~el.paused
    /\ el' = [el EXCEPT !.paused = TRUE]
    /\ UNCHANGED <<page, aim, diagnosis, reading, viewer>>

Play ==
    /\ el.src # NoVideo /\ el.paused /\ ~el.broken
    /\ el' = [el EXCEPT !.paused = FALSE]
    /\ UNCHANGED <<page, aim, diagnosis, reading, viewer>>

-----------------------------------------------------------------------------
WithoutPosition(p) == p

\* The position every failure path stores.
WithPosition(p) == IF el.pos > 0 THEN [p EXCEPT !.desired = el.pos] ELSE p

\* handleStreamError(): one automatic retry of a stream, then a diagnosis.
\* closeVideoPlayer() takes the handler off.
AutoRetry ==
    LET p == [WithPosition(page) EXCEPT !.retried = TRUE] IN
    /\ page.video # NoVideo /\ el.src # NoVideo /\ ~el.broken
    /\ ~page.retried /\ page.url # NoVideo /\ ~page.offline
    /\ ReplaceSource(p, page.url, p.desired, TRUE)
    /\ UNCHANGED <<reading, viewer>>

StreamError ==
    /\ page.video # NoVideo /\ el.src # NoVideo /\ ~el.broken
    /\ page.retried \/ page.url = NoVideo \/ page.offline
    /\ el' = [el EXCEPT !.broken = TRUE]
    /\ LET p == [WithPosition(page) EXCEPT !.watchdog = FALSE]
       IN  IF page.url = NoVideo
           THEN /\ page' = [p EXCEPT !.state = "failed", !.notice = "retry"]
                /\ UNCHANGED diagnosis
           ELSE /\ page' = p
                /\ diagnosis' = "probing"
    /\ UNCHANGED <<aim, reading, viewer>>

ProbeShowsExpiryOnly(unauthorized) ==
    /\ diagnosis = "probing"
    /\ page' = IF unauthorized THEN [page EXCEPT !.state = "failed", !.notice = "retry"] ELSE page
    /\ diagnosis' = IF unauthorized THEN "renewing" ELSE "none"
    /\ UNCHANGED <<el, aim, reading, viewer>>

\* The request of the diagnosis is answered 401 and stands at the login gate,
\* which has no deadline; after the login it is sent again.
ProbeUnauthorized ==
    /\ diagnosis = "probing"
    /\ diagnosis' = "login"
    /\ UNCHANGED <<page, el, aim, reading, viewer>>

ProbeLoggedIn ==
    /\ diagnosis = "login"
    /\ diagnosis' = "probing"
    /\ UNCHANGED <<page, el, aim, reading, viewer>>

\* classifyStreamFailure() settles: every kind of failure, a healthy transport
\* too, is shown with a button to retry.
ProbeSettles(unauthorized) ==
    /\ diagnosis = "probing"
    /\ page' = [page EXCEPT !.state = "failed", !.notice = "retry"]
    /\ diagnosis' = IF unauthorized THEN "renewing" ELSE "none"
    /\ UNCHANGED <<el, aim, reading, viewer>>

\* retryCurrentStream(), at most once in three seconds.
RetryCurrentStream ==
    /\ page.url # NoVideo /\ ~page.pacing
    /\ ReplaceSource([page EXCEPT !.notice = "none", !.retried = FALSE, !.pacing = TRUE],
                     page.url, page.desired, TRUE)
    /\ UNCHANGED <<reading, viewer>>

RetryClick == page.notice = "retry" /\ RetryCurrentStream

SessionRenewed == diagnosis = "renewing" /\ RetryCurrentStream

SessionNotRenewed ==
    /\ diagnosis = "renewing"
    /\ diagnosis' = "none"
    /\ UNCHANGED <<page, el, aim, reading, viewer>>

PacingOver ==
    /\ page.pacing
    /\ page' = [page EXCEPT !.pacing = FALSE]
    /\ UNCHANGED <<el, aim, diagnosis, reading, viewer>>

-----------------------------------------------------------------------------
\* The startup budget runs out, and the watchdog finds it so: failPlayback().
BudgetEnds ==
    /\ page.startup = "running"
    /\ page' = [page EXCEPT !.startup = "over"]
    /\ UNCHANGED <<el, aim, diagnosis, reading, viewer>>

Watchdog ==
    /\ page.watchdog /\ page.shown /\ ~page.offline
    /\ ~el.paused /\ ~page.hidden
    /\ page.state = "starting" /\ page.startup = "over"
    /\ page' = [WithPosition(page) EXCEPT !.watchdog = FALSE, !.state = "failed", !.startup = "none",
                                    !.notice = "retry"]
    /\ el' = [el EXCEPT !.paused = TRUE]
    /\ UNCHANGED <<aim, diagnosis, reading, viewer>>

\* visibilitychange: a budget that ran out in the background gets a poll more.
Hide ==
    /\ ~page.hidden
    /\ page' = [page EXCEPT !.hidden = TRUE]
    /\ UNCHANGED <<el, aim, diagnosis, reading, viewer>>

Show ==
    /\ page.hidden
    /\ page' = [page EXCEPT !.hidden = FALSE, !.startup = IF @ = "none" THEN @ ELSE "running"]
    /\ UNCHANGED <<el, aim, diagnosis, reading, viewer>>

-----------------------------------------------------------------------------
PlayerInit ==
    /\ page = NoPage /\ el = Source(NoVideo) /\ aim = NoAim
    /\ diagnosis = "none" /\ reading = NoVideo
    /\ viewer = [seen |-> 0, blind |-> FALSE, strayed |-> FALSE]

PlayerNext ==
    \/ \E v \in Video : OpenStream(v) \/ OpenOffline(v)
    \/ Close
    \/ ChangeQuality
    \/ ClickOffline
    \/ PlayOfflineCopy
    \/ NoOfflineCopy
    \/ \E allowed \in BOOLEAN, end \in 1..(MaxPos + 1) : LoadedMetadata(allowed, end)
    \/ PlayRefused
    \/ \E p \in 1..MaxPos : Advance(p)
    \/ PausePlayback
    \/ Play
    \/ AutoRetry
    \/ StreamError
    \/ ProbeUnauthorized
    \/ ProbeLoggedIn
    \/ \E unauthorized \in BOOLEAN : ProbeSettles(unauthorized)
    \/ RetryClick
    \/ SessionRenewed
    \/ SessionNotRenewed
    \/ PacingOver
    \/ BudgetEnds
    \/ Watchdog
    \/ Hide
    \/ Show

\* The diagnostic request carries its own deadline, the login gate does not: no
\* fairness for ProbeLoggedIn.
PlayerFairness == WF_playerVars(\E unauthorized \in BOOLEAN : ProbeSettles(unauthorized))

PlayerSpec == PlayerInit /\ [][PlayerNext]_playerVars /\ PlayerFairness

-----------------------------------------------------------------------------
PlayerTypeOK ==
    /\ page.video \in Video \cup {NoVideo} /\ page.desired \in 0..MaxPos
    /\ page.state \in {"idle", "starting", "paused", "failed"}
    /\ page.startup \in {"none", "running", "over"} /\ page.notice \in {"none", "retry", "play"}
    /\ el.src \in Video \cup {NoVideo} /\ el.pos \in 0..MaxPos
    /\ aim.of \in Video \cup {NoVideo} /\ aim.target \in 0..MaxPos
    /\ diagnosis \in {"none", "probing", "login", "renewing"} /\ reading \in Video \cup {NoVideo}

\* The viewer stays where they were, in the video they opened.  Through any
\* sequence of failures, automatic and manual retries, watchdog failures and
\* changes of quality, the element has the source of the video on the page and
\* comes back at the position that was reached in it, or at the end of a source
\* that became shorter.  Not so, by the history ("blind"): after a video was
\* opened over another, whose position it takes over; after the viewer changed
\* the quality or took the offline copy before the metadata came, although the
\* page may remember the place then; after the viewer went on under the message
\* of a failure; and after a source that has nothing.  The offline copy of a
\* video that was left may come late and is played in the other's place
\* ("strayed").
PlaceKept ==
    /\ PlayerTypeOK
    /\ ~page.shown => el.src = NoVideo /\ page.video = NoVideo
    /\ page.shown /\ ~viewer.strayed => el.src = page.video /\ page.url \in {NoVideo, page.video}
    /\ el.loaded /\ ~viewer.blind /\ ~viewer.strayed => el.pos = viewer.seen

\* A media error is never silent: the page shows a message with a button to
\* retry, or the login gate covers it, unless the source was replaced or the
\* page closed in the meantime.
ErrorsAnswered ==
    (page.video # NoVideo /\ el.broken) ~>
        (page.notice = "retry" \/ diagnosis = "login" \/ ~el.broken \/ page.video = NoVideo)

\* "A finite startup budget [...] spans metadata resolution + first progress"
\* (videoPlayer.js, header): once the source has advanced it does not fail.
StartupOnly == [][Watchdog => ~el.moved]_playerVars
=============================================================================
