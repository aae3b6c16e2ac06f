------------------------------- MODULE Page_proofs -------------------------------
(***************************************************************************)
(* Proofs about the page: the shell its service worker keeps, the place of *)
(* the viewer in a video, the feed on the screen, and the calls for an     *)
(* offline copy in its tabs.  The four share no state; each has its        *)
(* inductive invariant and one lemma per action.                           *)
(***************************************************************************)
EXTENDS HomeFeed, VideoPlayer, ServiceWorker, OfflineOwnership, FiniteSetTheorems,
        SequenceTheorems, TLAPS

-----------------------------------------------------------------------------
(* The service worker (src/frontend/sw.js).                                *)

Worker == [gen : 0..Releases, todo : SUBSET Path, listed : BOOLEAN, stale : SUBSET Generation]
Cache  == [Path -> -1..Releases]
Runtime == [there : BOOLEAN, files : SUBSET Path]
PutOf  == [gen : Generation, path : Path, cache : {"none", "open", "deleted"}]
OrNone == 0..Releases
TabOf  == [controller : OrNone, message : OrNone, last : OrNone, failed : BOOLEAN]

ShellShape ==
    /\ deployed \in Generation /\ worker \in 0..Releases
    /\ core \in [Generation -> Cache] /\ runtime \in [Generation -> Runtime]
    /\ puts \subseteq PutOf
    /\ installing \in Worker /\ activating \in Worker
    /\ tabs \in [Client -> TabOf]

\* What an installation has behind it is stored, unless its cache went.
Installs ==
    /\ ~installing.listed /\ installing.stale = {}
    /\ installing.gen # 0 =>
          /\ installing.gen # worker
          /\ installing.gen \notin overtaken =>
                \A p \in Path : /\ core[installing.gen][p] >= Missing
                                /\ p \notin installing.todo => core[installing.gen][p] > Missing

\* A cache is deleted or opened as a whole.
Whole == \A g \in Generation : core[g] = Absent \/ \A p \in Path : core[g][p] >= Missing

\* The worker that activates is the active one and never on its own list.
Activates ==
    activating.listed \/ activating.gen # 0 =>
        /\ activating.gen # 0 /\ worker = activating.gen
        /\ worker \notin activating.stale

Controlled == \A t \in Client : tabs[t].controller # 0 => worker # 0

Kept == worker \notin overtaken \cup {0} => \A p \in Path : core[worker][p] > Missing

NeverFailed == \A t \in Client : ~tabs[t].failed

ShellInv == ShellShape /\ Installs /\ Whole /\ Activates /\ Controlled /\ Kept /\ NeverFailed

LEMMA ShellInvGives == ShellInv => ShellComplete
BY ShellOptions
   DEF ShellInv, ShellShape, Kept, NeverFailed, ShellComplete, ShellTypeOK, Worker, Cache, Runtime, PutOf,
       TabOf, OrNone, Generation

LEMMA ShellInitSafe == ShellInit => ShellInv
<1> SUFFICES ASSUME ShellInit PROVE ShellInv
    OBVIOUS
<1>1. Absent \in Cache /\ NoCache \in Runtime
    BY ShellOptions DEF Absent, Cache, NoCache, Runtime
<1>2. ShellShape
    BY <1>1, ShellOptions DEF ShellShape, ShellInit, Generation, NoWorker, Worker, TabOf, OrNone
<1> QED
    BY <1>2 DEF ShellInit, ShellInv, Installs, Whole, Activates, Controlled, Kept, NeverFailed,
       NoWorker, Generation

LEMMA DeployKeeps == ASSUME ShellInv, Deploy PROVE ShellInv'
BY ShellOptions
   DEF Deploy, ShellInv, ShellShape, Installs, Whole, Activates, Controlled, Kept, NeverFailed,
       Generation, Worker, Cache, TabOf

\* A worker is found that is not the active one, which keeps its cache.
LEMMA UpdateKeeps == ASSUME ShellInv, Update PROVE ShellInv'
<1> USE DEF ShellInv
<1>1. core[deployed] \in Cache /\ Opened \in Cache /\ deployed \in 1..Releases
    BY ShellOptions DEF ShellShape, Generation, Cache, Opened, Missing
<1>2. installing' = [gen |-> deployed, todo |-> Path, listed |-> FALSE, stale |-> {}]
    BY DEF Update, NoWorker
<1>3. /\ core' \in [Generation -> Cache]
      /\ core'[deployed] = IF core[deployed] = Absent THEN Opened ELSE core[deployed]
      /\ \A g \in Generation : g # deployed => core'[g] = core[g]
    BY <1>1 DEF Update, ShellShape, Generation
<1>4. \A p \in Path : core'[deployed][p] >= Missing
    <2>1. CASE core[deployed] = Absent
        BY <1>3, <2>1 DEF Opened, Missing
    <2>2. CASE core[deployed] # Absent
        BY <1>1, <1>3, <2>2 DEF Whole, Generation
    <2> QED BY <2>1, <2>2
<1>5. ShellShape'
    BY <1>1, <1>2, <1>3, ShellOptions DEF Update, ShellShape, Worker
<1>6. deployed # worker
    BY DEF Update
<1>7. Installs'
    BY <1>2, <1>4, <1>6 DEF Update, Installs
<1>8. Whole'
    BY <1>3, <1>4 DEF Whole, Absent
<1>9. Activates' /\ Controlled' /\ NeverFailed'
    BY DEF Update, Activates, Controlled, NeverFailed
<1>10. Kept'
    BY <1>3, <1>6 DEF Update, Kept, ShellShape, Generation
<1> QED BY <1>5, <1>7, <1>8, <1>9, <1>10

\* A file is stored, or a deleted cache takes it unseen.
LEMMA PrecacheKeeps ==
    ASSUME ShellInv, NEW p \in Path, Precache(p)
    PROVE  ShellInv'
<1> USE DEF ShellInv
<1> DEFINE g == installing.gen
<1>1. g \in Generation /\ core[g] \in Cache /\ deployed \in 1..Releases
    BY DEF Precache, ShellShape, Worker, Generation
<1>2. installing' = [gen |-> g, todo |-> installing.todo \ {p}, listed |-> installing.listed,
                     stale |-> installing.stale]
    BY DEF Precache, ShellShape, Worker
<1>3. /\ \A h \in Generation : h # g => core'[h] = core[h]
      /\ core[g] = Absent => core'[g] = core[g]
      /\ core[g] # Absent => core'[g] = [core[g] EXCEPT ![p] = deployed]
    BY <1>1 DEF Precache, ShellShape
<1>4. core' \in [Generation -> Cache]
    <2>1. [core[g] EXCEPT ![p] = deployed] \in Cache
        BY <1>1, ShellOptions DEF Cache
    <2> QED BY <1>1, <2>1 DEF Precache, ShellShape
<1>5. ShellShape'
    BY <1>2, <1>4 DEF Precache, ShellShape, Worker
<1>6. core[g] # Absent => \A q \in Path : core[g][q] >= Missing
    BY <1>1 DEF Whole
<1>7. Installs'
    <2>1. CASE core[g] = Absent
        <3>1. g \in overtaken
            BY <1>1, <2>1 DEF Installs, Absent, Missing, Precache
        <3> QED BY <1>2, <3>1 DEF Installs, Precache
    <2>2. CASE core[g] # Absent
        BY <1>1, <1>2, <1>3, <1>6, <2>2 DEF Installs, Precache, Cache, Missing
    <2> QED BY <2>1, <2>2
<1>8. Whole'
    BY <1>1, <1>3, <1>6 DEF Whole, Absent, Cache, Missing
<1>9. Activates' /\ Controlled' /\ NeverFailed'
    BY DEF Precache, Activates, Controlled, NeverFailed
<1>10. Kept'
    BY <1>1, <1>3 DEF Precache, Kept, Installs, ShellShape, Generation
<1> QED BY <1>5, <1>7, <1>8, <1>9, <1>10

LEMMA PrecacheFailsKeeps == ASSUME ShellInv, PrecacheFails PROVE ShellInv'
<1> USE DEF ShellInv
<1>1. /\ Absent \in Cache /\ NoWorker \in Worker
      /\ NoWorker.gen = 0 /\ ~NoWorker.listed /\ NoWorker.stale = {}
    BY ShellOptions DEF Absent, Cache, NoWorker, Worker
<1>2. ShellShape'
    BY <1>1 DEF PrecacheFails, ShellShape
<1>3. Installs' /\ Activates' /\ Controlled' /\ NeverFailed'
    BY <1>1 DEF PrecacheFails, Installs, Activates, Controlled, NeverFailed
<1>4. \A g \in Generation : core'[g] = IF g = installing.gen THEN Absent ELSE core[g]
    BY DEF PrecacheFails, ShellShape
<1>5. Whole'
    BY <1>4 DEF Whole, Absent
<1>6. Kept'
    BY <1>4 DEF PrecacheFails, Kept, Installs, ShellShape, Generation
<1> QED BY <1>2, <1>3, <1>5, <1>6

\* A worker with its whole manifest takes over.
LEMMA SkipWaitingKeeps == ASSUME ShellInv, SkipWaiting PROVE ShellInv'
<1> USE DEF ShellInv
<1>1. NoWorker \in Worker /\ NoWorker.gen = 0 /\ ~NoWorker.listed /\ NoWorker.stale = {}
    BY ShellOptions DEF NoWorker, Worker
<1> QED
    BY <1>1 DEF SkipWaiting, ShellShape, Installs, Whole, Activates, Controlled, Kept, NeverFailed, Worker

\* The tabs are claimed, and every other generation is put on the list.
LEMMA ClaimAndListKeeps == ASSUME ShellInv, ClaimAndList PROVE ShellInv'
<1> USE DEF ShellInv
<1>1. /\ activating' = [gen |-> activating.gen, todo |-> activating.todo, listed |-> TRUE,
                        stale |-> {g \in Generation \ {activating.gen} : Present(g)}]
      /\ activating.gen # 0 /\ worker = activating.gen
    BY DEF ClaimAndList, ShellShape, Worker, Activates
<1>2. ShellShape'
    <2>1. \A t \in Client : [tabs[t] EXCEPT !.controller = activating.gen] \in TabOf
        BY DEF ShellShape, TabOf, OrNone, Worker
    <2> QED BY <1>1, <2>1 DEF ClaimAndList, ShellShape, Worker
<1>3. Activates'
    BY <1>1 DEF ClaimAndList, Activates
<1>4. Installs' /\ Whole' /\ Kept'
    BY DEF ClaimAndList, Installs, Whole, Kept
<1>5. Controlled' /\ NeverFailed'
    BY <1>1 DEF ClaimAndList, Controlled, NeverFailed, ShellShape, TabOf
<1> QED BY <1>2, <1>3, <1>4, <1>5

\* What is deleted is nobody's but that of a worker that installs, and then
\* the history has it.
LEMMA RetireKeeps == ASSUME ShellInv, Retire PROVE ShellInv'
<1> USE DEF ShellInv
<1>1. /\ worker = activating.gen /\ worker # 0 /\ worker \notin activating.stale
      /\ overtaken \subseteq overtaken' /\ worker' = worker /\ installing' = installing
      /\ NoWorker \in Worker /\ NoWorker.gen = 0 /\ ~NoWorker.listed
    BY ShellOptions DEF Retire, Activates, NoWorker, Worker
<1>2. ShellShape'
    <2>1. Absent \in Cache /\ NoCache \in Runtime
        BY ShellOptions DEF Absent, Cache, NoCache, Runtime
    <2>2. \A t \in Client : [tabs[t] EXCEPT !.message = activating.gen] \in TabOf
        BY DEF ShellShape, TabOf, OrNone, Worker
    <2>3. puts' \subseteq PutOf
        <3>1. \A x \in PutOf : [x EXCEPT !.cache = "deleted"] \in PutOf
            BY DEF PutOf
        <3> QED BY <3>1 DEF Retire, ShellShape
    <2> QED BY <1>1, <2>1, <2>2, <2>3 DEF Retire, ShellShape
<1>3. \A g \in Generation : core'[g] = IF g \in activating.stale THEN Absent ELSE core[g]
    BY DEF Retire
<1>4. Installs'
    <2>1. installing.gen \in activating.stale => installing.gen \in overtaken'
        BY DEF Retire
    <2> QED BY <1>1, <1>3, <2>1 DEF Installs, ShellShape, Worker, Generation
<1>5. Whole'
    BY <1>3 DEF Whole, Absent
<1>6. Activates'
    BY <1>1 DEF Retire, Activates
<1>7. Kept'
    BY <1>1, <1>3 DEF Kept, ShellShape, Generation
<1>8. Controlled' /\ NeverFailed'
    <2>1. \A t \in Client : tabs'[t].failed = tabs[t].failed
        BY DEF Retire, ShellShape, TabOf
    <2> QED BY <1>1, <2>1 DEF Controlled, NeverFailed
<1> QED BY <1>2, <1>4, <1>5, <1>6, <1>7, <1>8

\* Storing an answer, or failing to, is about the runtime caches only.
LEMMA FetchFromNetworkKeeps ==
    ASSUME ShellInv, NEW t \in Client, NEW p \in Path, FetchFromNetwork(t, p)
    PROVE  ShellInv'
<1>1. [gen |-> tabs[t].controller, path |-> p, cache |-> "none"] \in PutOf
    BY DEF FetchFromNetwork, ShellInv, ShellShape, TabOf, OrNone, Generation, PutOf
<1> QED
    BY <1>1 DEF FetchFromNetwork, ShellInv, ShellShape, Installs, Whole, Activates, Controlled, Kept,
       NeverFailed

LEMMA PutsKeep ==
    ASSUME ShellInv, NEW x \in puts, OpenRuntime(x) \/ PutRuntime(x) \/ PutFails(x)
    PROVE  ShellInv'
<1>1. /\ x \in PutOf /\ x.gen \in Generation /\ x.path \in Path /\ runtime \in [Generation -> Runtime]
      /\ runtime[x.gen] \in Runtime
    BY DEF ShellInv, ShellShape, PutOf
<1>2. puts' \subseteq PutOf
    <2>1. [x EXCEPT !.cache = "open"] \in PutOf
        BY <1>1 DEF PutOf
    <2> QED BY <2>1 DEF ShellInv, ShellShape, OpenRuntime, PutRuntime, PutFails
<1>3. runtime' \in [Generation -> Runtime]
    <2>1. [runtime[x.gen] EXCEPT !.there = TRUE] \in Runtime
        BY <1>1 DEF Runtime
    <2>2. [runtime[x.gen] EXCEPT !.files = @ \cup {x.path}] \in Runtime
        BY <1>1 DEF Runtime
    <2> QED BY <1>1, <2>1, <2>2 DEF OpenRuntime, PutRuntime, PutFails
<1>4. UNCHANGED <<deployed, core, installing, activating, worker, tabs, overtaken>>
    BY DEF OpenRuntime, PutRuntime, PutFails
<1> QED
    BY <1>2, <1>3, <1>4
       DEF ShellInv, ShellShape, Installs, Whole, Activates, Controlled, Kept, NeverFailed

\* The active worker's own cache has every file.
LEMMA FetchFromCacheKeeps ==
    ASSUME ShellInv, NEW t \in Client, NEW p \in Path, FetchFromCache(t, p)
    PROVE  ShellInv'
<1> USE DEF ShellInv
<1>1. worker \notin overtaken => Cached(p) # {}
    BY DEF FetchFromCache, Controlled, Kept, Cached, ShellShape, Generation
<1>2. UNCHANGED <<deployed, core, runtime, puts, installing, activating, worker, overtaken>>
    BY DEF FetchFromCache
<1>3. /\ tabs' \in [Client -> TabOf]
      /\ \A u \in Client : tabs'[u].controller = tabs[u].controller
      /\ \A u \in Client : tabs'[u].failed = tabs[u].failed
    <2> DEFINE f == tabs[t].failed \/ (Cached(p) = {} /\ worker \notin overtaken)
               x == [tabs[t] EXCEPT !.failed = f]
    <2>1. tabs' = [tabs EXCEPT ![t] = x] /\ tabs \in [Client -> TabOf] /\ tabs[t] \in TabOf
        BY DEF FetchFromCache, ShellShape
    <2>2. f \in BOOLEAN /\ f = tabs[t].failed
        BY <1>1, <2>1 DEF TabOf
    <2> HIDE DEF f
    <2>3. x \in TabOf /\ x.controller = tabs[t].controller /\ x.failed = f
        BY <2>1, <2>2 DEF TabOf
    <2> HIDE DEF x
    <2> QED BY <2>1, <2>2, <2>3
<1>4. ShellShape'
    BY <1>2, <1>3 DEF ShellShape
<1>5. Installs' /\ Whole' /\ Activates' /\ Kept'
    BY <1>2 DEF Installs, Whole, Activates, Kept
<1>6. Controlled' /\ NeverFailed'
    BY <1>2, <1>3 DEF Controlled, NeverFailed
<1> QED BY <1>4, <1>5, <1>6

LEMMA HearGenerationKeeps ==
    ASSUME ShellInv, NEW t \in Client, HearGeneration(t)
    PROVE  ShellInv'
<1> USE DEF ShellInv
<1>1. \A u \in Client : /\ tabs'[u] \in TabOf /\ tabs'[u].failed = tabs[u].failed
                        /\ tabs'[u].controller \in {tabs[u].controller, worker}
    <2>1. tabs[t] \in TabOf /\ tabs[t].message \in OrNone /\ worker \in OrNone /\ 0 \in OrNone
        BY ShellOptions DEF ShellShape, TabOf, OrNone
    <2>2. /\ tabs'[t] = IF tabs[t].last = tabs[t].message THEN [tabs[t] EXCEPT !.message = 0]
                        ELSE [controller |-> worker, message |-> 0, last |-> tabs[t].message,
                              failed |-> tabs[t].failed]
          /\ \A u \in Client : u # t => tabs'[u] = tabs[u]
        BY DEF HearGeneration, ShellShape
    <2> QED BY <2>1, <2>2 DEF ShellShape, TabOf
<1>2. ShellShape'
    BY <1>1 DEF HearGeneration, ShellShape
<1>3. Installs' /\ Whole' /\ Activates' /\ Kept'
    BY DEF HearGeneration, Installs, Whole, Activates, Kept
<1>4. Controlled' /\ NeverFailed'
    BY <1>1 DEF HearGeneration, Controlled, NeverFailed
<1> QED BY <1>2, <1>3, <1>4

LEMMA ShellStep == ShellInv /\ [ShellNext]_shellVars => ShellInv'
<1> SUFFICES ASSUME ShellInv, [ShellNext]_shellVars PROVE ShellInv'
    OBVIOUS
<1>1. CASE UNCHANGED shellVars
    BY <1>1 DEF shellVars, ShellInv, ShellShape, Installs, Whole, Activates, Controlled, Kept, NeverFailed
<1>2. CASE ShellNext
    BY <1>2, DeployKeeps, UpdateKeeps, PrecacheKeeps, PrecacheFailsKeeps, SkipWaitingKeeps,
       ClaimAndListKeeps, RetireKeeps, FetchFromNetworkKeeps, PutsKeep, FetchFromCacheKeeps,
       HearGenerationKeeps DEF ShellNext
<1> QED BY <1>1, <1>2

\* installShell() and activateGeneration() in src/frontend/sw.js: through failed
\* installations, later releases, late answers and the retirement of caches the
\* active worker has every path of its manifest, and no tab asks in vain for
\* one, unless its own cache was deleted while it installed.
THEOREM ShellStaysComplete == ShellSpec => []ShellComplete
BY ShellInitSafe, ShellStep, ShellInvGives, PTL DEF ShellSpec

-----------------------------------------------------------------------------
(* The player (src/frontend/js/components/videoPlayer.js).                 *)

MaybeVideo == Video \cup {NoVideo}
Position == 0..MaxPos
PageOf == [video : MaybeVideo, shown : BOOLEAN, offline : BOOLEAN,
           state : {"idle", "starting", "paused", "failed"}, url : MaybeVideo, desired : Position,
           retried : BOOLEAN, pacing : BOOLEAN, startup : {"none", "running", "over"},
           watchdog : BOOLEAN, hidden : BOOLEAN, notice : {"none", "retry", "play"}]
Element == [src : MaybeVideo, loaded : BOOLEAN, paused : BOOLEAN, asked : BOOLEAN, pos : Position,
            broken : BOOLEAN, moved : BOOLEAN]
Diagnosis == {"none", "probing", "login", "renewing"}

Listener == [of : MaybeVideo, target : Position, play : BOOLEAN]
Place == [seen : Position, blind : BOOLEAN, strayed : BOOLEAN]

PlayerShape ==
    /\ page \in PageOf /\ el \in Element /\ aim \in Listener
    /\ diagnosis \in Diagnosis /\ reading \in MaybeVideo
    /\ viewer \in Place

\* What is on the page and what the element plays.
OnPage ==
    /\ ~page.shown => el.src = NoVideo /\ page.video = NoVideo /\ page.url = NoVideo
    /\ page.shown /\ ~viewer.strayed => el.src = page.video /\ page.url \in {NoVideo, page.video}
    /\ viewer.strayed => viewer.blind
    /\ ~el.loaded => el.pos = 0
    /\ diagnosis # "none" => el.broken

\* Where the viewer is: before the metadata in the listener's target, after it
\* in the element.
AtPlace ==
    ~viewer.blind =>
        /\ el.loaded => el.pos = viewer.seen
        /\ el.src # NoVideo /\ ~el.loaded => aim.of = el.src /\ aim.target = viewer.seen

\* Wherever a retry may be asked for, the page remembers the place too.
Remembered ==
    ~viewer.blind /\ page.url # NoVideo =>
        (el.pos = 0 \/ el.broken \/ page.notice = "retry" => page.desired = viewer.seen)

PlaceInv == PlayerShape /\ OnPage /\ AtPlace /\ Remembered

LEMMA PlaceInvGives == PlaceInv => PlaceKept
BY DEF PlaceInv, PlayerShape, PageOf, Element, Listener, Place, Diagnosis, MaybeVideo, Position, OnPage,
       AtPlace, PlaceKept, PlayerTypeOK

LEMMA PlayerNames == /\ NoVideo \in MaybeVideo /\ Video \subseteq MaybeVideo /\ NoVideo \notin Video
                     /\ 0 \in Position /\ Position \subseteq Nat
BY PlayerOptions DEF MaybeVideo, Position

LEMMA PlayerInitSafe == PlayerInit => PlaceInv
BY PlayerNames
   DEF PlayerInit, PlaceInv, PlayerShape, PageOf, Element, Listener, Place, Diagnosis, OnPage, AtPlace,
       Remembered, NoPage, NoAim, Source

\* What replacing the source asks of its callers: the source is the video on
\* the page, and what is restored, and remembered for the next retry, is the
\* place the viewer reached; unless the history has a way out.
LEMMA ReplaceSourceKeeps ==
    ASSUME PlaceInv, NEW p \in PageOf, NEW v \in Video, NEW d \in Position, NEW play \in BOOLEAN,
           ReplaceSource(p, v, d, play), reading' \in MaybeVideo, viewer' \in Place,
           p.shown,
           ~viewer'.strayed => p.video = v /\ p.url \in {NoVideo, v},
           viewer'.strayed => viewer'.blind,
           ~viewer'.blind => viewer'.seen = IF d = 0 THEN el.pos ELSE d,
           ~viewer'.blind /\ p.url # NoVideo => p.desired = viewer'.seen
    PROVE  PlaceInv'
<1>1. /\ page' \in PageOf
      /\ page'.shown = p.shown /\ page'.video = p.video /\ page'.url = p.url
      /\ page'.desired = p.desired /\ page'.notice = p.notice
    BY DEF ReplaceSource, PageOf
<1>2. /\ el' \in Element /\ el'.src = v /\ ~el'.loaded /\ el'.pos = 0 /\ ~el'.broken
      /\ diagnosis' = "none"
    BY PlayerNames DEF ReplaceSource, Source, Element
<1>3. aim' \in Listener /\ aim'.of = v /\ aim'.target = IF d = 0 THEN el.pos ELSE d
    BY PlayerNames DEF ReplaceSource, Listener, PlaceInv, PlayerShape, Element
<1>4. PlayerShape'
    BY <1>1, <1>2, <1>3 DEF PlayerShape, Diagnosis
<1>5. OnPage'
    BY <1>1, <1>2 DEF OnPage
<1>6. AtPlace'
    BY <1>2, <1>3 DEF AtPlace
<1>7. Remembered'
    BY <1>1 DEF Remembered
<1> QED BY <1>4, <1>5, <1>6, <1>7 DEF PlaceInv

\* openVideoPlayer(): a new video and a new place.
LEMMA OpenKeeps ==
    ASSUME PlaceInv, NEW v \in Video, OpenStream(v) \/ OpenOffline(v)
    PROVE  PlaceInv'
<1> DEFINE s == [page EXCEPT !.video = v, !.shown = TRUE, !.offline = FALSE, !.url = v, !.desired = 0,
                             !.retried = FALSE, !.notice = "none"]
           o == [page EXCEPT !.video = v, !.shown = TRUE, !.offline = TRUE, !.url = NoVideo,
                             !.desired = 0, !.notice = "none"]
<1>1. page \in PageOf /\ el.pos \in Nat /\ reading \in MaybeVideo
    BY PlayerNames DEF PlaceInv, PlayerShape, Element
<1>2. s \in PageOf /\ s.shown /\ s.video = v /\ s.url = v /\ s.desired = 0
    BY <1>1, PlayerNames DEF PageOf
<1>3. o \in PageOf /\ o.shown /\ o.video = v /\ o.url = NoVideo /\ o.desired = 0
    BY <1>1, PlayerNames DEF PageOf
<1>4. /\ viewer' = [seen |-> 0, blind |-> el.pos > 0, strayed |-> FALSE]
      /\ reading' = reading
      /\ ReplaceSource(s, v, 0, TRUE) \/ ReplaceSource(o, v, 0, TRUE)
    BY DEF OpenStream, OpenOffline
<1> HIDE DEF s, o
<1>5. viewer' \in Place
    BY <1>4, PlayerNames DEF Place
<1>6. ~viewer'.strayed /\ (~viewer'.blind => viewer'.seen = 0 /\ el.pos = 0)
    <2>1. el.pos > 0 \/ el.pos = 0
        BY <1>1
    <2>2. viewer'.strayed = FALSE /\ viewer'.seen = 0 /\ viewer'.blind = (el.pos > 0)
        BY <1>4, Zenon
    <2> QED BY <2>1, <2>2, Zenon
<1>7. CASE ReplaceSource(s, v, 0, TRUE)
    BY <1>1, <1>2, <1>4, <1>5, <1>6, <1>7, ReplaceSourceKeeps, PlayerNames
<1>8. CASE ReplaceSource(o, v, 0, TRUE)
    BY <1>1, <1>3, <1>4, <1>5, <1>6, <1>8, ReplaceSourceKeeps, PlayerNames
<1> QED BY <1>4, <1>7, <1>8

LEMMA CloseKeeps == ASSUME PlaceInv, Close PROVE PlaceInv'
<1>1. page \in PageOf /\ reading \in MaybeVideo /\ reading' = reading
    BY DEF PlaceInv, PlayerShape, Close
<1>2. /\ page' \in PageOf /\ ~page'.shown /\ page'.video = NoVideo /\ page'.url = NoVideo
    BY <1>1, PlayerNames DEF Close, PageOf
<1>3. /\ el' \in Element /\ el'.src = NoVideo /\ ~el'.loaded /\ el'.pos = 0
      /\ aim' \in Listener /\ diagnosis' = "none"
      /\ viewer' \in Place /\ ~viewer'.strayed
    BY PlayerNames DEF Close, Source, NoAim, Element, Listener, Place
<1> QED
    BY <1>1, <1>2, <1>3 DEF PlaceInv, PlayerShape, Diagnosis, OnPage, AtPlace, Remembered

\* The callback of the quality sheet: the position of the element, which is
\* the viewer's once the metadata is there.
LEMMA ChangeQualityKeeps == ASSUME PlaceInv, ChangeQuality PROVE PlaceInv'
<1> DEFINE p == [page EXCEPT !.offline = FALSE, !.url = page.video, !.desired = el.pos,
                             !.notice = "none"]
<1>1. /\ page \in PageOf /\ el.pos \in Position /\ el.paused \in BOOLEAN /\ reading \in MaybeVideo
      /\ viewer \in Place /\ page.video \in Video
    BY DEF PlaceInv, PlayerShape, Element, PageOf, MaybeVideo, ChangeQuality
<1>2. /\ p \in PageOf /\ p.shown = page.shown /\ p.video = page.video /\ p.url = page.video
      /\ p.desired = el.pos
    BY <1>1, PlayerNames DEF PageOf
<1>3. /\ ReplaceSource(p, page.video, el.pos, ~el.paused)
      /\ viewer' = [viewer EXCEPT !.blind = @ \/ ~el.loaded, !.strayed = FALSE]
      /\ reading' = reading
    BY DEF ChangeQuality
<1> HIDE DEF p
<1>4. /\ viewer' \in Place /\ ~viewer'.strayed /\ viewer'.seen = viewer.seen
      /\ ~viewer'.blind => ~viewer.blind /\ el.loaded
    BY <1>1, <1>3 DEF Place
<1>5. page.shown
    BY <1>1, PlayerNames DEF PlaceInv, OnPage
<1>6. ~viewer'.blind => viewer'.seen = el.pos
    BY <1>4 DEF PlaceInv, AtPlace
<1> QED BY <1>1, <1>2, <1>3, <1>4, <1>5, <1>6, ReplaceSourceKeeps

\* playOfflineCopy(): what it restores is the viewer's place when the copy is
\* of the video on the page.
LEMMA PlayOfflineCopyKeeps == ASSUME PlaceInv, PlayOfflineCopy PROVE PlaceInv'
<1> DEFINE p == [page EXCEPT !.shown = TRUE, !.offline = TRUE, !.url = NoVideo, !.notice = "none"]
<1>1. /\ page \in PageOf /\ el.pos \in Position /\ reading \in Video /\ viewer \in Place
    BY DEF PlaceInv, PlayerShape, Element, MaybeVideo, PlayOfflineCopy
<1>2. p \in PageOf /\ p.shown /\ p.video = page.video /\ p.url = NoVideo
    BY <1>1, PlayerNames DEF PageOf
<1>3. /\ ReplaceSource(p, reading, 0, TRUE)
      /\ viewer' = [viewer EXCEPT !.blind = @ \/ ~el.loaded \/ reading # page.video,
                                  !.strayed = @ \/ reading # page.video]
      /\ reading' = NoVideo
    BY DEF PlayOfflineCopy
<1> HIDE DEF p
<1>4. /\ viewer' \in Place /\ viewer'.seen = viewer.seen
      /\ viewer'.blind = (viewer.blind \/ ~el.loaded \/ reading # page.video)
      /\ viewer'.strayed = (viewer.strayed \/ reading # page.video)
    BY <1>1, <1>3 DEF Place
<1>5. viewer'.strayed => viewer'.blind
    BY <1>4 DEF PlaceInv, OnPage
<1>6. ~viewer'.blind => viewer'.seen = el.pos
    BY <1>4 DEF PlaceInv, AtPlace
<1> QED BY <1>1, <1>2, <1>3, <1>4, <1>5, <1>6, PlayerNames, ReplaceSourceKeeps

\* onLoadedMetadata(): the listener is of this source, so it acts, and what it
\* cannot reach the viewer cannot either.
LEMMA LoadedMetadataKeeps ==
    ASSUME PlaceInv, NEW allowed \in BOOLEAN, NEW end \in 1..(MaxPos + 1), LoadedMetadata(allowed, end)
    PROVE  PlaceInv'
<1> DEFINE acts == aim # NoAim /\ page.video \in {NoVideo, aim.of}
<1>1. /\ page \in PageOf /\ el \in Element /\ aim \in Listener /\ viewer \in Place /\ 0 \in Position
      /\ el.src # NoVideo /\ ~el.loaded /\ UNCHANGED <<page, diagnosis, reading>>
    BY PlayerNames DEF PlaceInv, PlayerShape, LoadedMetadata
<1>2. /\ \A t \in Position : LastBefore(end, t) \in Position
      /\ end - 1 \in Position /\ end - 1 = 0 => end = 1
      /\ \A t \in Position : LastBefore(end, t) = IF t < end THEN t ELSE end - 1
    BY PlayerOptions DEF LastBefore, Position
<1>3. /\ el' \in Element /\ el'.src = el.src /\ el'.loaded /\ el'.broken = el.broken
      /\ el'.pos = IF acts THEN LastBefore(end, aim.target) ELSE 0
    BY <1>1, <1>2 DEF LoadedMetadata, Element, Listener
<1>4. aim' \in Listener
    BY PlayerNames DEF LoadedMetadata, NoAim, Listener
<1>5. /\ viewer' \in Place /\ viewer'.strayed = viewer.strayed
      /\ viewer.blind => viewer'.blind
      /\ viewer'.seen = LastBefore(end, viewer.seen)
      /\ ~viewer'.blind /\ ~(viewer.seen < end) => end # 1 /\ page.notice # "retry"
    <2>1. viewer.seen \in Position
        BY <1>1 DEF Place
    <2>2. viewer' = IF viewer.seen < end THEN viewer
                    ELSE [viewer EXCEPT !.seen = end - 1,
                                        !.blind = @ \/ end = 1 \/ page.notice = "retry"]
        BY DEF LoadedMetadata
    <2>3. CASE viewer.seen < end
        BY <1>1, <1>2, <2>1, <2>2, <2>3
    <2>4. CASE ~(viewer.seen < end)
        <3>1. /\ viewer'.seen = end - 1 /\ viewer'.strayed = viewer.strayed
              /\ viewer'.blind = (viewer.blind \/ end = 1 \/ page.notice = "retry")
            BY <1>1, <2>2, <2>4, Zenon DEF Place
        <3>2. viewer' \in Place
            BY <1>1, <1>2, <2>2, <2>4 DEF Place
        <3> QED BY <1>2, <2>1, <2>4, <3>1, <3>2
    <2> QED BY <2>3, <2>4
<1>6. ~viewer'.blind => el'.pos = viewer'.seen
    <2>1. ASSUME ~viewer.blind PROVE acts /\ aim.target = viewer.seen
        BY <1>1, <2>1, PlayerNames DEF PlaceInv, OnPage, AtPlace, NoAim
    <2> QED BY <1>3, <1>5, <2>1
<1>7. PlayerShape' /\ OnPage'
    BY <1>1, <1>3, <1>4, <1>5 DEF PlaceInv, PlayerShape, OnPage
<1>8. AtPlace'
    BY <1>3, <1>6 DEF AtPlace
<1>9. Remembered'
    <2> SUFFICES ASSUME ~viewer'.blind, page.url # NoVideo,
                        el'.pos = 0 \/ el'.broken \/ page.notice = "retry"
                 PROVE  page.desired = viewer'.seen
        BY <1>1 DEF Remembered
    <2>1. ~viewer.blind /\ el.pos = 0 /\ page.desired = viewer.seen
        BY <1>1, <1>5 DEF PlaceInv, OnPage, Remembered
    <2>2. ~el.broken
        BY DEF LoadedMetadata
    <2>3. viewer.seen \in Position
        BY <1>1 DEF Place
    <2>4. CASE viewer.seen < end
        BY <1>2, <1>5, <2>1, <2>3, <2>4
    <2>5. CASE ~(viewer.seen < end)
        BY <1>2, <1>3, <1>5, <1>6, <2>2, <2>3, <2>5
    <2> QED BY <2>4, <2>5
<1> QED BY <1>7, <1>8, <1>9 DEF PlaceInv

\* The refusal of play() moves nothing.
LEMMA PlayRefusedKeeps == ASSUME PlaceInv, PlayRefused PROVE PlaceInv'
<1>1. /\ page \in PageOf /\ el \in Element /\ UNCHANGED <<aim, diagnosis, reading, viewer>>
    BY DEF PlaceInv, PlayerShape, PlayRefused
<1>2. /\ page' \in PageOf /\ page'.shown = page.shown /\ page'.video = page.video
      /\ page'.url = page.url /\ page'.desired = page.desired /\ page'.notice = "play"
    BY <1>1 DEF PlayRefused, PageOf
<1>3. /\ el' \in Element /\ el'.src = el.src /\ el'.loaded = el.loaded /\ el'.pos = el.pos
      /\ el'.broken = el.broken
    BY <1>1 DEF PlayRefused, Element
<1> QED BY <1>1, <1>2, <1>3 DEF PlaceInv, PlayerShape, OnPage, AtPlace, Remembered

\* The viewer goes on, and is nowhere else than where the element is.
LEMMA AdvanceKeeps ==
    ASSUME PlaceInv, NEW p \in 1..MaxPos, Advance(p)
    PROVE  PlaceInv'
<1>1. /\ el \in Element /\ viewer \in Place /\ p \in Position /\ p # 0
      /\ el.loaded /\ ~el.broken
    BY PlayerOptions DEF PlaceInv, PlayerShape, Advance, Position
<1>2. /\ el' \in Element /\ el'.pos = p /\ el'.src = el.src /\ el'.loaded /\ ~el'.broken
    BY <1>1 DEF Advance, Element
<1>3. /\ viewer' \in Place /\ viewer'.strayed = viewer.strayed
      /\ viewer.strayed => viewer' = viewer
      /\ ~viewer.strayed => viewer'.seen = p /\ (page.notice = "retry" => viewer'.blind)
    BY <1>1 DEF Advance, Place
<1>4. UNCHANGED <<page, aim, diagnosis, reading>>
    BY DEF Advance
<1> QED
    BY <1>1, <1>2, <1>3, <1>4 DEF PlaceInv, PlayerShape, OnPage, AtPlace, Remembered

\* Steps that touch neither the source nor the place.
LEMMA InPlaceKeeps ==
    ASSUME PlaceInv, page' \in PageOf, el' \in Element, reading' \in MaybeVideo,
           diagnosis' \in Diagnosis, diagnosis' # "none" => el'.broken,
           UNCHANGED <<aim, viewer>>,
           page'.shown = page.shown, page'.video = page.video, page'.url = page.url,
           page'.desired = page.desired, page'.notice = page.notice,
           el'.src = el.src, el'.loaded = el.loaded, el'.pos = el.pos, el'.broken = el.broken
    PROVE  PlaceInv'
BY DEF PlaceInv, PlayerShape, OnPage, AtPlace, Remembered

LEMMA ElementMovesKeep == ASSUME PlaceInv, PausePlayback \/ Play PROVE PlaceInv'
<1>1. el \in Element /\ page \in PageOf /\ UNCHANGED <<page, aim, diagnosis, reading, viewer>>
    BY DEF PlaceInv, PlayerShape, PausePlayback, Play
<1>2. /\ el' \in Element /\ el'.src = el.src /\ el'.loaded = el.loaded /\ el'.pos = el.pos
      /\ el'.broken = el.broken
    BY <1>1 DEF PausePlayback, Play, Element
<1> QED BY <1>1, <1>2, InPlaceKeeps DEF PlaceInv, PlayerShape, OnPage

LEMMA PageMovesKeep ==
    ASSUME PlaceInv, PacingOver \/ BudgetEnds \/ Hide \/ Show
    PROVE  PlaceInv'
<1>1. el \in Element /\ page \in PageOf /\ UNCHANGED <<el, aim, diagnosis, reading, viewer>>
    BY DEF PlaceInv, PlayerShape, PacingOver, BudgetEnds, Hide, Show
<1>2. /\ page' \in PageOf /\ page'.shown = page.shown /\ page'.video = page.video
      /\ page'.url = page.url /\ page'.desired = page.desired /\ page'.notice = page.notice
    BY <1>1 DEF PacingOver, BudgetEnds, Hide, Show, PageOf
<1> QED BY <1>1, <1>2, InPlaceKeeps DEF PlaceInv, PlayerShape, OnPage

LEMMA ReadingKeeps ==
    ASSUME PlaceInv, ClickOffline \/ NoOfflineCopy \/ SessionNotRenewed
    PROVE  PlaceInv'
<1>1. /\ UNCHANGED <<page, el, aim, viewer>>
      /\ reading' \in MaybeVideo /\ diagnosis' \in {diagnosis, "none"}
    BY PlayerNames DEF PlaceInv, PlayerShape, PageOf, ClickOffline, NoOfflineCopy, SessionNotRenewed
<1> QED BY <1>1, InPlaceKeeps DEF PlaceInv, PlayerShape, Diagnosis, OnPage

-----------------------------------------------------------------------------
\* Every failure path stores the position the element has; without one the
\* page remembers it already.
LEMMA WithPositionRemembers ==
    ASSUME PlaceInv
    PROVE  /\ WithPosition(page) \in PageOf
           /\ WithPosition(page).shown = page.shown /\ WithPosition(page).video = page.video
           /\ WithPosition(page).url = page.url /\ WithPosition(page).notice = page.notice
           /\ ~viewer.blind /\ page.url # NoVideo => WithPosition(page).desired = viewer.seen
           /\ el.pos > 0 => WithPosition(page).desired = el.pos
<1>1. page \in PageOf /\ el \in Element /\ el.pos \in Position /\ el.pos \in Nat
    BY PlayerNames DEF PlaceInv, PlayerShape, Element
<1>2. CASE el.pos > 0
    <2>1. /\ WithPosition(page) \in PageOf /\ WithPosition(page).desired = el.pos
          /\ WithPosition(page).shown = page.shown /\ WithPosition(page).video = page.video
          /\ WithPosition(page).url = page.url /\ WithPosition(page).notice = page.notice
        BY <1>1, <1>2 DEF WithPosition, PageOf
    <2>2. ~viewer.blind => el.pos = viewer.seen
        BY <1>2 DEF PlaceInv, OnPage, AtPlace
    <2> QED BY <2>1, <2>2
<1>3. CASE ~(el.pos > 0)
    <2>1. WithPosition(page) = page /\ el.pos = 0
        BY <1>1, <1>3 DEF WithPosition
    <2> QED BY <1>1, <1>3, <2>1 DEF PlaceInv, Remembered
<1> QED BY <1>2, <1>3

LEMMA AutoRetryKeeps == ASSUME PlaceInv, AutoRetry PROVE PlaceInv'
<1> DEFINE p == [WithPosition(page) EXCEPT !.retried = TRUE]
<1>1. /\ page \in PageOf /\ el.pos \in Nat /\ viewer \in Place /\ reading \in MaybeVideo
      /\ page.url \in Video
    BY PlayerNames DEF PlaceInv, PlayerShape, Element, PageOf, MaybeVideo, AutoRetry
<1>2. /\ p \in PageOf /\ p.shown = page.shown /\ p.video = page.video /\ p.url = page.url
      /\ p.desired = WithPosition(page).desired /\ p.desired \in Position
    BY WithPositionRemembers DEF PageOf
<1>3. ReplaceSource(p, page.url, p.desired, TRUE) /\ UNCHANGED <<reading, viewer>>
    BY DEF AutoRetry
<1> HIDE DEF p
<1>4. page.shown /\ (~viewer.strayed => page.video = page.url) /\ (viewer.strayed => viewer.blind)
    BY <1>1, PlayerNames DEF PlaceInv, OnPage
<1>5. ~viewer.blind => p.desired = viewer.seen /\ (p.desired = 0 => el.pos = 0)
    BY <1>1, <1>2, WithPositionRemembers, PlayerNames
<1>6. ~viewer.blind => viewer.seen = IF p.desired = 0 THEN el.pos ELSE p.desired
    BY <1>5
<1> QED BY <1>1, <1>2, <1>3, <1>4, <1>5, <1>6, ReplaceSourceKeeps

\* A button to retry and a renewed session come after a failure path.
LEMMA RetryKeeps ==
    ASSUME PlaceInv, RetryClick \/ SessionRenewed
    PROVE  PlaceInv'
<1> DEFINE p == [page EXCEPT !.notice = "none", !.retried = FALSE, !.pacing = TRUE]
<1>1. /\ page \in PageOf /\ el.pos \in Nat /\ viewer \in Place /\ reading \in MaybeVideo
      /\ page.url \in Video /\ page.desired \in Position
    BY PlayerNames
       DEF PlaceInv, PlayerShape, Element, PageOf, MaybeVideo, RetryClick, SessionRenewed, RetryCurrentStream
<1>2. p \in PageOf /\ p.shown = page.shown /\ p.video = page.video /\ p.url = page.url
      /\ p.desired = page.desired
    BY <1>1 DEF PageOf
<1>3. ReplaceSource(p, page.url, page.desired, TRUE) /\ UNCHANGED <<reading, viewer>>
    BY DEF RetryClick, SessionRenewed, RetryCurrentStream
<1> HIDE DEF p
<1>4. page.shown /\ (~viewer.strayed => page.video = page.url) /\ (viewer.strayed => viewer.blind)
    BY <1>1, PlayerNames DEF PlaceInv, OnPage
<1>5. page.notice = "retry" \/ el.broken
    BY DEF PlaceInv, OnPage, RetryClick, SessionRenewed
<1>6. ~viewer.blind => page.desired = viewer.seen
    BY <1>1, <1>5, PlayerNames DEF PlaceInv, Remembered
<1>7. ~viewer.blind => viewer.seen = IF page.desired = 0 THEN el.pos ELSE page.desired
    <2>1. ~viewer.blind /\ el.loaded => el.pos = viewer.seen
        BY DEF PlaceInv, AtPlace
    <2>2. ~el.loaded => el.pos = 0
        BY DEF PlaceInv, OnPage
    <2> QED BY <1>6, <2>1, <2>2
<1> QED BY <1>1, <1>2, <1>3, <1>4, <1>6, <1>7, ReplaceSourceKeeps

\* handleStreamError() without a retry left, and the end of its diagnosis.
LEMMA StreamErrorKeeps == ASSUME PlaceInv, StreamError PROVE PlaceInv'
<1> DEFINE p == [WithPosition(page) EXCEPT !.watchdog = FALSE]
<1>1. /\ p \in PageOf /\ p.shown = page.shown /\ p.video = page.video /\ p.url = page.url
      /\ p.notice = page.notice
      /\ ~viewer.blind /\ page.url # NoVideo => p.desired = viewer.seen
    BY WithPositionRemembers DEF PageOf
<1>2. /\ el' \in Element /\ el'.src = el.src /\ el'.loaded = el.loaded /\ el'.pos = el.pos /\ el'.broken
      /\ UNCHANGED <<aim, reading, viewer>>
    BY DEF StreamError, PlaceInv, PlayerShape, Element
<1>3. \/ page' = [p EXCEPT !.state = "failed", !.notice = "retry"] /\ diagnosis' = diagnosis
      \/ page' = p /\ diagnosis' = "probing"
    BY DEF StreamError
<1> HIDE DEF p
<1>4. /\ page' \in PageOf /\ page'.shown = page.shown /\ page'.video = page.video
      /\ page'.url = page.url /\ page'.desired = p.desired
    BY <1>1, <1>3 DEF PageOf
<1>5. PlayerShape'
    BY <1>2, <1>3, <1>4 DEF PlaceInv, PlayerShape, Diagnosis
<1>6. OnPage' /\ AtPlace'
    BY <1>2, <1>4 DEF PlaceInv, OnPage, AtPlace
<1>7. Remembered'
    BY <1>1, <1>2, <1>4 DEF Remembered
<1> QED BY <1>5, <1>6, <1>7 DEF PlaceInv

LEMMA ProbeSettlesKeeps ==
    ASSUME PlaceInv, NEW unauthorized \in BOOLEAN, ProbeSettles(unauthorized)
    PROVE  PlaceInv'
<1>1. /\ page \in PageOf /\ UNCHANGED <<el, aim, reading, viewer>> /\ el.broken
      /\ diagnosis' \in {"none", "renewing"}
    BY DEF PlaceInv, PlayerShape, OnPage, ProbeSettles
<1>2. /\ page' \in PageOf /\ page'.shown = page.shown /\ page'.video = page.video
      /\ page'.url = page.url /\ page'.desired = page.desired
    BY <1>1 DEF ProbeSettles, PageOf
<1> QED BY <1>1, <1>2 DEF PlaceInv, PlayerShape, Diagnosis, OnPage, AtPlace, Remembered

LEMMA ProbeWaitsKeeps == ASSUME PlaceInv, ProbeUnauthorized \/ ProbeLoggedIn PROVE PlaceInv'
<1>1. UNCHANGED <<page, el, aim, reading, viewer>> /\ diagnosis # "none" /\ diagnosis' \in Diagnosis
    BY DEF ProbeUnauthorized, ProbeLoggedIn, Diagnosis
<1> QED BY <1>1, InPlaceKeeps DEF PlaceInv, PlayerShape, OnPage

\* failPlayback() of the watchdog.
LEMMA WatchdogKeeps == ASSUME PlaceInv, Watchdog PROVE PlaceInv'
<1>1. /\ page' \in PageOf /\ page'.shown = page.shown /\ page'.video = page.video
      /\ page'.url = page.url
      /\ ~viewer.blind /\ page.url # NoVideo => page'.desired = viewer.seen
    BY WithPositionRemembers DEF Watchdog, PageOf
<1>2. /\ el' \in Element /\ el'.src = el.src /\ el'.loaded = el.loaded /\ el'.pos = el.pos
      /\ el'.broken = el.broken /\ UNCHANGED <<aim, diagnosis, reading, viewer>>
    BY DEF Watchdog, PlaceInv, PlayerShape, Element
<1> QED
    BY <1>1, <1>2 DEF PlaceInv, PlayerShape, OnPage, AtPlace, Remembered

LEMMA PlayerStep == PlaceInv /\ [PlayerNext]_playerVars => PlaceInv'
<1> SUFFICES ASSUME PlaceInv, [PlayerNext]_playerVars PROVE PlaceInv'
    OBVIOUS
<1>1. CASE UNCHANGED playerVars
    BY <1>1 DEF playerVars, PlaceInv, PlayerShape, OnPage, AtPlace, Remembered
<1>2. CASE PlayerNext
    BY <1>2, OpenKeeps, CloseKeeps, ChangeQualityKeeps, ReadingKeeps, PlayOfflineCopyKeeps,
       LoadedMetadataKeeps, PlayRefusedKeeps, AdvanceKeeps, ElementMovesKeep, AutoRetryKeeps,
       StreamErrorKeeps, ProbeWaitsKeeps, ProbeSettlesKeeps, RetryKeeps, PageMovesKeep, WatchdogKeeps DEF PlayerNext
<1> QED BY <1>1, <1>2

\* replaceSourcePreservingState() in src/frontend/js/components/videoPlayer.js:
\* through failures, retries, changes of quality and offline copies in any
\* order the element comes back where the viewer was, or at the end of a source
\* that became shorter, with the exceptions PlaceKept names.
THEOREM PlaceIsKept == PlayerSpec => []PlaceKept
BY PlayerInitSafe, PlayerStep, PlaceInvGives, PTL DEF PlayerSpec

-----------------------------------------------------------------------------
(* The feed (src/frontend/js/components/homeFeed.js).                      *)

FeedState == [videos : BOOLEAN, page : 1..(MaxPage + 2), hasMore : BOOLEAN, loading : BOOLEAN,
              old : BOOLEAN, cooling : BOOLEAN]
FeedLoad == [kind : {"first", "more"}, cat : Category, silent : BOOLEAN, live : BOOLEAN,
         here : BOOLEAN, tries : Nat, gate : BOOLEAN, page : 1..(MaxPage + 1)]
View == [on : BOOLEAN, show : {"blank", "skeletons", "page", "empty", "error"}, cat : Category,
         sentinel : BOOLEAN, heard : BOOLEAN]

Screen == [feeds : [Category -> FeedState], loads : Seq(FeedLoad), view : View]

\* A page beyond the limit is never asked for; a category that is marked has a
\* load under way; and the screen follows the choice.
Ahead(s)   == \A c \in Category : s.feeds[c].hasMore => s.feeds[c].page <= MaxPage + 1
Marked(s)  == \A c \in Category : s.feeds[c].loading => \E i \in DOMAIN s.loads : s.loads[i].cat = c
Follows(s, c) == s.view.on /\ s.view.heard => s.view.cat = c

Sane(s) == s \in Screen /\ Ahead(s) /\ Marked(s)

FeedInv == active \in Category /\ Sane(Now) /\ Follows(Now, active)

Showing == {"blank", "skeletons", "page", "empty", "error"}

-----------------------------------------------------------------------------
(* Sequences of loads.                                                     *)

\* Another load is appended.
LEMMA AppendedLoads ==
    ASSUME NEW q \in Seq(FeedLoad), NEW x \in FeedLoad
    PROVE  /\ Append(q, x) \in Seq(FeedLoad)
           /\ \A i \in DOMAIN q : i \in DOMAIN Append(q, x) /\ Append(q, x)[i] = q[i]
           /\ Len(q) + 1 \in DOMAIN Append(q, x) /\ Append(q, x)[Len(q) + 1] = x
BY AppendProperties, LenProperties

\* One load has ended; the others keep their order.
LEMMA RemainingLoads ==
    ASSUME NEW q \in Seq(FeedLoad), NEW i \in 1..Len(q)
    PROVE  LET r == SubSeq(q, 1, i - 1) \o SubSeq(q, i + 1, Len(q))
           IN  /\ r \in Seq(FeedLoad)
               /\ \A j \in DOMAIN q : j # i => \E k \in DOMAIN r : r[k] = q[j]
<1> DEFINE a == SubSeq(q, 1, i - 1)
           b == SubSeq(q, i + 1, Len(q))
           n == Len(q)
<1>1. n \in Nat /\ DOMAIN q = 1..n /\ i \in 1..n /\ \A j \in 1..n : q[j] \in FeedLoad
    BY LenProperties, ElementOfSeq
<1>2. \A j \in 1..(i - 1) : j \in 1..n
    BY <1>1
<1>3. a \in Seq(FeedLoad) /\ Len(a) = i - 1 /\ \A j \in 1..(i - 1) : a[j] = q[j]
    BY <1>1, <1>2, SubSeqProperties
<1>4. b \in Seq(FeedLoad) /\ Len(b) = n - i /\ \A j \in 1..(n - i) : b[j] = q[i + j]
    <2>1. i + 1 \in Int /\ n \in Int /\ \A j \in (i + 1)..n : q[j] \in FeedLoad
        BY <1>1
    <2>2. /\ b \in Seq(FeedLoad)
          /\ Len(b) = IF i + 1 <= n THEN n - (i + 1) + 1 ELSE 0
          /\ \A j \in 1..(n - (i + 1) + 1) : b[j] = q[(i + 1) + j - 1]
        BY <2>1, SubSeqProperties
    <2>3. n - (i + 1) + 1 = n - i /\ \A j \in 1..(n - i) : (i + 1) + j - 1 = i + j
        BY <1>1
    <2> HIDE DEF b
    <2>4. (IF i + 1 <= n THEN n - (i + 1) + 1 ELSE 0) = n - i
        <3>1. n \in Nat /\ i \in Nat /\ i <= n
            BY <1>1
        <3> HIDE DEF n
        <3> QED BY <3>1
    <2>5. \A j \in 1..(n - i) : b[j] = q[i + j]
        BY <2>2, <2>3
    <2> QED BY <2>2, <2>4, <2>5
<1> HIDE DEF a, b, n
<1>5. /\ a \o b \in Seq(FeedLoad) /\ Len(a \o b) = n - 1
      /\ \A j \in 1..(n - 1) : (a \o b)[j] = IF j <= i - 1 THEN a[j] ELSE b[j - (i - 1)]
    <2>1. /\ a \o b \in Seq(FeedLoad) /\ Len(a \o b) = Len(a) + Len(b)
          /\ \A j \in 1..(Len(a) + Len(b)) : (a \o b)[j] = IF j <= Len(a) THEN a[j] ELSE b[j - Len(a)]
        BY <1>3, <1>4, ConcatProperties
    <2>2. Len(a) + Len(b) = n - 1
        BY <1>1, <1>3, <1>4
    <2> QED BY <1>3, <2>1, <2>2
<1>6. ASSUME NEW j \in DOMAIN q, j # i PROVE \E k \in DOMAIN (a \o b) : (a \o b)[k] = q[j]
    <2>1. CASE j < i
        <3>1. j \in 1..(n - 1) /\ (a \o b)[j] = q[j]
            BY <1>1, <1>3, <1>5, <2>1
        <3> QED BY <1>5, <3>1, LenProperties
    <2>2. CASE j > i
        <3>1. j - 1 \in 1..(n - 1) /\ ~(j - 1 <= i - 1) /\ (j - 1) - (i - 1) = j - i /\ j - i \in 1..(n - i)
            BY <1>1, <2>2
        <3>2. (a \o b)[j - 1] = q[i + (j - i)] /\ i + (j - i) = j
            BY <1>1, <1>4, <1>5, <3>1
        <3> QED BY <1>5, <3>1, <3>2, LenProperties
    <2> QED BY <1>1, <1>6, <2>1, <2>2
<1> QED BY <1>5, <1>6 DEF a, b, n

\* Flags of loads are rewritten; none comes or goes.
LEMMA RewrittenLoads ==
    ASSUME NEW q \in Seq(FeedLoad), NEW r \in [DOMAIN q -> FeedLoad]
    PROVE  r \in Seq(FeedLoad) /\ DOMAIN r = DOMAIN q
<1>1. Len(q) \in Nat /\ DOMAIN q = 1..Len(q)
    BY LenProperties
<1> QED BY <1>1

-----------------------------------------------------------------------------
(* The operators that rewrite feeds, loads and view.                       *)

LEMMA BumpSane ==
    ASSUME NEW s, Sane(s)
    PROVE  /\ Sane(BumpGeneration(s))
           /\ BumpGeneration(s).view = s.view /\ BumpGeneration(s).feeds = s.feeds
<1> DEFINE r == [i \in DOMAIN s.loads |-> [s.loads[i] EXCEPT !.live = FALSE]]
<1>1. s \in Screen /\ s.loads \in Seq(FeedLoad)
    BY DEF Sane, Screen
<1>2. \A i \in DOMAIN s.loads : s.loads[i] \in FeedLoad
    BY <1>1, ElementOfSeq, LenProperties
<1>3. \A i \in DOMAIN s.loads : r[i] \in FeedLoad /\ r[i].cat = s.loads[i].cat
    BY <1>2 DEF FeedLoad
<1>4. r \in Seq(FeedLoad) /\ DOMAIN r = DOMAIN s.loads
    <2>1. r \in [DOMAIN s.loads -> FeedLoad]
        BY <1>3
    <2> QED BY <1>1, <2>1, RewrittenLoads
<1>5. BumpGeneration(s) = [s EXCEPT !.loads = r]
    BY DEF BumpGeneration
<1> HIDE DEF r
<1>6. /\ BumpGeneration(s) \in Screen /\ BumpGeneration(s).loads = r
      /\ BumpGeneration(s).view = s.view /\ BumpGeneration(s).feeds = s.feeds
    BY <1>1, <1>4, <1>5 DEF Screen
<1> QED BY <1>3, <1>4, <1>6 DEF Sane, Ahead, Marked

LEMMA PaintSane ==
    ASSUME NEW s, Sane(s), NEW show \in Showing, NEW c \in Category, NEW sentinel \in BOOLEAN
    PROVE  /\ Sane(Paint(s, show, c, sentinel))
           /\ Paint(s, show, c, sentinel).view.on = s.view.on
           /\ Paint(s, show, c, sentinel).view.cat = c
           /\ c # active' /\ ~s.view.heard => ~Paint(s, show, c, sentinel).view.heard
<1> DEFINE v == [on |-> s.view.on, show |-> show, cat |-> c, sentinel |-> sentinel,
                 heard |-> s.view.heard \/ c = active']
           p == [s EXCEPT !.view = v]
<1>1. s \in Screen /\ s.view \in View
    BY DEF Sane, Screen
<1>2. /\ v \in View /\ v.on = s.view.on /\ v.cat = c
      /\ v.heard => s.view.heard \/ c = active'
    BY <1>1 DEF View, Showing
<1>3. Paint(s, show, c, sentinel) = p
    BY DEF Paint
<1> HIDE DEF v
<1>4. p \in Screen /\ p.view = v /\ p.feeds = s.feeds /\ p.loads = s.loads
    BY <1>1, <1>2 DEF Screen
<1> HIDE DEF p
<1>5. Sane(p)
    BY <1>4 DEF Sane, Ahead, Marked
<1> QED BY <1>2, <1>3, <1>4, <1>5

LEMMA PaintPlainSane ==
    ASSUME NEW s, Sane(s), NEW show \in Showing, NEW c \in Category
    PROVE  /\ Sane(Paint(s, show, c, FALSE))
           /\ Paint(s, show, c, FALSE).view.on = s.view.on
           /\ Paint(s, show, c, FALSE).view.cat = c
           /\ c # active' /\ ~s.view.heard => ~Paint(s, show, c, FALSE).view.heard
BY PaintSane

LEMMA PaintPageSane ==
    ASSUME NEW s, Sane(s), NEW c \in Category
    PROVE  Sane(PaintPage(s, c)) /\ PaintPage(s, c).view.cat = c
<1>1. s.feeds[c].hasMore \in BOOLEAN /\ "page" \in Showing /\ "empty" \in Showing
    BY DEF Sane, Screen, FeedState, Showing
<1>2. /\ Sane(Paint(s, "page", c, s.feeds[c].hasMore))
      /\ Paint(s, "page", c, s.feeds[c].hasMore).view.cat = c
    BY <1>1, PaintSane
<1>3. Sane(Paint(s, "empty", c, FALSE)) /\ Paint(s, "empty", c, FALSE).view.cat = c
    BY <1>1, PaintPlainSane
<1> QED BY <1>2, <1>3 DEF PaintPage

\* A load is launched, and with it the mark.
LEMMA LaunchSane ==
    ASSUME NEW s, Sane(s), NEW c \in Category, NEW kind \in {"first", "more"}, NEW silent \in BOOLEAN,
           kind = "more" => s.feeds[c].hasMore
    PROVE  Sane(Launch(s, c, kind, silent)) /\ Launch(s, c, kind, silent).view = s.view
<1> DEFINE x == [kind |-> kind, cat |-> c, silent |-> silent, live |-> TRUE, here |-> TRUE, tries |-> 1,
                 gate |-> FALSE, page |-> IF kind = "first" THEN 1 ELSE s.feeds[c].page]
           q == Append(s.loads, x)
           f == [s.feeds EXCEPT ![c] = [s.feeds[c] EXCEPT !.loading = TRUE]]
           l == Launch(s, c, kind, silent)
<1>1. s \in Screen /\ s.loads \in Seq(FeedLoad) /\ s.feeds \in [Category -> FeedState]
    BY DEF Sane, Screen
<1>2. x \in FeedLoad
    <2>1. (IF kind = "first" THEN 1 ELSE s.feeds[c].page) \in 1..(MaxPage + 1)
        BY <1>1, FeedOptions DEF Sane, Ahead, FeedState
    <2> QED BY <2>1 DEF FeedLoad
<1>3. /\ q \in Seq(FeedLoad) /\ \A i \in DOMAIN s.loads : i \in DOMAIN q /\ q[i] = s.loads[i]
      /\ Len(s.loads) + 1 \in DOMAIN q /\ q[Len(s.loads) + 1] = x
    BY <1>1, <1>2, AppendedLoads
<1>4. f \in [Category -> FeedState] /\ \A d \in Category : d # c => f[d] = s.feeds[d]
    BY <1>1 DEF FeedState
<1>5. f[c].hasMore = s.feeds[c].hasMore /\ f[c].page = s.feeds[c].page
    BY <1>1 DEF FeedState
<1>6. x.cat = c
    OBVIOUS
<1>7. l = [s EXCEPT !.feeds = f, !.loads = q]
    BY <1>1 DEF Launch, Screen
<1> HIDE DEF x, q, f
<1>8. l \in Screen /\ l.feeds = f /\ l.loads = q /\ l.view = s.view
    BY <1>1, <1>3, <1>4, <1>7 DEF Screen
<1>9. Ahead(l)
    BY <1>4, <1>5, <1>8 DEF Sane, Ahead
<1>10. Marked(l)
    BY <1>3, <1>4, <1>6, <1>8 DEF Sane, Marked
<1> QED BY <1>8, <1>9, <1>10 DEF Sane

LEMMA LoadFirstPageSane ==
    ASSUME NEW s, Sane(s), NEW c \in Category, NEW silent \in BOOLEAN,
           Follows(s, active'), c \in {active', s.view.cat}
    PROVE  Sane(LoadFirstPage(s, c, silent)) /\ Follows(LoadFirstPage(s, c, silent), active')
<1> DEFINE l == Launch(s, c, "first", silent)
           p == Paint(l, "skeletons", c, FALSE)
<1>1. Sane(l) /\ l.view = s.view
    BY LaunchSane
<1>2. LoadFirstPage(s, c, silent) \in {s, l, p}
    BY DEF LoadFirstPage
<1> HIDE DEF l
<1>3. "skeletons" \in Showing
    BY DEF Showing
<1>4. /\ Sane(p) /\ p.view.on = l.view.on /\ p.view.cat = c
      /\ p.view.heard => l.view.heard \/ c = active'
    BY <1>1, <1>3, PaintPlainSane
<1> HIDE DEF p
<1>5. Follows(l, active')
    BY <1>1 DEF Follows
<1>6. Follows(p, active')
    BY <1>1, <1>4 DEF Follows
<1> QED BY <1>1, <1>2, <1>4, <1>5, <1>6

\* Entering a category shows it, unless its own load is to do so.
LEMMA EnterSane ==
    ASSUME NEW s, Sane(s), NEW c \in Category, active' = c,
           ~s.feeds[c].loading \/ Follows(s, c)
    PROVE  Sane(Enter(s, c)) /\ Follows(Enter(s, c), c)
<1>1. CASE s.feeds[c].videos
    <2> DEFINE q == PaintPage(s, c)
    <2>1. Sane(q) /\ q.view.cat = c
        BY PaintPageSane
    <2>2. Enter(s, c) \in {q, LoadFirstPage(q, c, TRUE)}
        BY <1>1 DEF Enter
    <2> HIDE DEF q
    <2>3. Follows(q, c)
        BY <2>1 DEF Follows
    <2>4. Sane(LoadFirstPage(q, c, TRUE)) /\ Follows(LoadFirstPage(q, c, TRUE), active')
        BY <2>1, <2>3, LoadFirstPageSane
    <2> QED BY <2>1, <2>2, <2>3, <2>4
<1>2. CASE ~s.feeds[c].videos /\ Follows(s, c)
    <2>1. Sane(LoadFirstPage(s, c, FALSE)) /\ Follows(LoadFirstPage(s, c, FALSE), active')
        BY <1>2, LoadFirstPageSane
    <2> QED BY <1>2, <2>1 DEF Enter
<1>3. CASE ~s.feeds[c].videos /\ ~s.feeds[c].loading
    <2> DEFINE l == Launch(s, c, "first", FALSE)
               p == Paint(l, "skeletons", c, FALSE)
    <2>1. Sane(l) /\ "skeletons" \in Showing
        BY LaunchSane DEF Showing
    <2>2. Enter(s, c) = p
        BY <1>3 DEF Enter, LoadFirstPage
    <2> HIDE DEF l
    <2>3. Sane(p) /\ p.view.cat = c
        BY <2>1, PaintPlainSane
    <2> QED BY <2>2, <2>3 DEF Follows
<1> QED BY <1>1, <1>2, <1>3

\* The finally block drops a load and its category's mark with it.
LEMMA FinishSane ==
    ASSUME Sane(Now), NEW i \in UnderWay
    PROVE  /\ Sane(Finish(i)) /\ Finish(i).view = view
           /\ Finish(i).feeds[loads[i].cat].loading = FALSE
           /\ loads[i] \in FeedLoad
<1> DEFINE r == SubSeq(loads, 1, i - 1) \o SubSeq(loads, i + 1, Len(loads))
           c == loads[i].cat
           f == [feeds EXCEPT ![c] = [feeds[c] EXCEPT !.loading = FALSE]]
<1>1. /\ loads \in Seq(FeedLoad) /\ feeds \in [Category -> FeedState] /\ view \in View
      /\ i \in 1..Len(loads) /\ i \in DOMAIN loads
    BY LenProperties DEF Sane, Screen, Now, UnderWay
<1>2. loads[i] \in FeedLoad /\ c \in Category
    <2>1. loads[i] \in FeedLoad
        BY <1>1, ElementOfSeq
    <2> QED BY <2>1 DEF FeedLoad
<1>3. r \in Seq(FeedLoad) /\ \A j \in DOMAIN loads : j # i => \E k \in DOMAIN r : r[k] = loads[j]
    BY <1>1, RemainingLoads
<1>4. /\ f \in [Category -> FeedState] /\ \A d \in Category : d # c => f[d] = feeds[d]
      /\ f[c].loading = FALSE /\ f[c].hasMore = feeds[c].hasMore /\ f[c].page = feeds[c].page
    BY <1>1, <1>2 DEF FeedState
<1>5. Finish(i) = [Now EXCEPT !.loads = r, !.feeds = f]
    BY DEF Finish, Now
<1> HIDE DEF r, f
<1>6. /\ Finish(i) \in Screen /\ Finish(i).feeds = f /\ Finish(i).loads = r
      /\ Finish(i).view = view
    BY <1>1, <1>3, <1>4, <1>5 DEF Now, Screen
<1>7. Ahead(Finish(i))
    BY <1>4, <1>6 DEF Sane, Ahead, Now
<1>8. Marked(Finish(i))
    <2> SUFFICES ASSUME NEW d \in Category, f[d].loading PROVE \E k \in DOMAIN r : r[k].cat = d
        BY <1>6 DEF Marked
    <2>1. d # c /\ feeds[d].loading
        BY <1>4
    <2>2. PICK j \in DOMAIN loads : loads[j].cat = d
        BY <2>1 DEF Sane, Marked, Now
    <2>3. j # i
        BY <2>1, <2>2
    <2> QED BY <1>3, <2>2, <2>3
<1> QED BY <1>2, <1>4, <1>6, <1>7, <1>8 DEF Sane

\* What is known of a category changes; the mark only goes.
LEMMA FeedRewritten ==
    ASSUME NEW s, Sane(s), NEW c \in Category, NEW f \in FeedState,
           f.loading => s.feeds[c].loading, f.hasMore => f.page <= MaxPage + 1
    PROVE  /\ Sane([s EXCEPT !.feeds[c] = f])
           /\ [s EXCEPT !.feeds[c] = f].view = s.view
<1> DEFINE t == [s EXCEPT !.feeds[c] = f]
           g == [s.feeds EXCEPT ![c] = f]
<1>1. s \in Screen /\ s.feeds \in [Category -> FeedState]
    BY DEF Sane, Screen
<1>2. t \in Screen /\ t.view = s.view /\ t.loads = s.loads /\ t.feeds = g
    BY <1>1 DEF Screen
<1>3. \A d \in Category : g[d] = IF d = c THEN f ELSE s.feeds[d]
    BY <1>1
<1> HIDE DEF t, g
<1>4. Ahead(t) /\ Marked(t)
    BY <1>2, <1>3 DEF Sane, Ahead, Marked
<1> QED BY <1>2, <1>4 DEF t, Sane

LEMMA ViewRewritten ==
    ASSUME NEW s, Sane(s), NEW v \in View
    PROVE  Sane([s EXCEPT !.view = v]) /\ [s EXCEPT !.view = v].view = v
BY DEF Sane, Screen, Ahead, Marked

\* What an action makes of the three is what the invariant is about.
LEMMA BecomesGives ==
    ASSUME NEW s, Sane(s), Becomes(s), active' \in Category, Follows(s, active')
    PROVE  FeedInv'
<1>1. s = [feeds |-> feeds', loads |-> loads', view |-> view']
    BY DEF Sane, Screen, Becomes
<1>2. Sane([feeds |-> feeds', loads |-> loads', view |-> view'])
    BY <1>1
<1>3. Follows([feeds |-> feeds', loads |-> loads', view |-> view'], active')
    BY <1>1
<1> QED BY <1>2, <1>3 DEF FeedInv, Sane, Ahead, Marked, Follows, Now

-----------------------------------------------------------------------------
(* The actions.                                                            *)

LEMMA FeedInvGives == FeedInv => ScreenFollows
<1> SUFFICES ASSUME FeedInv PROVE ScreenFollows
    OBVIOUS
<1>1. /\ feeds \in [Category -> FeedState] /\ loads \in Seq(FeedLoad) /\ view \in View
      /\ active \in Category
    BY DEF FeedInv, Sane, Screen, Now
<1>2. DOMAIN loads = UnderWay /\ \A i \in UnderWay : loads[i] \in FeedLoad
    BY <1>1, ElementOfSeq, LenProperties DEF UnderWay
<1>3. FeedTypeOK
    BY <1>1, <1>2, FeedOptions DEF FeedTypeOK, FeedState, FeedLoad, View
<1>4. view.on /\ view.heard => view.cat = active
    BY DEF FeedInv, Follows, Now
<1>5. \A c \in Category : feeds[c].loading => \E i \in UnderWay : loads[i].cat = c
    BY <1>2 DEF FeedInv, Sane, Marked, Now
<1> QED BY <1>3, <1>4, <1>5 DEF ScreenFollows

LEMMA FeedInitSane == FeedInit => FeedInv
<1> SUFFICES ASSUME FeedInit PROVE FeedInv
    OBVIOUS
<1>1. feeds \in [Category -> FeedState] /\ \A c \in Category : ~feeds[c].loading /\ feeds[c].page = 1
    BY FeedOptions DEF FeedInit, NewState, FeedState
<1>2. loads \in Seq(FeedLoad)
    BY DEF FeedInit
<1>3. view \in View /\ ~view.on
    BY FeedOptions DEF FeedInit, NoView, View
<1>4. active \in Category
    BY FeedOptions DEF FeedInit
<1> QED
    BY <1>1, <1>2, <1>3, <1>4, FeedOptions DEF FeedInv, Sane, Screen, Ahead, Marked, Follows, Now

LEMMA RenderKeeps == ASSUME FeedInv, RenderFreshView \/ RenderAgain PROVE FeedInv'
<1>1. active' = active /\ active \in Category /\ Sane(Now) /\ Follows(Now, active)
    BY DEF FeedInv, RenderFreshView, RenderAgain
<1>2. CASE RenderAgain
    <2>1. Sane(Enter(Now, active)) /\ Follows(Enter(Now, active), active)
        BY <1>1, EnterSane
    <2> QED BY <1>1, <1>2, <2>1, BecomesGives DEF RenderAgain
<1>3. CASE RenderFreshView
    <2> DEFINE b == BumpGeneration(Now)
               v == [NoView EXCEPT !.on = TRUE, !.cat = active]
               f == [b.feeds[active] EXCEPT !.loading = FALSE]
               q == [i \in DOMAIN b.loads |-> [b.loads[i] EXCEPT !.here = FALSE]]
               g == [b.feeds EXCEPT ![active].loading = FALSE]
               s == [view |-> v, feeds |-> g, loads |-> q]
    <2>1. Sane(b)
        BY <1>1, BumpSane
    <2>2. Becomes(Enter(s, active))
        BY <1>3 DEF RenderFreshView
    <2> HIDE DEF b
    <2>3. b \in Screen /\ b.loads \in Seq(FeedLoad) /\ b.feeds \in [Category -> FeedState]
        BY <2>1 DEF Sane, Screen
    <2>4. q \in Seq(FeedLoad) /\ DOMAIN q = DOMAIN b.loads /\ \A i \in DOMAIN q : q[i].cat = b.loads[i].cat
        <3>1. \A i \in DOMAIN b.loads : b.loads[i] \in FeedLoad
            BY <2>3, ElementOfSeq, LenProperties
        <3>2. \A i \in DOMAIN b.loads : q[i] \in FeedLoad /\ q[i].cat = b.loads[i].cat
            BY <3>1 DEF FeedLoad
        <3>3. q \in [DOMAIN b.loads -> FeedLoad]
            BY <3>2
        <3> QED BY <2>3, <3>2, <3>3, RewrittenLoads
    <2>5. v \in View
        BY <1>1 DEF View, NoView
    <2>6. f \in FeedState /\ ~f.loading /\ f.hasMore = b.feeds[active].hasMore
          /\ f.page = b.feeds[active].page
        BY <1>1, <2>3 DEF FeedState
    <2>7. g \in [Category -> FeedState] /\ \A c \in Category : g[c] = IF c = active THEN f ELSE b.feeds[c]
        BY <1>1, <2>3, <2>6
    <2>8. s.feeds = g /\ s.loads = q /\ s.view = v
        OBVIOUS
    <2> HIDE DEF v, f, q, g
    <2>9. s \in Screen
        BY <2>4, <2>5, <2>7 DEF Screen
    <2> HIDE DEF s
    <2>10. Ahead(s)
        BY <2>1, <2>6, <2>7, <2>8, <1>1 DEF Sane, Ahead
    <2>11. Marked(s)
        <3> SUFFICES ASSUME NEW c \in Category, g[c].loading
                     PROVE  \E i \in DOMAIN q : q[i].cat = c
            BY <2>8 DEF Marked
        <3>1. b.feeds[c].loading
            BY <2>6, <2>7
        <3> QED BY <2>1, <2>4, <3>1 DEF Sane, Marked
    <2>12. ~s.feeds[active].loading
        BY <1>1, <2>6, <2>7, <2>8
    <2>13. Sane(Enter(s, active)) /\ Follows(Enter(s, active), active)
        BY <1>1, <2>9, <2>10, <2>11, <2>12, EnterSane DEF Sane
    <2> QED BY <1>1, <2>2, <2>13, BecomesGives
<1> QED BY <1>2, <1>3

LEMMA LeaveKeeps == ASSUME FeedInv, Leave PROVE FeedInv'
<1>1. NoView \in View /\ ~NoView.on
    BY FeedOptions DEF NoView, View
<1> QED
    BY <1>1 DEF Leave, FeedInv, Sane, Screen, Ahead, Marked, Follows, Now

LEMMA AgesKeep ==
    ASSUME FeedInv, NEW c \in Category, GrowsOld(c) \/ CoolsDown(c)
    PROVE  FeedInv'
<1>1. /\ feeds \in [Category -> FeedState] /\ UNCHANGED <<active, view, loads>>
    BY DEF FeedInv, Sane, Screen, Now, GrowsOld, CoolsDown
<1>2. PICK f \in FeedState : /\ feeds' = [feeds EXCEPT ![c] = f]
                             /\ f.loading = feeds[c].loading /\ f.page = feeds[c].page
                             /\ f.hasMore = feeds[c].hasMore
    <2>1. [feeds[c] EXCEPT !.old = TRUE] \in FeedState /\ [feeds[c] EXCEPT !.cooling = FALSE] \in FeedState
        BY <1>1 DEF FeedState
    <2>2. /\ [feeds[c] EXCEPT !.old = TRUE].loading = feeds[c].loading
          /\ [feeds[c] EXCEPT !.old = TRUE].page = feeds[c].page
          /\ [feeds[c] EXCEPT !.old = TRUE].hasMore = feeds[c].hasMore
        BY <1>1 DEF FeedState
    <2>3. /\ [feeds[c] EXCEPT !.cooling = FALSE].loading = feeds[c].loading
          /\ [feeds[c] EXCEPT !.cooling = FALSE].page = feeds[c].page
          /\ [feeds[c] EXCEPT !.cooling = FALSE].hasMore = feeds[c].hasMore
        BY <1>1 DEF FeedState
    <2>4. \/ feeds' = [feeds EXCEPT ![c] = [feeds[c] EXCEPT !.old = TRUE]]
          \/ feeds' = [feeds EXCEPT ![c] = [feeds[c] EXCEPT !.cooling = FALSE]]
        BY DEF GrowsOld, CoolsDown
    <2> QED BY <2>1, <2>2, <2>3, <2>4
<1>3. feeds' \in [Category -> FeedState] /\ \A d \in Category : feeds'[d] = IF d = c THEN f ELSE feeds[d]
    BY <1>1, <1>2
<1>4. Now'.loads = Now.loads /\ Now'.view = Now.view /\ Now'.feeds = feeds' /\ Now.feeds = feeds
    BY <1>1 DEF Now
<1>5. Now' \in Screen
    BY <1>1, <1>3 DEF Now, FeedInv, Sane, Screen
<1>6. Ahead(Now')
    BY <1>2, <1>3, <1>4 DEF FeedInv, Sane, Ahead
<1>7. Marked(Now')
    BY <1>2, <1>3, <1>4 DEF FeedInv, Sane, Marked
<1>8. Follows(Now', active')
    BY <1>1, <1>4 DEF FeedInv, Follows
<1> QED BY <1>1, <1>5, <1>6, <1>7, <1>8 DEF FeedInv, Sane, Ahead, Marked, Follows, Now

\* A category with a load under way is left to that load, and the choice is
\* not acted upon.
LEMMA SelectCategoryKeeps ==
    ASSUME FeedInv, NEW c \in Category, SelectCategory(c)
    PROVE  FeedInv'
<1> DEFINE b == BumpGeneration(Now)
           v == [b.view EXCEPT !.heard = FALSE]
<1>1. active' = c /\ Sane(b) /\ b.feeds = feeds
    BY BumpSane DEF SelectCategory, FeedInv, Now
<1>2. Becomes(IF feeds[c].loading THEN [b EXCEPT !.view = v] ELSE Enter(b, c))
    BY DEF SelectCategory
<1> HIDE DEF b
<1>3. CASE feeds[c].loading
    <2>1. v \in View /\ ~v.heard
        BY <1>1 DEF Sane, Screen, View
    <2>2. Becomes([b EXCEPT !.view = v])
        BY <1>2, <1>3
    <2> HIDE DEF v
    <2>3. Sane([b EXCEPT !.view = v]) /\ [b EXCEPT !.view = v].view = v
        BY <1>1, <2>1, ViewRewritten
    <2>4. Follows([b EXCEPT !.view = v], c)
        BY <2>1, <2>3 DEF Follows
    <2> QED BY <1>1, <2>2, <2>3, <2>4, BecomesGives
<1>4. CASE ~feeds[c].loading
    <2>1. Becomes(Enter(b, c))
        BY <1>2, <1>4
    <2>2. Sane(Enter(b, c)) /\ Follows(Enter(b, c), c)
        BY <1>1, <1>4, EnterSane
    <2> QED BY <1>1, <2>1, <2>2, BecomesGives
<1> QED BY <1>3, <1>4

LEMMA RetryKeepsFeed == ASSUME FeedInv, Retry PROVE FeedInv'
<1>1. /\ active' = active /\ active \in Category /\ Sane(Now) /\ Follows(Now, active')
      /\ view.cat \in Category /\ Now.view = view
    BY DEF Retry, FeedInv, Sane, Screen, View, Now
<1>2. Becomes(LoadFirstPage(Now, view.cat, FALSE))
    BY DEF Retry
<1>3. /\ Sane(LoadFirstPage(Now, view.cat, FALSE))
      /\ Follows(LoadFirstPage(Now, view.cat, FALSE), active')
    BY <1>1, LoadFirstPageSane
<1> QED BY <1>1, <1>2, <1>3, BecomesGives

LEMMA ScrollKeeps == ASSUME FeedInv, Scroll PROVE FeedInv'
<1> DEFINE l == Launch(Now, active, "more", FALSE)
<1>1. /\ active' = active /\ active \in Category /\ Sane(Now) /\ Follows(Now, active)
      /\ Now.feeds[active].hasMore
    BY DEF Scroll, FeedInv, Now
<1>2. Becomes(l)
    BY DEF Scroll
<1>3. Sane(l) /\ l.view = Now.view
    BY <1>1, LaunchSane
<1> HIDE DEF l
<1>4. Follows(l, active')
    BY <1>1, <1>3 DEF Follows
<1> QED BY <1>1, <1>2, <1>3, <1>4, BecomesGives

-----------------------------------------------------------------------------
(* Loads that end.                                                         *)

LEMMA Answers ==
    ASSUME NEW n \in 1..(MaxPage + 1), NEW a \in Answer(n)
    PROVE  a.some \in BOOLEAN /\ a.more \in BOOLEAN /\ (a.more => n <= MaxPage)
<1>1. CASE n > MaxPage
    <2>1. a = [some |-> FALSE, more |-> FALSE]
        BY <1>1 DEF Answer
    <2> QED BY <2>1
<1>2. CASE ~(n > MaxPage)
    <2>1. a \in [some : BOOLEAN, more : BOOLEAN]
        BY <1>2 DEF Answer
    <2>2. n <= MaxPage
        BY <1>2, FeedOptions
    <2> QED BY <2>1, <2>2
<1> QED BY <1>1, <1>2

\* A load that has ended leaves the rest as it was.
LEMMA FinishKeeps ==
    ASSUME FeedInv, NEW i \in UnderWay, active' = active, Becomes(Finish(i))
    PROVE  FeedInv'
<1>1. Sane(Finish(i)) /\ Finish(i).view = view /\ active \in Category /\ Follows(Now, active)
    BY FinishSane DEF FeedInv
<1>2. Follows(Finish(i), active')
    BY <1>1 DEF Follows, Now
<1> QED BY <1>1, <1>2, BecomesGives

\* Only a load of this cycle and of the selected category is painted.
LEMMA FirstPageAnswersKeeps ==
    ASSUME FeedInv, NEW i \in UnderWay, FirstPageAnswers(i)
    PROVE  FeedInv'
<1> DEFINE c == loads[i].cat
           F(a) == [videos |-> a.some, page |-> 2, hasMore |-> a.more /\ a.some,
                    loading |-> FALSE, old |-> FALSE, cooling |-> FALSE]
           S(a) == [Finish(i) EXCEPT !.feeds[c] = F(a)]
<1>1. active' = active /\ active \in Category /\ Sane(Finish(i)) /\ c \in Category
    BY FinishSane DEF FeedInv, FirstPageAnswers, FeedLoad
<1>2. CASE c # active \/ ~Alive(loads[i])
    BY <1>1, <1>2, FinishKeeps DEF FirstPageAnswers
<1>3. CASE ~(c # active \/ ~Alive(loads[i]))
    <2>1. PICK a \in Answer(1) : Becomes(PaintPage(S(a), c))
        BY <1>3 DEF FirstPageAnswers
    <2>2. F(a) \in FeedState
        <3>1. a.some \in BOOLEAN /\ (a.more /\ a.some) \in BOOLEAN
            BY Answers, FeedOptions
        <3>2. 2 \in 1..(MaxPage + 2)
            BY FeedOptions
        <3> QED BY <3>1, <3>2 DEF FeedState
    <2>3. ~F(a).loading /\ F(a).page = 2 /\ 2 <= MaxPage + 1
        BY FeedOptions
    <2> DEFINE f == F(a)
    <2>4. f \in FeedState /\ ~f.loading /\ f.page <= MaxPage + 1
        BY <2>2, <2>3
    <2>5. S(a) = [Finish(i) EXCEPT !.feeds[c] = f]
        OBVIOUS
    <2> HIDE DEF f, S
    <2>6. Sane(S(a))
        BY <1>1, <2>4, <2>5, FeedRewritten
    <2>7. Sane(PaintPage(S(a), c)) /\ PaintPage(S(a), c).view.cat = c
        BY <1>1, <2>6, PaintPageSane
    <2>8. Follows(PaintPage(S(a), c), active')
        BY <1>1, <1>3, <2>7 DEF Follows
    <2> QED BY <1>1, <2>1, <2>7, <2>8, BecomesGives
<1> QED BY <1>2, <1>3

\* A load failed: the category cools down.
LEMMA CoolingSane ==
    ASSUME FeedInv, NEW i \in UnderWay
    PROVE  LET s == [Finish(i) EXCEPT !.feeds[loads[i].cat].cooling = TRUE]
           IN  Sane(s) /\ Follows(s, active)
<1> DEFINE c == loads[i].cat
           f == [Finish(i).feeds[c] EXCEPT !.cooling = TRUE]
           s == [Finish(i) EXCEPT !.feeds[c].cooling = TRUE]
<1>1. /\ Sane(Finish(i)) /\ Finish(i).view = view /\ c \in Category /\ Follows(Now, active)
    BY FinishSane DEF FeedInv, FeedLoad
<1>2. Finish(i).feeds[c] \in FeedState
    BY <1>1 DEF Sane, Screen
<1>3. /\ f \in FeedState /\ f.loading = Finish(i).feeds[c].loading
      /\ f.hasMore = Finish(i).feeds[c].hasMore /\ f.page = Finish(i).feeds[c].page
    BY <1>2 DEF FeedState
<1>4. s = [Finish(i) EXCEPT !.feeds[c] = f]
    OBVIOUS
<1> HIDE DEF f, s
<1>5. f.loading => Finish(i).feeds[c].loading
    BY <1>3
<1>6. f.hasMore => f.page <= MaxPage + 1
    BY <1>1, <1>3 DEF Sane, Ahead
<1>7. Sane(s) /\ s.view = view
    BY <1>1, <1>3, <1>4, <1>5, <1>6, FeedRewritten
<1>8. Follows(s, active)
    BY <1>1, <1>7 DEF Follows, Now
<1> QED BY <1>7, <1>8 DEF s

LEMMA FailsKeep ==
    ASSUME FeedInv, NEW i \in UnderWay, FirstPageFails(i) \/ MoreFails(i)
    PROVE  FeedInv'
<1> DEFINE c == loads[i].cat
           s == [Finish(i) EXCEPT !.feeds[c].cooling = TRUE]
           p == Paint(s, "error", c, FALSE)
<1>1. active' = active /\ active \in Category /\ c \in Category /\ Sane(s) /\ Follows(s, active)
    BY FinishSane, CoolingSane DEF FeedInv, FirstPageFails, MoreFails, FeedLoad
<1>2. Becomes(s) \/ (Becomes(p) /\ c = active)
    <2> DEFINE shown == c = active /\ view.on /\ loads[i].here /\ (~loads[i].silent \/ ~feeds[c].videos)
    <2>1. MoreFails(i) => Becomes(s)
        BY DEF MoreFails
    <2>2. FirstPageFails(i) => Becomes(IF shown THEN p ELSE s)
        BY DEF FirstPageFails
    <2>3. shown => c = active
        OBVIOUS
    <2> HIDE DEF p, s, shown
    <2> QED BY <2>1, <2>2, <2>3
<1> HIDE DEF s
<1>3. "error" \in Showing
    BY DEF Showing
<1>4. Sane(p) /\ p.view.cat = c
    BY <1>1, <1>3, PaintPlainSane
<1> HIDE DEF p
<1>5. c = active => Follows(p, active')
    BY <1>1, <1>4 DEF Follows
<1> QED BY <1>1, <1>2, <1>4, <1>5, BecomesGives

\* One round more, or the end of loadMore().
LEMMA MoreAnswersKeeps ==
    ASSUME FeedInv, NEW i \in UnderWay, MoreAnswers(i)
    PROVE  FeedInv'
<1> DEFINE c == loads[i].cat
           n == loads[i].page
           x == [loads[i] EXCEPT !.page = loads[i].page + 1, !.tries = loads[i].tries + 1]
           R == [Now EXCEPT !.loads[i] = x]
           S(a) == [Finish(i) EXCEPT !.feeds[c] = [@ EXCEPT !.page = n + 1, !.old = FALSE,
                                                   !.cooling = FALSE, !.hasMore = a.more /\ a.some]]
           T(a) == [S(a) EXCEPT !.view.sentinel = @ /\ a.more /\ a.some]
<1>1. /\ active' = active /\ active \in Category /\ Sane(Now) /\ Follows(Now, active)
      /\ Sane(Finish(i)) /\ Finish(i).view = view
      /\ loads[i] \in FeedLoad /\ c \in Category /\ n \in 1..(MaxPage + 1)
    BY FinishSane DEF FeedInv, MoreAnswers, FeedLoad
<1>2. CASE Becomes(Finish(i))
    BY <1>1, <1>2, FinishKeeps
<1>3. CASE \E a \in Answer(n) : a.more /\ Becomes(R)
    <2> DEFINE q == [loads EXCEPT ![i] = x]
    <2>1. n <= MaxPage
        BY <1>1, <1>3, Answers
    <2>2. x \in FeedLoad /\ x.cat = c
        <3>1. n + 1 \in 1..(MaxPage + 1) /\ loads[i].tries + 1 \in Nat
            BY <1>1, <2>1, FeedOptions DEF FeedLoad
        <3> QED BY <1>1, <3>1 DEF FeedLoad
    <2>3. loads \in Seq(FeedLoad) /\ feeds \in [Category -> FeedState] /\ view \in View
        BY <1>1 DEF Sane, Screen, Now
    <2> HIDE DEF x
    <2>4. q \in Seq(FeedLoad) /\ DOMAIN q = DOMAIN loads /\ \A j \in DOMAIN loads : q[j].cat = loads[j].cat
        BY <2>2, <2>3, ExceptSeq, LenProperties DEF UnderWay
    <2>5. R = [feeds |-> feeds, loads |-> q, view |-> view]
        BY DEF Now
    <2> HIDE DEF q, R
    <2>6. Sane(R) /\ Follows(R, active')
        BY <1>1, <2>3, <2>4, <2>5 DEF Sane, Screen, Ahead, Marked, Follows, Now
    <2> QED BY <1>1, <1>3, <2>6, BecomesGives
<1>4. CASE \E a \in Answer(n) : Becomes(T(a))
    <2>1. PICK a \in Answer(n) : Becomes(T(a))
        BY <1>4
    <2> DEFINE o == Finish(i).feeds[c]
               f == [o EXCEPT !.page = n + 1, !.old = FALSE, !.cooling = FALSE,
                              !.hasMore = a.more /\ a.some]
               s == [Finish(i) EXCEPT !.feeds[c] = f]
               v == [s.view EXCEPT !.sentinel = s.view.sentinel /\ a.more /\ a.some]
    <2>2. /\ o \in FeedState /\ (a.more /\ a.some) \in BOOLEAN
          /\ n + 1 \in 1..(MaxPage + 2) /\ (a.more => n + 1 <= MaxPage + 1)
        BY <1>1, Answers, FeedOptions DEF Sane, Screen
    <2>3. f \in FeedState
        BY <2>2 DEF FeedState
    <2>4. f.loading = o.loading /\ f.page = n + 1 /\ (f.hasMore => a.more)
        BY <2>2 DEF FeedState
    <2>5. S(a) = s /\ T(a) = [s EXCEPT !.view = v]
        OBVIOUS
    <2> HIDE DEF f
    <2>6. f.loading => Finish(i).feeds[c].loading
        BY <2>4
    <2>7. f.hasMore => f.page <= MaxPage + 1
        BY <2>2, <2>4
    <2>8. Sane(s) /\ s.view = view
        BY <1>1, <2>3, <2>6, <2>7, FeedRewritten
    <2> HIDE DEF s
    <2>9. v \in View /\ v.on = view.on /\ v.cat = view.cat /\ v.heard = view.heard
        BY <2>8 DEF Sane, Screen, View
    <2> HIDE DEF v
    <2>10. Sane([s EXCEPT !.view = v]) /\ [s EXCEPT !.view = v].view = v
        BY <2>8, <2>9, ViewRewritten
    <2>11. Follows([s EXCEPT !.view = v], active')
        BY <1>1, <2>9, <2>10 DEF Follows, Now
    <2>12. Becomes([s EXCEPT !.view = v])
        BY <2>1, <2>5
    <2> QED BY <1>1, <2>10, <2>11, <2>12, BecomesGives
<1>5. \/ Becomes(Finish(i))
      \/ \E a \in Answer(n) : a.more /\ Becomes(R)
      \/ \E a \in Answer(n) : Becomes(T(a))
    BY DEF MoreAnswers
<1> QED BY <1>2, <1>3, <1>4, <1>5

\* Waiting for a login rewrites no more than that of a load.
LEMMA GateKeepsFeed ==
    ASSUME FeedInv, FeedLoggedIn \/ \E i \in UnderWay : FeedUnauthorized(i)
    PROVE  FeedInv'
<1>1. /\ loads \in Seq(FeedLoad) /\ DOMAIN loads = UnderWay /\ feeds \in [Category -> FeedState]
      /\ view \in View /\ active \in Category /\ UNCHANGED <<active, feeds, view>>
    BY LenProperties
    DEF FeedInv, Sane, Screen, Now, FeedUnauthorized, FeedLoggedIn, UnderWay
<1>2. \A i \in UnderWay : loads[i] \in FeedLoad
    BY <1>1, ElementOfSeq, LenProperties
<1>3. \A i \in UnderWay, g \in BOOLEAN :
         [loads[i] EXCEPT !.gate = g] \in FeedLoad /\ [loads[i] EXCEPT !.gate = g].cat = loads[i].cat
    BY <1>2 DEF FeedLoad
<1>4. /\ loads' \in [DOMAIN loads -> FeedLoad]
      /\ \A i \in UnderWay : loads'[i].cat = loads[i].cat
    <2>1. CASE FeedLoggedIn
        BY <1>1, <1>3, <2>1 DEF FeedLoggedIn
    <2>2. ASSUME NEW i \in UnderWay, FeedUnauthorized(i)
          PROVE  /\ loads' \in [DOMAIN loads -> FeedLoad]
                 /\ \A j \in UnderWay : loads'[j].cat = loads[j].cat
        <3>1. loads' = [loads EXCEPT ![i] = [loads[i] EXCEPT !.gate = TRUE]]
            BY <2>2 DEF FeedUnauthorized
        <3> QED BY <1>1, <1>2, <1>3, <3>1
    <2> QED BY <2>1, <2>2
<1>5. loads' \in Seq(FeedLoad) /\ DOMAIN loads' = DOMAIN loads
    BY <1>1, <1>4, RewrittenLoads
<1> QED
    BY <1>1, <1>4, <1>5 DEF FeedInv, Sane, Screen, Ahead, Marked, Follows, Now

LEMMA FeedStep == FeedInv /\ [FeedNext]_feedVars => FeedInv'
<1> SUFFICES ASSUME FeedInv, [FeedNext]_feedVars PROVE FeedInv'
    OBVIOUS
<1>1. CASE UNCHANGED feedVars
    BY <1>1 DEF feedVars, FeedInv, Sane, Screen, Ahead, Marked, Follows, Now
<1>2. CASE FeedNext
    BY <1>2, RenderKeeps, LeaveKeeps, SelectCategoryKeeps, AgesKeep, RetryKeepsFeed, ScrollKeeps,
       FirstPageAnswersKeeps, FailsKeep, MoreAnswersKeeps, GateKeepsFeed DEF FeedNext, LoadSettles
<1> QED BY <1>1, <1>2

\* renderHomeFeed(), selectCategory(), loadFirstPage() and loadMore() in
\* src/frontend/js/components/homeFeed.js: whatever abandoned loads do when
\* they end, the content is the category's that was last chosen and entered, and
\* a category marked as loading has a load under way.
THEOREM ScreenAlwaysFollows == FeedSpec => []ScreenFollows
BY FeedInitSane, FeedStep, FeedInvGives, PTL DEF FeedSpec

-----------------------------------------------------------------------------
(* The offline copy in its tabs (src/frontend/js/services/offlineService.js): *)
(* the inductive invariant.                                                *)

PlaceOf == {"idle", "own1", "own2", "claim", "bail", "load", "wipe", "meta", "fetch", "login",
            "refetch", "write", "check", "ready", "pause1", "pause2"}

OperationRecord ==
    [pc : PlaceOf, count : 0..Chunks, proof : BOOLEAN, aborted : BOOLEAN, seen : RecordType]

\* Where a chunk is on its way.
Fetching == {"fetch", "login", "refetch", "write"}

LastOf(w) == w[Len(w)]

Registers(w) == \E i \in 1..Len(w) : w[i] = "own1"

\* What a tab has: at most one registration among its transactions, none once
\* its operation is past it, and beyond that nothing beside the operation.
TabShape(t) ==
    /\ op[t] \in OperationRecord
    /\ waiting[t] \in Seq({"cancel", "start"}) /\ todo[t] \in Seq({"release", "delete", "own1"})
    /\ last[t] \in {"none", "start", "cancel"}
    /\ waiting[t] # <<>> => op[t].aborted
    /\ op[t].pc = "idle" => op[t] = NoOp
    /\ op[t].pc = "own1" <=> Registers(todo[t])
    /\ \A i, j \in 1..Len(todo[t]) : todo[t][i] = "own1" /\ todo[t][j] = "own1" => i = j
    /\ op[t].pc \notin {"idle", "own1", "own2"} => todo[t] = <<>>
    /\ op[t].pc \in Fetching => op[t].count < Chunks
    /\ t \notin scenario.tabs => op[t] = NoOp /\ waiting[t] = <<>> /\ todo[t] = <<>> /\ last[t] = "none"

OwnShape ==
    /\ scenario \in Scenario
    /\ owner \in Tab \cup {"gone", "none"} /\ fresh \in BOOLEAN
    /\ rec \in RecordType
    /\ chunks \subseteq 0..(Chunks - 1)
    /\ op = [t \in Tab |-> op[t]] /\ last = [t \in Tab |-> last[t]]
    /\ DOMAIN waiting = Tab /\ DOMAIN todo = Tab
    /\ frozen \in [Tab -> BOOLEAN]
    /\ reloads \in 0..scenario.reloads
    /\ \A t \in Tab : TabShape(t)

\* What the download of a tab alone has seen of the copy still holds.
CopyHolds ==
    /\ rec.status = "ready" => chunks = 0..(Chunks - 1)
    /\ \A t \in Tab :
          /\ op[t].pc = "wipe" => rec.status # "ready"
          /\ op[t].pc = "ready" => chunks = 0..(Chunks - 1)

Gone == rec = NoRecord /\ chunks = {}

\* A cancel that was the last word waits behind nothing but cancels, or is a
\* transaction that is last, or is done.
WordHolds(t) ==
    last[t] = "cancel" =>
        \/ op[t].pc # "idle" /\ waiting[t] # <<>> /\ LastOf(waiting[t]) = "cancel"
        \/ op[t].pc = "idle" /\ todo[t] # <<>> /\ LastOf(todo[t]) = "delete"
        \/ op[t].pc = "idle" /\ todo[t] = <<>> /\ Gone

OwnInv == OwnShape /\ (Alone => CopyHolds /\ \A t \in Tab : WordHolds(t))

-----------------------------------------------------------------------------
(* Calls that wait, and chunks.                                            *)

LEMMA OwnFacts ==
    ASSUME OwnInv
    PROVE  /\ Chunks \in Nat \ {0} /\ scenario \in Scenario /\ scenario.tabs \in SUBSET Tab
           /\ IsFiniteSet(scenario.tabs) /\ scenario.reloads \in Nat
           /\ rec \in RecordType /\ chunks \subseteq 0..(Chunks - 1)
           /\ op = [t \in Tab |-> op[t]] /\ last = [t \in Tab |-> last[t]]
           /\ DOMAIN op = Tab /\ DOMAIN waiting = Tab /\ DOMAIN todo = Tab /\ DOMAIN last = Tab
           /\ frozen \in [Tab -> BOOLEAN] /\ reloads \in 0..scenario.reloads
           /\ owner \in Tab \cup {"gone", "none"} /\ fresh \in BOOLEAN
           /\ NoRecord \in RecordType
<1>1. scenario \in [tabs : SUBSET Tab, chunks : Nat \ {0}, waiting : Nat, reloads : Nat,
                    failures : Nat, freezing : BOOLEAN]
    BY OwnershipAssumption DEF OwnInv, OwnShape
<1>2. Chunks \in Nat \ {0} /\ scenario.tabs \in SUBSET Tab /\ scenario.reloads \in Nat
    BY <1>1 DEF Chunks
<1>3. IsFiniteSet(scenario.tabs)
    BY <1>2, OwnershipAssumption, FS_Subset
<1>4. NoRecord \in RecordType
    BY <1>2 DEF NoRecord, RecordType
<1>5. op = [t \in Tab |-> op[t]] /\ last = [t \in Tab |-> last[t]]
    BY DEF OwnInv, OwnShape
<1>6. DOMAIN op = Tab /\ DOMAIN last = Tab
    BY <1>5
<1> QED BY <1>2, <1>3, <1>4, <1>5, <1>6 DEF OwnInv, OwnShape

\* A tab alone is the only one that has the video open.
LEMMA OneTab ==
    ASSUME OwnInv, Alone, NEW t \in scenario.tabs, NEW u \in scenario.tabs
    PROVE  t = u
<1>1. \E x : scenario.tabs = {x}
    BY OwnFacts, FS_Singleton DEF Alone
<1> QED BY <1>1

LEMMA PrefixIs ==
    ASSUME NEW n \in Nat, NEW S \in SUBSET (0..(n - 1))
    PROVE  Prefix(S) \in 0..n /\ (Prefix(S) = n <=> S = 0..(n - 1))
<1> DEFINE P == {i \in S : 0..i \subseteq S}
           N == 0..(n - 1)
<1>1. IsFiniteSet(N) /\ Cardinality(N) = n
    BY FS_Interval
<1>2. P \in SUBSET N
    OBVIOUS
<1>3. IsFiniteSet(P) /\ Cardinality(P) <= Cardinality(N) /\ (Cardinality(N) = Cardinality(P) => N = P)
    BY <1>1, <1>2, FS_Subset
<1>4. Cardinality(P) \in Nat
    BY <1>3, FS_CardinalityType
<1>5. Prefix(S) = Cardinality(P)
    BY DEF Prefix
<1> HIDE DEF P
<1>6. P = N <=> S = N
    <2>1. \A i \in N : 0..i \subseteq N
        OBVIOUS
    <2> QED BY <1>2, <2>1 DEF P
<1> HIDE DEF N
<1> QED BY <1>1, <1>3, <1>4, <1>5, <1>6 DEF N

Word == {"cancel", "start"}
Transaction == {"release", "delete", "own1"}

\* One registration at most goes on, and none when nobody asked for one.
LEMMA ContinueIs ==
    ASSUME NEW w \in Seq(Word)
    PROVE  /\ Continue(w) \in Seq({"delete", "own1"})
           /\ \A i, j \in 1..Len(Continue(w)) :
                 Continue(w)[i] = "own1" /\ Continue(w)[j] = "own1" => i = j
           /\ (\A i \in 1..Len(w) : w[i] = "cancel") =>
                 Len(Continue(w)) = Len(w) /\ \A i \in 1..Len(w) : Continue(w)[i] = "delete"
<1> DEFINE first(i) == i \in 1..Len(w) /\ w[i] = "start" /\ \A j \in 1..(i - 1) : w[j] = "cancel"
           kept == {i \in 1..Len(w) : w[i] = "cancel" \/ first(i)}
           n == Cardinality(kept)
           c == Continue(w)
<1>1. Len(w) \in Nat /\ \A i \in 1..Len(w) : w[i] \in Word
    OBVIOUS
<1>2. IsFiniteSet(1..Len(w)) /\ Cardinality(1..Len(w)) = Len(w)
    <2>1. /\ IsFiniteSet(1..Len(w))
          /\ Cardinality(1..Len(w)) = IF 1 > Len(w) THEN 0 ELSE Len(w) - 1 + 1
        BY <1>1, FS_Interval
    <2> QED BY <1>1, <2>1
<1>3. n \in Nat
    BY <1>2, FS_Subset, FS_CardinalityType
<1>4. c = [i \in 1..n |-> IF first(i) THEN "own1" ELSE "delete"]
    BY DEF Continue
<1>5. ASSUME NEW i, NEW j, first(i), first(j) PROVE i = j
    <2>1. i \in Nat /\ j \in Nat /\ i \in 1..Len(w) /\ j \in 1..Len(w)
        BY <1>1, <1>5
    <2>2. ~(i < j) /\ ~(j < i)
        <3>1. i < j => i \in 1..(j - 1)
            BY <2>1
        <3>2. j < i => j \in 1..(i - 1)
            BY <2>1
        <3> QED BY <1>5, <3>1, <3>2
    <2> QED BY <2>1, <2>2
<1>6. ASSUME \A i \in 1..Len(w) : w[i] = "cancel"
      PROVE  kept = 1..Len(w) /\ \A i : ~first(i)
    BY <1>6
<1> HIDE DEF first, kept, n, c
<1>7. /\ c \in Seq({"delete", "own1"}) /\ Len(c) = n
      /\ \A i \in 1..n : c[i] = IF first(i) THEN "own1" ELSE "delete"
    BY <1>3, <1>4
<1>8. \A i, j \in 1..Len(c) : c[i] = "own1" /\ c[j] = "own1" => i = j
    BY <1>5, <1>7
<1>9. (\A i \in 1..Len(w) : w[i] = "cancel") =>
        Len(c) = Len(w) /\ \A i \in 1..Len(w) : c[i] = "delete"
    BY <1>2, <1>6, <1>7 DEF n
<1> QED BY <1>7, <1>8, <1>9 DEF c

LEMMA JoinedIs ==
    ASSUME NEW S, NEW a \in Seq(S), NEW b \in Seq(S)
    PROVE  /\ a \o b \in Seq(S) /\ Len(a \o b) = Len(a) + Len(b)
           /\ \A i \in 1..Len(a) : (a \o b)[i] = a[i]
           /\ \A i \in 1..Len(b) : (a \o b)[Len(a) + i] = b[i]
           /\ \A i \in 1..Len(a \o b) : i \in 1..Len(a) \/ (i - Len(a)) \in 1..Len(b)
OBVIOUS

\* What is done when the calls that waited go on: nothing is registered twice,
\* and a tab whose last word was a cancel has a delete as its last transaction.
LEMMA ContinuedIs ==
    ASSUME NEW before \in Seq({"release", "delete"}), NEW w \in Seq(Word)
    PROVE  LET d == before \o Continue(w) IN
           /\ d \in Seq(Transaction)
           /\ Registers(d) <=> \E i \in 1..Len(Continue(w)) : Continue(w)[i] = "own1"
           /\ \A i, j \in 1..Len(d) : d[i] = "own1" /\ d[j] = "own1" => i = j
           /\ w # <<>> /\ LastOf(w) = "cancel" /\ ~Overtaken(w) =>
                 d # <<>> /\ LastOf(d) = "delete" /\ ~Registers(d)
<1> DEFINE c == Continue(w)
           d == before \o c
           m == Len(before)
           n == Len(c)
<1>1. /\ c \in Seq({"delete", "own1"}) /\ \A i, j \in 1..n : c[i] = "own1" /\ c[j] = "own1" => i = j
      /\ (\A i \in 1..Len(w) : w[i] = "cancel") => n = Len(w) /\ \A i \in 1..Len(w) : c[i] = "delete"
    BY ContinueIs
<1> HIDE DEF c
<1>2. c \in Seq(Transaction) /\ before \in Seq(Transaction) /\ m \in Nat /\ n \in Nat /\ Len(w) \in Nat
    BY <1>1 DEF Transaction
<1>3. /\ d \in Seq(Transaction) /\ Len(d) = m + n
      /\ \A i \in 1..m : d[i] = before[i]
      /\ \A i \in 1..n : d[m + i] = c[i]
      /\ \A i \in 1..Len(d) : i \in 1..m \/ (i - m) \in 1..n
    BY <1>2, JoinedIs
<1>4. \A i \in 1..m : before[i] # "own1"
    OBVIOUS
<1> HIDE DEF d, m, n
<1>5. \A i \in 1..Len(d) : d[i] = "own1" => (i - m) \in 1..n /\ c[i - m] = "own1"
    <2> SUFFICES ASSUME NEW i \in 1..Len(d), d[i] = "own1"
                 PROVE  (i - m) \in 1..n /\ c[i - m] = "own1"
        OBVIOUS
    <2>1. (i - m) \in 1..n
        BY <1>3, <1>4
    <2>2. i = m + (i - m)
        BY <1>2, <1>3
    <2> QED BY <1>3, <2>1, <2>2
<1>6. \A i \in 1..n : m + i \in 1..Len(d)
    BY <1>2, <1>3
<1>7. Registers(d) <=> \E i \in 1..n : c[i] = "own1"
    BY <1>3, <1>5, <1>6 DEF Registers
<1>8. \A i, j \in 1..Len(d) : d[i] = "own1" /\ d[j] = "own1" => i = j
    <2> SUFFICES ASSUME NEW i \in 1..Len(d), NEW j \in 1..Len(d), d[i] = "own1", d[j] = "own1"
                 PROVE  i = j
        OBVIOUS
    <2>1. i - m = j - m
        BY <1>1, <1>5 DEF n
    <2> QED BY <1>2, <1>3, <2>1
<1>9. ASSUME w # <<>>, LastOf(w) = "cancel", ~Overtaken(w)
      PROVE  d # <<>> /\ LastOf(d) = "delete" /\ ~Registers(d)
    <2>1. Len(w) \in Nat \ {0} /\ Len(w) \in 1..Len(w) /\ w[Len(w)] = "cancel"
        BY <1>2, <1>9 DEF LastOf
    <2>2. \A i \in 1..Len(w) : w[i] \in Word
        OBVIOUS
    <2>3. ASSUME NEW i \in 1..Len(w), w[i] = "start" PROVE FALSE
        <3>1. i # Len(w)
            BY <2>1, <2>3
        <3>2. i < Len(w)
            BY <2>1, <3>1
        <3> QED BY <1>9, <2>1, <2>3, <3>2 DEF Overtaken
    <2>4. n = Len(w) /\ \A i \in 1..n : c[i] = "delete"
        BY <1>1, <2>2, <2>3 DEF Word, n
    <2>5. Len(d) = m + n /\ d[m + n] = "delete" /\ Len(d) # 0
        BY <1>2, <1>3, <2>1, <2>4
    <2>6. d # <<>>
        BY <2>5
    <2> QED BY <1>7, <2>4, <2>5, <2>6 DEF LastOf
<1> QED BY <1>3, <1>7, <1>8, <1>9 DEF d, n, c

-----------------------------------------------------------------------------
(* What a step of one tab leaves.                                          *)

\* The tabs beside t are as they were.
OthersSame(t) ==
    /\ op' = [u \in Tab |-> op'[u]] /\ last' = [u \in Tab |-> last'[u]]
    /\ DOMAIN waiting' = Tab /\ DOMAIN todo' = Tab
    /\ \A u \in Tab : u # t =>
          op'[u] = op[u] /\ waiting'[u] = waiting[u] /\ todo'[u] = todo[u] /\ last'[u] = last[u]

LEMMA TypesStay ==
    ASSUME UNCHANGED scenario
    PROVE  /\ Chunks' = Chunks /\ RecordType' = RecordType /\ OperationRecord' = OperationRecord
           /\ (Alone' <=> Alone)
BY DEF Chunks, RecordType, OperationRecord, Alone

LEMMA FrameKeeps ==
    ASSUME OwnInv, NEW t \in scenario.tabs, UNCHANGED scenario, OthersSame(t),
           owner' \in Tab \cup {"gone", "none"}, fresh' \in BOOLEAN, rec' \in RecordType,
           chunks' \subseteq 0..(Chunks - 1), frozen' \in [Tab -> BOOLEAN],
           reloads' \in 0..scenario.reloads, TabShape(t)',
           Alone => /\ WordHolds(t)'
                    /\ rec'.status = "ready" => chunks' = 0..(Chunks - 1)
                    /\ op'[t].pc = "wipe" => rec'.status # "ready"
                    /\ op'[t].pc = "ready" => chunks' = 0..(Chunks - 1)
    PROVE  OwnInv'
<1>1. /\ Chunks' = Chunks /\ RecordType' = RecordType /\ OperationRecord' = OperationRecord
      /\ (Alone' <=> Alone) /\ t \in Tab /\ scenario' = scenario
    BY TypesStay, OwnFacts
<1>2. ASSUME NEW u \in Tab, u # t PROVE TabShape(u)'
    <2>1. TabShape(u)
        BY DEF OwnInv, OwnShape
    <2>2. /\ op'[u] = op[u] /\ waiting'[u] = waiting[u] /\ todo'[u] = todo[u]
          /\ last'[u] = last[u]
        BY <1>2 DEF OthersSame
    <2> QED BY <1>1, <2>1, <2>2 DEF TabShape, Registers
<1>3. OwnShape'
    <2>1. \A u \in Tab : TabShape(u)'
        BY <1>2
    <2> QED BY <1>1, <2>1, OwnFacts DEF OwnShape, OthersSame
<1>4. ASSUME Alone, NEW u \in Tab, u # t
      PROVE  WordHolds(u)' /\ op'[u].pc = "idle"
    <2>1. TabShape(u) /\ u \notin scenario.tabs
        BY <1>4, OneTab DEF OwnInv, OwnShape
    <2>2. op'[u] = NoOp /\ last'[u] = "none"
        BY <1>4, <2>1 DEF TabShape, OthersSame
    <2> QED BY <2>2 DEF WordHolds, NoOp
<1>5. ASSUME Alone PROVE CopyHolds' /\ \A u \in Tab : WordHolds(u)'
    <2>1. \A u \in Tab : WordHolds(u)'
        BY <1>4, <1>5
    <2>2. \A u \in Tab : u # t => op'[u].pc = "idle"
        BY <1>4, <1>5
    <2> QED BY <1>1, <1>5, <2>1, <2>2 DEF CopyHolds
<1> QED BY <1>1, <1>3, <1>5 DEF OwnInv

\* What the inductive invariant says of one tab.
LEMMA TabFacts ==
    ASSUME OwnInv, NEW t \in scenario.tabs
    PROVE  /\ t \in Tab /\ TabShape(t) /\ op[t] \in OperationRecord
           /\ Alone => /\ WordHolds(t)
                       /\ rec.status = "ready" => chunks = 0..(Chunks - 1)
                       /\ op[t].pc = "wipe" => rec.status # "ready"
                       /\ op[t].pc = "ready" => chunks = 0..(Chunks - 1)
BY OwnFacts DEF OwnInv, OwnShape, TabShape, CopyHolds

LEMMA NewOpIs ==
    ASSUME OwnInv
    PROVE  /\ NoOp \in OperationRecord /\ NewOp \in OperationRecord
           /\ NewOp.pc = "own1" /\ NoOp.pc = "idle" /\ ~NoOp.aborted /\ ~NewOp.aborted
<1>1. NoRecord \in RecordType /\ 0 \in 0..Chunks
    BY OwnFacts
<1>2. NoOp = [pc |-> "idle", count |-> 0, proof |-> FALSE, aborted |-> FALSE, seen |-> NoRecord]
    BY DEF NoOp
<1>3. NoOp \in OperationRecord
    BY <1>1, <1>2 DEF OperationRecord, PlaceOf
<1>4. /\ NewOp = [NoOp EXCEPT !.pc = "own1"] /\ NewOp \in OperationRecord /\ NewOp.pc = "own1"
      /\ NewOp.aborted = NoOp.aborted
    BY <1>3 DEF NewOp, OperationRecord, PlaceOf
<1> QED BY <1>2, <1>3, <1>4

\* A step that only takes the operation on.
LEMMA OperationGoesOn ==
    ASSUME OwnInv, NEW t \in scenario.tabs, UNCHANGED <<scenario, waiting, todo, last>>,
           NEW o \in OperationRecord, op' = [op EXCEPT ![t] = o],
           o.pc \notin {"idle", "own1"}, o.aborted = op[t].aborted,
           o.pc \in Fetching => o.count < Chunks,
           op[t].pc \notin {"idle", "own1"}, todo[t] = <<>>
    PROVE  OthersSame(t) /\ TabShape(t)' /\ (Alone => WordHolds(t)') /\ op'[t] = o
<1>1. /\ t \in Tab /\ TabShape(t) /\ (Alone => WordHolds(t)) /\ DOMAIN op = Tab
    BY TabFacts, OwnFacts
<1>2. op'[t] = o /\ OthersSame(t)
    BY <1>1, OwnFacts DEF OthersSame
<1>3. TabShape(t)'
    BY <1>1, <1>2, TypesStay DEF TabShape, Registers
<1>4. Alone => WordHolds(t)'
    BY <1>1, <1>2 DEF WordHolds
<1> QED BY <1>2, <1>3, <1>4

\* A step that ends the operation and lets the waiting calls go on.
LEMMA SettleIs ==
    ASSUME OwnInv, NEW t \in scenario.tabs, UNCHANGED scenario,
           NEW before \in Seq({"release", "delete"}), Settle(t, before), op[t].pc # "idle"
    PROVE  /\ OthersSame(t) /\ TabShape(t)' /\ (Alone => WordHolds(t)')
           /\ op'[t].pc \in {"idle", "own1"} /\ UNCHANGED <<frozen, reloads>>
<1> DEFINE w == waiting[t]
           d == before \o Continue(w)
           word == IF Overtaken(w) THEN "none" ELSE last[t]
<1>1. /\ t \in Tab /\ TabShape(t) /\ (Alone => WordHolds(t)) /\ w \in Seq(Word)
      /\ DOMAIN op = Tab /\ DOMAIN waiting = Tab /\ DOMAIN todo = Tab /\ DOMAIN last = Tab
    BY TabFacts, OwnFacts DEF TabShape, Word
<1>2. /\ d \in Seq(Transaction)
      /\ Registers(d) <=> \E i \in 1..Len(Continue(w)) : Continue(w)[i] = "own1"
      /\ \A i, j \in 1..Len(d) : d[i] = "own1" /\ d[j] = "own1" => i = j
      /\ w # <<>> /\ LastOf(w) = "cancel" /\ ~Overtaken(w) =>
            d # <<>> /\ LastOf(d) = "delete" /\ ~Registers(d)
    BY <1>1, ContinuedIs
<1>3. /\ op' = [op EXCEPT ![t] = IF \E i \in 1..Len(Continue(w)) : Continue(w)[i] = "own1"
                                  THEN NewOp ELSE NoOp]
      /\ waiting' = [waiting EXCEPT ![t] = <<>>] /\ todo' = [todo EXCEPT ![t] = d]
      /\ last' = IF Alone THEN [last EXCEPT ![t] = word] ELSE last
      /\ UNCHANGED <<frozen, reloads>>
    BY DEF Settle, Said
<1> HIDE DEF d, word
<1>4. /\ op'[t] = (IF Registers(d) THEN NewOp ELSE NoOp)
      /\ waiting'[t] = <<>> /\ todo'[t] = d
      /\ last'[t] = (IF Alone THEN word ELSE last[t])
      /\ OthersSame(t)
    BY <1>1, <1>2, <1>3, OwnFacts DEF OthersSame
<1>5. word \in {"none", "start", "cancel"} /\ (word = "cancel" => ~Overtaken(w) /\ last[t] = "cancel")
    BY <1>1 DEF word, TabShape
<1>6. TabShape(t)'
    BY <1>1, <1>2, <1>4, <1>5, NewOpIs, TypesStay DEF TabShape, Transaction, Fetching
<1>7. ASSUME Alone PROVE WordHolds(t)'
    <2> SUFFICES ASSUME last'[t] = "cancel"
                 PROVE  op'[t].pc = "idle" /\ todo'[t] # <<>> /\ LastOf(todo'[t]) = "delete"
        BY DEF WordHolds
    <2>1. ~Overtaken(w) /\ last[t] = "cancel"
        BY <1>4, <1>5, <1>7
    <2>2. w # <<>> /\ LastOf(w) = "cancel"
        BY <1>1, <1>7, <2>1 DEF WordHolds
    <2> QED BY <1>2, <1>4, <2>1, <2>2, NewOpIs
<1>8. op'[t].pc \in {"idle", "own1"}
    BY <1>4, NewOpIs
<1> QED BY <1>3, <1>4, <1>6, <1>7, <1>8

LEMMA AppendedIs ==
    ASSUME NEW S, NEW d \in Seq(S), NEW x \in S
    PROVE  LET e == Append(d, x) IN
           /\ e \in Seq(S) /\ e # <<>> /\ LastOf(e) = x
           /\ Registers(e) <=> Registers(d) \/ x = "own1"
           /\ /\ ~Registers(d) \/ x # "own1"
              /\ \A i, j \in 1..Len(d) : d[i] = "own1" /\ d[j] = "own1" => i = j
              => \A i, j \in 1..Len(e) : e[i] = "own1" /\ e[j] = "own1" => i = j
<1> DEFINE e == Append(d, x)
           n == Len(d)
<1>1. /\ e \in Seq(S) /\ Len(e) = n + 1 /\ n \in Nat /\ e[n + 1] = x
      /\ \A i \in 1..n : e[i] = d[i]
    OBVIOUS
<1> HIDE DEF e, n
<1>2. \A i \in 1..Len(e) : i \in 1..n \/ i = n + 1
    BY <1>1
<1>3. (\A i \in 1..n : i \in 1..Len(e)) /\ n + 1 \in 1..Len(e) /\ e # <<>>
    BY <1>1
<1>4. LastOf(e) = x
    BY <1>1 DEF LastOf
<1>5. Registers(e) <=> (\E i \in 1..n : d[i] = "own1") \/ x = "own1"
    BY <1>1, <1>2, <1>3 DEF Registers
<1>6. ASSUME ~(\E i \in 1..n : d[i] = "own1") \/ x # "own1",
             \A i, j \in 1..n : d[i] = "own1" /\ d[j] = "own1" => i = j
      PROVE  \A i, j \in 1..Len(e) : e[i] = "own1" /\ e[j] = "own1" => i = j
    BY <1>1, <1>2, <1>6
<1> QED BY <1>1, <1>3, <1>4, <1>5, <1>6 DEF e, n, Registers

LEMMA TailIs ==
    ASSUME NEW d \in Seq(Transaction), d # <<>>,
           \A i, j \in 1..Len(d) : d[i] = "own1" /\ d[j] = "own1" => i = j
    PROVE  LET e == Tail(d) IN
           /\ e \in Seq(Transaction)
           /\ \A i, j \in 1..Len(e) : e[i] = "own1" /\ e[j] = "own1" => i = j
           /\ Head(d) = "own1" => Registers(d) /\ ~Registers(e) /\ e \in Seq({"release", "delete"})
           /\ Head(d) # "own1" => (Registers(e) <=> Registers(d))
           /\ LastOf(d) = IF e = <<>> THEN Head(d) ELSE LastOf(e)
<1> DEFINE e == Tail(d)
           n == Len(d)
<1>1. /\ e \in Seq(Transaction) /\ Len(e) = n - 1 /\ n \in Nat \ {0} /\ Head(d) = d[1]
      /\ \A i \in 1..(n - 1) : e[i] = d[i + 1]
    OBVIOUS
<1> HIDE DEF e, n
<1>2. \A i \in 1..(n - 1) : i + 1 \in 1..n /\ i + 1 # 1
    BY <1>1
<1>3. \A i \in 1..n : i = 1 \/ ((i - 1) \in 1..(n - 1) /\ (i - 1) + 1 = i)
    BY <1>1
<1>4. \A i, j \in 1..Len(e) : e[i] = "own1" /\ e[j] = "own1" => i = j
    <2> SUFFICES ASSUME NEW i \in 1..(n - 1), NEW j \in 1..(n - 1), e[i] = "own1", e[j] = "own1"
                 PROVE  i = j
        BY <1>1
    <2>1. i + 1 = j + 1
        BY <1>1, <1>2 DEF n
    <2> QED BY <2>1
<1>5. 1 \in 1..n
    BY <1>1
<1>6. ASSUME Head(d) = "own1"
      PROVE  Registers(d) /\ ~Registers(e) /\ e \in Seq({"release", "delete"})
    <2>1. \A i \in 1..(n - 1) : e[i] # "own1"
        <3> SUFFICES ASSUME NEW i \in 1..(n - 1), e[i] = "own1" PROVE FALSE
            OBVIOUS
        <3>1. d[i + 1] = "own1" /\ d[1] = "own1" /\ i + 1 \in 1..n /\ i + 1 # 1
            BY <1>1, <1>2, <1>6
        <3> QED BY <1>5, <3>1 DEF n
    <2>2. \A i \in 1..(n - 1) : e[i] \in {"release", "delete"}
        BY <1>1, <2>1 DEF Transaction
    <2>3. e \in Seq({"release", "delete"})
        BY <1>1, <2>2
    <2> QED BY <1>1, <1>5, <1>6, <2>1, <2>3 DEF Registers, n
<1>7. ASSUME Head(d) # "own1" PROVE Registers(e) <=> Registers(d)
    <2>1. ASSUME NEW i \in 1..n, d[i] = "own1" PROVE \E j \in 1..(n - 1) : e[j] = "own1"
        <3>1. (i - 1) \in 1..(n - 1) /\ (i - 1) + 1 = i
            BY <1>1, <1>3, <1>7, <2>1
        <3>2. e[i - 1] = "own1"
            BY <1>1, <2>1, <3>1
        <3> QED BY <3>1, <3>2
    <2> QED BY <1>1, <1>2, <2>1 DEF Registers, n
<1>8. LastOf(d) = IF e = <<>> THEN Head(d) ELSE LastOf(e)
    <2>1. CASE n = 1
        BY <1>1, <2>1 DEF LastOf, n
    <2>2. CASE n # 1
        <3>1. n - 1 \in 1..(n - 1) /\ (n - 1) + 1 = n /\ e # <<>>
            BY <1>1, <2>2
        <3> QED BY <1>1, <3>1 DEF LastOf, n
    <2> QED BY <2>1, <2>2
<1> QED BY <1>1, <1>4, <1>6, <1>7, <1>8 DEF e

\* A step of a tab, without what it does to the store.
Moved(t) ==
    OthersSame(t) /\ TabShape(t)' /\ (Alone => WordHolds(t)') /\ UNCHANGED <<frozen, reloads>>

LEMMA MovedKeeps ==
    ASSUME OwnInv, NEW t \in scenario.tabs, UNCHANGED scenario, Moved(t),
           owner' \in Tab \cup {"gone", "none"}, fresh' \in BOOLEAN, rec' \in RecordType,
           chunks' \subseteq 0..(Chunks - 1),
           Alone => /\ rec'.status = "ready" => chunks' = 0..(Chunks - 1)
                    /\ op'[t].pc = "wipe" => rec'.status # "ready"
                    /\ op'[t].pc = "ready" => chunks' = 0..(Chunks - 1)
    PROVE  OwnInv'
BY OwnFacts, FrameKeeps DEF Moved

LEMMA GotoIs ==
    ASSUME OwnInv, NEW t \in scenario.tabs, UNCHANGED scenario, NEW pc \in PlaceOf, Goto(t, pc),
           pc \notin {"idle", "own1"}, pc \in Fetching => op[t].count < Chunks,
           op[t].pc \notin {"idle", "own1"}, todo[t] = <<>>
    PROVE  Moved(t) /\ op'[t].pc = pc
<1> DEFINE o == [op[t] EXCEPT !.pc = pc]
<1>1. op[t] \in OperationRecord
    BY TabFacts
<1>2. /\ o \in OperationRecord /\ o.pc = pc /\ o.aborted = op[t].aborted /\ o.count = op[t].count
    BY <1>1 DEF OperationRecord
<1>3. op' = [op EXCEPT ![t] = o] /\ UNCHANGED <<waiting, todo, last, frozen, reloads>>
    BY DEF Goto, calls
<1> HIDE DEF o
<1> QED BY <1>2, <1>3, OperationGoesOn DEF Moved

LEMMA DoneIs ==
    ASSUME OwnInv, NEW t \in scenario.tabs, UNCHANGED scenario, Done(t), op[t].pc # "idle"
    PROVE  Moved(t) /\ op'[t].pc \in {"idle", "own1"}
<1>1. <<"release">> \in Seq({"release", "delete"})
    OBVIOUS
<1> QED BY <1>1, SettleIs DEF Done, Moved

LEMMA FailsIs ==
    ASSUME OwnInv, NEW t \in scenario.tabs, UNCHANGED scenario, Fails(t),
           op[t].pc \notin {"idle", "own1"}, todo[t] = <<>>
    PROVE  Moved(t) /\ op'[t].pc \in {"idle", "own1", "pause1"}
<1>1. "pause1" \in PlaceOf
    BY DEF PlaceOf
<1> QED BY <1>1, DoneIs, GotoIs DEF Fails, Fetching

-----------------------------------------------------------------------------
(* Each step.                                                              *)

\* The store and the tabs' calls stay; claims, heartbeats and frozen tabs may change.
LEMMA QuietKeeps ==
    ASSUME OwnInv, UNCHANGED <<scenario, op, waiting, todo, last, rec, chunks, reloads>>,
           owner' \in Tab \cup {"gone", "none"}, fresh' \in BOOLEAN, frozen' \in [Tab -> BOOLEAN]
    PROVE  OwnInv'
<1>1. \A t \in Tab : TabShape(t)'
    BY TypesStay DEF OwnInv, OwnShape, TabShape, Registers
<1>2. OwnShape'
    BY <1>1, TypesStay, OwnFacts DEF OwnShape
<1>3. ASSUME Alone PROVE CopyHolds' /\ \A t \in Tab : WordHolds(t)'
    BY <1>3, TypesStay DEF OwnInv, CopyHolds, WordHolds, Gone
<1> QED BY <1>2, <1>3, TypesStay DEF OwnInv

LEMMA StartKeeps ==
    ASSUME OwnInv, NEW t \in scenario.tabs, UNCHANGED scenario, Start(t)
    PROVE  OwnInv'
<1>1. /\ t \in Tab /\ TabShape(t) /\ op[t] \in OperationRecord
      /\ DOMAIN op = Tab /\ DOMAIN waiting = Tab /\ DOMAIN todo = Tab /\ DOMAIN last = Tab
    BY TabFacts, OwnFacts
<1>2. /\ UNCHANGED <<owner, fresh, rec, chunks, frozen, reloads>>
      /\ last' = IF Alone THEN [last EXCEPT ![t] = "start"] ELSE last
    BY DEF Start, Said, store
<1>3. last'[t] \in {"none", "start", "cancel"} /\ (Alone => last'[t] = "start")
    BY <1>1, <1>2 DEF TabShape
<1>4. CASE Free(t)
    <2> DEFINE d == Append(todo[t], "own1")
    <2>1. /\ op[t].pc = "idle" /\ op[t] = NoOp /\ waiting[t] = <<>> /\ ~Registers(todo[t])
          /\ todo[t] \in Seq(Transaction)
          /\ \A i, j \in 1..Len(todo[t]) : todo[t][i] = "own1" /\ todo[t][j] = "own1" => i = j
        BY <1>1, <1>4, NewOpIs DEF Free, TabShape, Transaction
    <2>2. /\ d \in Seq(Transaction) /\ Registers(d)
          /\ \A i, j \in 1..Len(d) : d[i] = "own1" /\ d[j] = "own1" => i = j
        BY <2>1, AppendedIs DEF Transaction
    <2>3. op' = [op EXCEPT ![t] = NewOp] /\ todo' = [todo EXCEPT ![t] = d] /\ waiting' = waiting
        BY <1>4 DEF Start
    <2> HIDE DEF d
    <2>4. op'[t] = NewOp /\ todo'[t] = d /\ waiting'[t] = <<>> /\ OthersSame(t)
        BY <1>1, <1>2, <2>1, <2>3, OwnFacts DEF OthersSame
    <2>5. TabShape(t)'
        BY <1>3, <2>2, <2>4, NewOpIs, TypesStay DEF TabShape, Transaction, Fetching
    <2> QED BY <1>2, <1>3, <2>4, <2>5, NewOpIs, MovedKeeps, OwnFacts, TabFacts DEF Moved, WordHolds
<1>5. CASE ~Free(t)
    <2> DEFINE w == Append(waiting[t], "start")
    <2>1. op[t].aborted /\ w \in Seq(Word) /\ waiting[t] \in Seq(Word)
        BY <1>1, <1>5 DEF Start, TabShape, Word
    <2>2. op' = op /\ todo' = todo /\ waiting' = [waiting EXCEPT ![t] = w]
        BY <1>5 DEF Start
    <2> HIDE DEF w
    <2>3. op'[t] = op[t] /\ todo'[t] = todo[t] /\ waiting'[t] = w /\ OthersSame(t)
        BY <1>1, <1>2, <2>2, OwnFacts DEF OthersSame
    <2>4. TabShape(t)'
        BY <1>1, <1>3, <2>1, <2>3, TypesStay DEF TabShape, Registers, Word
    <2> QED BY <1>2, <1>3, <2>3, <2>4, MovedKeeps, OwnFacts, TabFacts DEF Moved, WordHolds
<1> QED BY <1>4, <1>5

LEMMA CancelKeeps ==
    ASSUME OwnInv, NEW t \in scenario.tabs, UNCHANGED scenario, Cancel(t)
    PROVE  OwnInv'
<1>1. /\ t \in Tab /\ TabShape(t) /\ op[t] \in OperationRecord
      /\ DOMAIN op = Tab /\ DOMAIN waiting = Tab /\ DOMAIN todo = Tab /\ DOMAIN last = Tab
    BY TabFacts, OwnFacts
<1>2. /\ UNCHANGED <<owner, fresh, rec, chunks, frozen, reloads>>
      /\ last' = IF Alone THEN [last EXCEPT ![t] = "cancel"] ELSE last
    BY DEF Cancel, Said, store
<1>3. last'[t] \in {"none", "start", "cancel"}
    BY <1>1, <1>2 DEF TabShape
<1>4. CASE Free(t)
    <2> DEFINE d == Append(todo[t], "delete")
    <2>1. /\ op[t].pc = "idle" /\ op[t] = NoOp /\ ~Registers(todo[t])
          /\ todo[t] \in Seq(Transaction)
          /\ \A i, j \in 1..Len(todo[t]) : todo[t][i] = "own1" /\ todo[t][j] = "own1" => i = j
        BY <1>1, <1>4 DEF Free, TabShape, Transaction
    <2>2. /\ d \in Seq(Transaction) /\ ~Registers(d) /\ d # <<>> /\ LastOf(d) = "delete"
          /\ \A i, j \in 1..Len(d) : d[i] = "own1" /\ d[j] = "own1" => i = j
        BY <2>1, AppendedIs DEF Transaction
    <2>3. op' = op /\ todo' = [todo EXCEPT ![t] = d] /\ waiting' = waiting
        BY <1>4 DEF Cancel
    <2> HIDE DEF d
    <2>4. op'[t] = op[t] /\ todo'[t] = d /\ waiting'[t] = waiting[t] /\ OthersSame(t)
        BY <1>1, <1>2, <2>3, OwnFacts DEF OthersSame
    <2>5. TabShape(t)'
        BY <1>1, <1>3, <2>1, <2>2, <2>4, TypesStay DEF TabShape, Transaction
    <2> QED BY <1>2, <2>1, <2>2, <2>4, <2>5, MovedKeeps, OwnFacts, TabFacts DEF Moved, WordHolds
<1>5. CASE ~Free(t)
    <2> DEFINE w == Append(waiting[t], "cancel")
               o == [op[t] EXCEPT !.aborted = TRUE]
    <2>1. waiting[t] \in Seq(Word) /\ op[t].pc # "idle"
        BY <1>1, <1>5 DEF Free, TabShape, Word
    <2>2. w \in Seq(Word) /\ w # <<>> /\ LastOf(w) = "cancel"
        BY <2>1, AppendedIs DEF Word
    <2>3. /\ o \in OperationRecord /\ o.aborted /\ o.pc = op[t].pc /\ o.count = op[t].count
        BY <1>1 DEF OperationRecord
    <2>4. op' = [op EXCEPT ![t] = o] /\ todo' = todo /\ waiting' = [waiting EXCEPT ![t] = w]
        BY <1>5 DEF Cancel
    <2> HIDE DEF w, o
    <2>5. op'[t] = o /\ todo'[t] = todo[t] /\ waiting'[t] = w /\ OthersSame(t)
        BY <1>1, <1>2, <2>4, OwnFacts DEF OthersSame
    <2>6. TabShape(t)'
        BY <1>1, <1>3, <2>1, <2>2, <2>3, <2>5, TypesStay DEF TabShape, Registers, Word
    <2> QED BY <1>2, <2>1, <2>2, <2>3, <2>5, <2>6, MovedKeeps, OwnFacts, TabFacts DEF Moved, WordHolds
<1> QED BY <1>4, <1>5

\* A transaction beside the operation that is no registration.
LEMMA PopIs ==
    ASSUME OwnInv, NEW t \in scenario.tabs, UNCHANGED <<scenario, op, waiting, frozen, reloads>>,
           todo[t] # <<>>, Head(todo[t]) # "own1", Pop(t), last' = [u \in Tab |-> last'[u]],
           last'[t] \in {last[t], "none"}, \A u \in Tab : u # t => last'[u] = last[u],
           Alone /\ last'[t] = "cancel" => Gone' \/ Head(todo[t]) # "delete"
    PROVE  Moved(t) /\ op'[t].pc \in {"idle", "own1", "own2"}
<1> DEFINE d == Tail(todo[t])
<1>1. /\ t \in Tab /\ TabShape(t) /\ (Alone => WordHolds(t))
      /\ DOMAIN op = Tab /\ DOMAIN waiting = Tab /\ DOMAIN todo = Tab
    BY TabFacts, OwnFacts
<1>2. /\ d \in Seq(Transaction)
      /\ \A i, j \in 1..Len(d) : d[i] = "own1" /\ d[j] = "own1" => i = j
      /\ Registers(d) <=> Registers(todo[t])
      /\ LastOf(todo[t]) = IF d = <<>> THEN Head(todo[t]) ELSE LastOf(d)
    BY <1>1, TailIs DEF TabShape, Transaction
<1>3. todo' = [todo EXCEPT ![t] = d]
    BY DEF Pop
<1> HIDE DEF d
<1>4. op'[t] = op[t] /\ waiting'[t] = waiting[t] /\ todo'[t] = d /\ OthersSame(t)
    BY <1>1, <1>3, OwnFacts DEF OthersSame
<1>5. TabShape(t)'
    BY <1>1, <1>2, <1>4, TypesStay DEF TabShape, Transaction
<1>6. Alone => WordHolds(t)'
    BY <1>1, <1>2, <1>4 DEF WordHolds
<1>7. op[t].pc \in {"idle", "own1", "own2"}
    BY <1>1 DEF TabShape
<1> QED BY <1>4, <1>5, <1>6, <1>7 DEF Moved

LEMMA ReleaseKeeps ==
    ASSUME OwnInv, NEW t \in scenario.tabs, UNCHANGED scenario, Release(t)
    PROVE  OwnInv'
<1>1. /\ todo[t] # <<>> /\ Head(todo[t]) = "release" /\ Pop(t)
      /\ UNCHANGED <<rec, chunks, op, waiting, last, frozen, reloads>>
      /\ owner' \in {owner, "none"} /\ fresh' \in {fresh, FALSE}
    BY DEF Release, Next1
<1>2. Moved(t) /\ op'[t].pc \in {"idle", "own1", "own2"}
    BY <1>1, OwnFacts, PopIs
<1> QED BY <1>1, <1>2, OwnFacts, TabFacts, MovedKeeps

LEMMA DeleteKeeps ==
    ASSUME OwnInv, NEW t \in scenario.tabs, UNCHANGED scenario, Delete(t)
    PROVE  OwnInv'
<1>1. /\ todo[t] # <<>> /\ Head(todo[t]) = "delete" /\ Pop(t)
      /\ UNCHANGED <<op, waiting, frozen, reloads>> /\ t \in Tab
    BY OwnFacts DEF Delete, Next1
<1>2. CASE Foreign(t)
    <2>1. /\ UNCHANGED <<owner, fresh, rec, chunks>>
          /\ last' = IF Alone THEN [last EXCEPT ![t] = "none"] ELSE last
        BY <1>2 DEF Delete, Said, store
    <2>2. /\ last' = [u \in Tab |-> last'[u]] /\ last'[t] \in {last[t], "none"} /\ (Alone => last'[t] = "none")
          /\ \A u \in Tab : u # t => last'[u] = last[u]
        BY <1>1, <2>1, OwnFacts
    <2>3. Moved(t) /\ op'[t].pc \in {"idle", "own1", "own2"}
        BY <1>1, <2>2, PopIs
    <2> QED BY <2>1, <2>3, OwnFacts, TabFacts, MovedKeeps
<1>3. CASE ~Foreign(t)
    <2>1. /\ rec' = NoRecord /\ chunks' = {} /\ owner' = "none" /\ fresh' = FALSE /\ last' = last
        BY <1>3 DEF Delete
    <2>2. Moved(t) /\ op'[t].pc \in {"idle", "own1", "own2"}
        BY <1>1, <2>1, OwnFacts, PopIs DEF Gone
    <2>3. rec'.status # "ready"
        BY <2>1 DEF NoRecord
    <2> QED BY <2>1, <2>2, <2>3, OwnFacts, MovedKeeps
<1> QED BY <1>2, <1>3

\* The start goes on to its claim.
LEMMA OwnsNextKeeps ==
    ASSUME OwnInv, NEW t \in scenario.tabs, UNCHANGED scenario,
           UNCHANGED <<owner, fresh, rec, chunks>>, todo[t] # <<>>, Head(todo[t]) = "own1", Pop(t),
           op' = [op EXCEPT ![t].pc = "own2"], UNCHANGED <<waiting, last, frozen, reloads>>
    PROVE  OwnInv'
<1> DEFINE d == Tail(todo[t])
           o == [op[t] EXCEPT !.pc = "own2"]
<1>1. /\ t \in Tab /\ TabShape(t) /\ (Alone => WordHolds(t)) /\ op[t] \in OperationRecord
      /\ DOMAIN op = Tab /\ DOMAIN waiting = Tab /\ DOMAIN todo = Tab /\ DOMAIN last = Tab
    BY TabFacts, OwnFacts
<1>2. /\ d \in Seq(Transaction)
      /\ \A i, j \in 1..Len(d) : d[i] = "own1" /\ d[j] = "own1" => i = j
      /\ Registers(todo[t]) /\ ~Registers(d)
    BY <1>1, TailIs DEF TabShape, Transaction
<1>3. op[t].pc = "own1"
    BY <1>1, <1>2 DEF TabShape
<1>4. o \in OperationRecord /\ o.pc = "own2" /\ o.aborted = op[t].aborted
    BY <1>1 DEF OperationRecord, PlaceOf
<1>5. op' = [op EXCEPT ![t] = o] /\ todo' = [todo EXCEPT ![t] = d]
    BY DEF Pop
<1> HIDE DEF o, d
<1>6. op'[t] = o /\ todo'[t] = d /\ OthersSame(t)
    BY <1>1, <1>5, OwnFacts DEF OthersSame
<1>7. TabShape(t)'
    BY <1>1, <1>2, <1>4, <1>5, <1>6, TypesStay DEF TabShape, Transaction, Fetching
<1>8. Alone => WordHolds(t)'
    BY <1>1, <1>3, <1>4, <1>5, <1>6 DEF WordHolds
<1> QED BY <1>4, <1>5, <1>6, <1>7, <1>8, OwnFacts, TabFacts, MovedKeeps DEF Moved

LEMMA ReadOwnershipKeeps ==
    ASSUME OwnInv, NEW t \in scenario.tabs, UNCHANGED scenario, ReadOwnership(t)
    PROVE  OwnInv'
<1> DEFINE d == Tail(todo[t])
<1>1. /\ t \in Tab /\ TabShape(t) /\ (Alone => WordHolds(t)) /\ op[t] \in OperationRecord
      /\ DOMAIN op = Tab /\ DOMAIN waiting = Tab /\ DOMAIN todo = Tab /\ DOMAIN last = Tab
    BY TabFacts, OwnFacts
<1>2. todo[t] # <<>> /\ Head(todo[t]) = "own1" /\ UNCHANGED <<owner, fresh, rec, chunks>>
    BY DEF ReadOwnership, Next1, store
<1>3. /\ d \in Seq(Transaction) /\ d \in Seq({"release", "delete"})
      /\ \A i, j \in 1..Len(d) : d[i] = "own1" /\ d[j] = "own1" => i = j
      /\ Registers(todo[t]) /\ ~Registers(d)
    BY <1>1, <1>2, TailIs DEF TabShape, Transaction
<1>4. op[t].pc = "own1"
    BY <1>1, <1>3 DEF TabShape
<1>5. CASE Foreign(t)
    <2>1. Settle(t, d)
        BY <1>5 DEF ReadOwnership
    <2>2. Moved(t) /\ op'[t].pc \in {"idle", "own1"}
        BY <1>3, <1>4, <2>1, SettleIs DEF Moved
    <2> QED BY <1>2, <2>2, OwnFacts, TabFacts, MovedKeeps
<1>6. CASE ~Foreign(t)
    BY <1>2, <1>6, OwnsNextKeeps DEF ReadOwnership
<1> QED BY <1>5, <1>6

\* The steps of the operation that leave the store as it is.
LEMMA StoreUntouchedKeeps ==
    ASSUME OwnInv, NEW t \in scenario.tabs, UNCHANGED <<scenario, rec, chunks>>, Moved(t),
           owner' \in Tab \cup {"gone", "none"}, fresh' \in BOOLEAN,
           op'[t].pc \notin {"wipe", "ready"}
    PROVE  OwnInv'
BY OwnFacts, TabFacts, MovedKeeps

LEMMA ClaimsKeep ==
    ASSUME OwnInv, NEW t \in scenario.tabs, UNCHANGED scenario,
           ReadAgain(t) \/ Claim(t) \/ Bail(t)
    PROVE  OwnInv'
<1>1. /\ t \in Tab /\ TabShape(t) /\ op[t].pc \in {"own2", "claim", "bail"} /\ todo[t] = <<>>
      /\ UNCHANGED <<rec, chunks>>
      /\ owner' \in {owner, t, "none"} /\ fresh' \in {fresh, TRUE, FALSE}
    BY TabFacts DEF ReadAgain, Claim, Bail, Active, store
<1>2. owner' \in Tab \cup {"gone", "none"} /\ fresh' \in BOOLEAN
    BY <1>1, OwnFacts
<1>3. <<>> \in Seq({"release", "delete"}) /\ {"claim", "bail", "load"} \subseteq PlaceOf
    BY DEF PlaceOf
<1>4. \/ Settle(t, <<>>) \/ Goto(t, "claim") \/ Goto(t, "bail") \/ Goto(t, "load")
    BY DEF ReadAgain, Claim, Bail
<1>5. CASE Settle(t, <<>>)
    <2>1. Moved(t) /\ op'[t].pc \in {"idle", "own1"}
        BY <1>1, <1>3, <1>5, SettleIs DEF Moved
    <2> QED BY <1>1, <1>2, <2>1, StoreUntouchedKeeps
<1>6. CASE Goto(t, "claim") \/ Goto(t, "bail") \/ Goto(t, "load")
    <2>1. Moved(t) /\ op'[t].pc \in {"claim", "bail", "load"}
        BY <1>1, <1>3, <1>6, GotoIs DEF Fetching
    <2> QED BY <1>1, <1>2, <2>1, StoreUntouchedKeeps
<1> QED BY <1>4, <1>5, <1>6

LEMMA LoadKeeps ==
    ASSUME OwnInv, NEW t \in scenario.tabs, UNCHANGED scenario, Load(t)
    PROVE  OwnInv'
<1> DEFINE n == IF rec.status = "none" THEN 0 ELSE Prefix(chunks)
           m == IF rec.proof THEN n ELSE 0
           p == IF \/ n > 0 /\ ~rec.proof
                   \/ rec.count > n
                THEN "wipe" ELSE "meta"
           o == [op[t] EXCEPT !.count = m, !.proof = rec.proof, !.pc = p]
<1>1. /\ op[t].pc = "load" /\ todo[t] = <<>> /\ op[t] \in OperationRecord
      /\ UNCHANGED <<owner, fresh, rec, chunks>>
      /\ rec.proof \in BOOLEAN /\ Chunks \in Nat \ {0} /\ chunks \subseteq 0..(Chunks - 1)
    BY TabFacts, OwnFacts DEF Load, Active, store, RecordType
<1>2. /\ Prefix(chunks) \in 0..Chunks /\ (Prefix(chunks) = Chunks <=> chunks = 0..(Chunks - 1))
    BY <1>1, PrefixIs
<1>3. n \in 0..Chunks
    BY <1>1, <1>2
<1>4. IF rec.status = "ready" /\ n = Chunks THEN Done(t)
      ELSE op' = [op EXCEPT ![t] = o] /\ UNCHANGED <<waiting, todo, last, frozen, reloads>>
    BY ZenonT(60) DEF Load, calls
<1>5. rec.status = "ready" /\ chunks = 0..(Chunks - 1) => n = Chunks
    BY <1>2
<1>9. m \in 0..Chunks
    BY <1>1, <1>3
<1>10. p \in {"wipe", "meta"}
    OBVIOUS
<1> HIDE DEF n, m, p
<1>6. /\ o \in OperationRecord /\ o.aborted = op[t].aborted /\ o.pc \in {"wipe", "meta"}
    BY <1>1, <1>9, <1>10 DEF OperationRecord, PlaceOf
<1> HIDE DEF o
<1>7. CASE rec.status = "ready" /\ n = Chunks
    <2>1. Moved(t) /\ op'[t].pc \in {"idle", "own1"}
        BY <1>1, <1>4, <1>7, DoneIs
    <2> QED BY <1>1, <2>1, OwnFacts, StoreUntouchedKeeps
<1>8. CASE ~(rec.status = "ready" /\ n = Chunks)
    <2>1. Moved(t) /\ op'[t] = o
        BY <1>1, <1>4, <1>6, <1>8, OperationGoesOn DEF Moved, Fetching
    <2>2. Alone => rec.status # "ready"
        BY <1>5, <1>8, TabFacts
    <2> QED BY <1>1, <1>6, <2>1, <2>2, OwnFacts, MovedKeeps
<1> QED BY <1>7, <1>8

LEMMA WipeKeeps ==
    ASSUME OwnInv, NEW t \in scenario.tabs, UNCHANGED scenario, Wipe(t)
    PROVE  OwnInv'
<1>1. /\ op[t].pc = "wipe" /\ todo[t] = <<>> /\ Goto(t, "meta") /\ chunks' \subseteq chunks
      /\ UNCHANGED <<owner, fresh, rec>> /\ "meta" \in PlaceOf
    BY DEF Wipe, Active, PlaceOf
<1>2. Moved(t) /\ op'[t].pc = "meta"
    BY <1>1, GotoIs DEF Fetching
<1>3. Alone => rec.status # "ready"
    BY <1>1, TabFacts
<1> QED BY <1>1, <1>2, <1>3, OwnFacts, MovedKeeps

LEMMA PutMetaKeeps ==
    ASSUME OwnInv, NEW t \in scenario.tabs, UNCHANGED scenario, PutMeta(t)
    PROVE  OwnInv'
<1> DEFINE r == [status |-> "downloading", count |-> op[t].count, proof |-> op[t].proof]
<1>1. /\ op[t].pc = "meta" /\ todo[t] = <<>> /\ op[t] \in OperationRecord /\ rec' = r
      /\ UNCHANGED <<owner, fresh, chunks>> /\ {"check", "fetch"} \subseteq PlaceOf
      /\ Goto(t, IF op[t].count = Chunks THEN "check" ELSE "fetch")
    BY TabFacts DEF PutMeta, Active, PlaceOf
<1>2. op[t].count \in 0..Chunks /\ op[t].proof \in BOOLEAN /\ Chunks \in Nat
    BY <1>1, OwnFacts DEF OperationRecord
<1>3. Moved(t) /\ op'[t].pc \in {"check", "fetch"}
    <2>1. CASE op[t].count = Chunks
        BY <1>1, <2>1, GotoIs DEF Fetching
    <2>2. CASE op[t].count # Chunks
        <3>1. op[t].count < Chunks
            BY <1>2, <2>2
        <3> QED BY <1>1, <2>2, <3>1, GotoIs
    <2> QED BY <2>1, <2>2
<1>4. r \in RecordType /\ r.status = "downloading"
    BY <1>2 DEF RecordType
<1> HIDE DEF r
<1> QED BY <1>1, <1>3, <1>4, OwnFacts, MovedKeeps

LEMMA FetchingKeeps ==
    ASSUME OwnInv, NEW t \in scenario.tabs, UNCHANGED scenario,
           Fetched(t) \/ FetchFails(t) \/ Unauthorized(t) \/ LoggedIn(t) \/ LeaveGate(t)
    PROVE  OwnInv'
<1>1. /\ op[t].pc \in {"fetch", "login", "refetch"} /\ todo[t] = <<>>
      /\ UNCHANGED <<owner, fresh, rec, chunks>> /\ {"write", "login", "refetch"} \subseteq PlaceOf
      /\ Done(t) \/ Goto(t, "write") \/ Goto(t, "login") \/ Goto(t, "refetch") \/ Fails(t)
    BY TabFacts DEF Fetched, FetchFails, Unauthorized, LoggedIn, LeaveGate, Active, store, PlaceOf
<1>2. op[t].count < Chunks
    BY <1>1, TabFacts DEF TabShape, Fetching
<1>3. CASE Done(t) \/ Fails(t)
    <2>1. Moved(t) /\ op'[t].pc \in {"idle", "own1", "pause1"}
        BY <1>1, <1>3, DoneIs, FailsIs
    <2> QED BY <1>1, <2>1, OwnFacts, StoreUntouchedKeeps
<1>4. CASE Goto(t, "write") \/ Goto(t, "login") \/ Goto(t, "refetch")
    <2>1. Moved(t) /\ op'[t].pc \in {"write", "login", "refetch"}
        BY <1>1, <1>2, <1>4, GotoIs
    <2> QED BY <1>1, <2>1, OwnFacts, StoreUntouchedKeeps
<1> QED BY <1>1, <1>3, <1>4

LEMMA CommitKeeps ==
    ASSUME OwnInv, NEW t \in scenario.tabs, UNCHANGED scenario, Commit(t)
    PROVE  OwnInv'
<1>1. /\ op[t].pc = "write" /\ todo[t] = <<>> /\ op[t] \in OperationRecord
      /\ op[t].count < Chunks /\ Chunks \in Nat /\ UNCHANGED <<owner, fresh>>
    BY TabFacts, OwnFacts DEF Commit, Active, store, TabShape, Fetching
<1>2. CASE owner = t
    <2> DEFINE m == op[t].count + 1
               r == [status |-> "downloading", count |-> m, proof |-> TRUE]
               o == [op[t] EXCEPT !.count = m, !.proof = TRUE,
                                  !.pc = IF m = Chunks THEN "check" ELSE "fetch"]
    <2>1. op[t].count \in 0..(Chunks - 1) /\ m \in 0..Chunks
        BY <1>1 DEF OperationRecord
    <2>2. /\ chunks' = chunks \cup {op[t].count} /\ rec' = r
          /\ op' = [op EXCEPT ![t] = o] /\ UNCHANGED <<waiting, todo, last, frozen, reloads>>
        BY <1>2 DEF Commit, calls
    <2> HIDE DEF m
    <2>3. /\ o \in OperationRecord /\ o.aborted = op[t].aborted /\ o.pc \in {"check", "fetch"}
          /\ (o.pc = "fetch" => m # Chunks) /\ o.count = m
        BY <1>1, <2>1 DEF OperationRecord, PlaceOf
    <2>4. o.pc = "fetch" => o.count < Chunks
        BY <1>1, <2>1, <2>3
    <2>5. r \in RecordType /\ r.status = "downloading"
        BY <2>1 DEF RecordType
    <2> HIDE DEF o, r
    <2>6. Moved(t) /\ op'[t] = o
        BY <1>1, <2>2, <2>3, <2>4, OperationGoesOn DEF Moved, Fetching
    <2> QED BY <1>1, <2>1, <2>2, <2>3, <2>5, <2>6, OwnFacts, MovedKeeps
<1>3. CASE owner # t
    <2>1. UNCHANGED <<rec, chunks>> /\ Fails(t)
        BY <1>3 DEF Commit, store
    <2>2. Moved(t) /\ op'[t].pc \in {"idle", "own1", "pause1"}
        BY <1>1, <2>1, FailsIs
    <2> QED BY <1>1, <2>1, <2>2, OwnFacts, StoreUntouchedKeeps
<1> QED BY <1>2, <1>3

\* The operation takes a copy of a record along.
LEMMA SeenIs ==
    ASSUME OwnInv, NEW t \in scenario.tabs, UNCHANGED scenario, NEW pc \in {"ready", "pause2"},
           NEW r \in RecordType, op' = [op EXCEPT ![t].pc = pc, ![t].seen = r], UNCHANGED calls,
           op[t].pc \in {"check", "pause1"}, todo[t] = <<>>
    PROVE  Moved(t) /\ op'[t].pc = pc
<1> DEFINE o == [op[t] EXCEPT !.pc = pc, !.seen = r]
<1>1. op[t] \in OperationRecord
    BY TabFacts
<1>2. o \in OperationRecord /\ o.pc = pc /\ o.aborted = op[t].aborted
    BY <1>1 DEF OperationRecord, PlaceOf
<1>3. op' = [op EXCEPT ![t] = o] /\ UNCHANGED <<waiting, todo, last, frozen, reloads>>
    BY DEF calls
<1> HIDE DEF o
<1> QED BY <1>2, <1>3, OperationGoesOn DEF Moved, Fetching

LEMMA CheckKeeps ==
    ASSUME OwnInv, NEW t \in scenario.tabs, UNCHANGED scenario, Check(t)
    PROVE  OwnInv'
<1>1. /\ op[t].pc = "check" /\ todo[t] = <<>> /\ UNCHANGED <<owner, fresh, rec, chunks>>
      /\ Chunks \in Nat /\ chunks \subseteq 0..(Chunks - 1)
    BY OwnFacts DEF Check, Active, store
<1>2. CASE rec.status # "none" /\ Prefix(chunks) = Chunks /\ rec.count = Chunks
    <2>1. Moved(t) /\ op'[t].pc = "ready"
        BY <1>1, <1>2, SeenIs, OwnFacts DEF Check
    <2>2. chunks = 0..(Chunks - 1)
        BY <1>1, <1>2, PrefixIs
    <2> QED BY <1>1, <2>1, <2>2, OwnFacts, MovedKeeps
<1>3. CASE ~(rec.status # "none" /\ Prefix(chunks) = Chunks /\ rec.count = Chunks)
    <2>1. Fails(t)
        BY <1>3 DEF Check
    <2>2. Moved(t) /\ op'[t].pc \in {"idle", "own1", "pause1"}
        BY <1>1, <2>1, FailsIs
    <2> QED BY <1>1, <2>2, OwnFacts, StoreUntouchedKeeps
<1> QED BY <1>2, <1>3

LEMMA PutReadyKeeps ==
    ASSUME OwnInv, NEW t \in scenario.tabs, UNCHANGED scenario, PutReady(t)
    PROVE  OwnInv'
<1>1. /\ op[t].pc = "ready" /\ UNCHANGED <<owner, fresh, chunks>> /\ Done(t)
      /\ rec' = [op[t].seen EXCEPT !.status = "ready", !.count = Chunks]
      /\ op[t].seen \in RecordType /\ Chunks \in Nat
    BY TabFacts, OwnFacts DEF PutReady, Active, OperationRecord
<1>2. Moved(t) /\ op'[t].pc \in {"idle", "own1"}
    BY <1>1, DoneIs
<1>3. rec' \in RecordType
    <2> DEFINE s == op[t].seen
    <2>1. s \in RecordType /\ Chunks \in 0..Chunks /\ rec' = [s EXCEPT !.status = "ready", !.count = Chunks]
        BY <1>1
    <2> HIDE DEF s
    <2> QED BY <2>1 DEF RecordType
<1>4. Alone => chunks = 0..(Chunks - 1)
    BY <1>1, TabFacts
<1> QED BY <1>1, <1>2, <1>3, <1>4, OwnFacts, MovedKeeps

LEMMA PausesKeep ==
    ASSUME OwnInv, NEW t \in scenario.tabs, UNCHANGED scenario, PauseReads(t) \/ PausePuts(t)
    PROVE  OwnInv'
<1>1. CASE PauseReads(t)
    <2>1. /\ op[t].pc = "pause1" /\ todo[t] = <<>> /\ UNCHANGED <<owner, fresh, rec, chunks>>
          /\ op' = [op EXCEPT ![t].pc = "pause2", ![t].seen = rec] /\ UNCHANGED calls
        BY <1>1 DEF PauseReads, Active, store
    <2>2. Moved(t) /\ op'[t].pc = "pause2"
        BY <2>1, SeenIs, OwnFacts
    <2> QED BY <2>1, <2>2, OwnFacts, StoreUntouchedKeeps
<1>2. CASE PausePuts(t)
    <2>1. /\ op[t].pc = "pause2" /\ UNCHANGED <<owner, fresh, chunks>> /\ Done(t)
          /\ rec' = [op[t].seen EXCEPT !.status = "paused"] /\ op[t].seen \in RecordType
        BY <1>2, TabFacts DEF PausePuts, Active, OperationRecord
    <2>2. Moved(t) /\ op'[t].pc \in {"idle", "own1"}
        BY <2>1, DoneIs
    <2>3. rec' \in RecordType /\ rec'.status = "paused"
        BY <2>1 DEF RecordType
    <2> QED BY <2>1, <2>2, <2>3, OwnFacts, MovedKeeps
<1> QED BY <1>1, <1>2

\* A transaction that fails leaves the store as it was.
LEMMA StorageFailsKeeps ==
    ASSUME OwnInv, NEW t \in scenario.tabs, UNCHANGED scenario, StorageFails(t)
    PROVE  OwnInv'
<1>1. t \in Tab /\ TabShape(t) /\ DOMAIN last = Tab
    BY TabFacts, OwnFacts
<1>2. UNCHANGED <<owner, fresh, rec, chunks>>
    BY DEF StorageFails, ReleaseFails, DeleteFails, OwnershipUnread, ClaimFails, RecordUnread,
           DownloadFails, store
<1>3. ASSUME Moved(t), op'[t].pc \notin {"wipe", "ready"} PROVE OwnInv'
    BY <1>2, <1>3, OwnFacts, StoreUntouchedKeeps
<1>4. <<>> \in Seq({"release", "delete"}) /\ {"claim", "meta"} \subseteq PlaceOf
    BY DEF PlaceOf
<1>5. CASE ReleaseFails(t)
    <2>1. CASE Active(t) /\ op[t].pc = "bail" /\ Settle(t, <<>>)
        BY <1>3, <1>4, <2>1, SettleIs DEF Moved
    <2>2. CASE Next1(t, "release") /\ Pop(t) /\ UNCHANGED <<op, waiting, last, frozen, reloads>>
        <3>1. Moved(t) /\ op'[t].pc \in {"idle", "own1", "own2"}
            BY <1>2, <2>2, OwnFacts, PopIs DEF Next1
        <3> QED BY <1>3, <3>1
    <2> QED BY <1>5, <2>1, <2>2 DEF ReleaseFails
<1>6. CASE DeleteFails(t)
    <2>1. /\ todo[t] # <<>> /\ Head(todo[t]) = "delete" /\ Pop(t)
          /\ UNCHANGED <<op, waiting, frozen, reloads>>
          /\ last' = IF Alone THEN [last EXCEPT ![t] = "none"] ELSE last
        BY <1>6 DEF DeleteFails, Next1, Said
    <2>2. /\ last' = [u \in Tab |-> last'[u]] /\ last'[t] \in {last[t], "none"} /\ (Alone => last'[t] = "none")
          /\ \A u \in Tab : u # t => last'[u] = last[u]
        BY <1>1, <2>1, OwnFacts
    <2>3. Moved(t) /\ op'[t].pc \in {"idle", "own1", "own2"}
        BY <1>2, <2>1, <2>2, PopIs
    <2> QED BY <1>3, <2>3
<1>7. CASE OwnershipUnread(t)
    <2>1. CASE Active(t) /\ op[t].pc = "own2" /\ Goto(t, "claim")
        BY <1>3, <1>4, <2>1, GotoIs DEF Active, Fetching
    <2>2. CASE ~(Active(t) /\ op[t].pc = "own2" /\ Goto(t, "claim"))
        BY <1>2, <1>7, <2>2, OwnsNextKeeps DEF OwnershipUnread, Next1
    <2> QED BY <2>1, <2>2
<1>8. CASE ClaimFails(t)
    BY <1>3, <1>4, <1>8, SettleIs DEF ClaimFails, Moved
<1>9. CASE RecordUnread(t)
    <2>1. CASE op[t].pc = "load" /\ Goto(t, "meta")
        BY <1>3, <1>4, <1>9, <2>1, GotoIs DEF RecordUnread, Active, Fetching
    <2>2. CASE op[t].pc = "pause1" /\ op' = [op EXCEPT ![t].pc = "pause2", ![t].seen = NoRecord] /\ UNCHANGED calls
        BY <1>3, <1>9, <2>2, SeenIs, OwnFacts DEF RecordUnread, Active
    <2> QED BY <1>9, <2>1, <2>2 DEF RecordUnread
<1>10. CASE DownloadFails(t)
    <2>1. Moved(t) /\ op'[t].pc \in {"idle", "own1", "pause1"}
        BY <1>10, DoneIs, FailsIs DEF DownloadFails, Active
    <2> QED BY <1>3, <2>1
<1> QED BY <1>5, <1>6, <1>7, <1>8, <1>9, <1>10 DEF StorageFails

LEMMA ReloadKeeps ==
    ASSUME OwnInv, NEW t \in scenario.tabs, UNCHANGED scenario, Reload(t)
    PROVE  OwnInv'
<1>1. /\ t \in Tab /\ TabShape(t) /\ reloads \in 0..scenario.reloads /\ scenario.reloads \in Nat
      /\ DOMAIN op = Tab /\ DOMAIN waiting = Tab /\ DOMAIN todo = Tab /\ DOMAIN last = Tab
    BY TabFacts, OwnFacts
<1>2. /\ reloads < scenario.reloads /\ reloads' = reloads + 1 /\ owner' \in {owner, "gone"}
      /\ op' = [op EXCEPT ![t] = NoOp] /\ waiting' = [waiting EXCEPT ![t] = <<>>]
      /\ todo' = [todo EXCEPT ![t] = <<>>]
      /\ last' = IF Alone THEN [last EXCEPT ![t] = "none"] ELSE last
      /\ frozen' = [frozen EXCEPT ![t] = FALSE] /\ UNCHANGED <<fresh, rec, chunks>>
    BY DEF Reload, Said
<1>3. reloads' \in 0..scenario.reloads
    BY <1>1, <1>2
<1>4. /\ op'[t] = NoOp /\ waiting'[t] = <<>> /\ todo'[t] = <<>>
      /\ last'[t] \in {last[t], "none"} /\ (Alone => last'[t] = "none") /\ OthersSame(t)
    BY <1>1, <1>2, OwnFacts DEF OthersSame
<1>5. <<>> \in Seq(Word) /\ <<>> \in Seq(Transaction) /\ ~Registers(<<>>) /\ Len(<<>>) = 0
    BY DEF Registers
<1>6. TabShape(t)'
    BY <1>1, <1>4, <1>5, NewOpIs, TypesStay DEF TabShape, Word, Transaction, Fetching
<1>7. frozen' \in [Tab -> BOOLEAN]
    BY <1>1, <1>2, OwnFacts
<1> QED BY <1>2, <1>3, <1>4, <1>6, <1>7, NewOpIs, OwnFacts, TabFacts, FrameKeeps DEF WordHolds

-----------------------------------------------------------------------------
(* The specification.                                                      *)

LEMMA OwnInitIs == Init => OwnInv
<1> SUFFICES ASSUME Init PROVE OwnInv
    OBVIOUS
<1>1. scenario \in [tabs : SUBSET Tab, chunks : Nat \ {0}, waiting : Nat, reloads : Nat,
                    failures : Nat, freezing : BOOLEAN]
    BY OwnershipAssumption DEF Init
<1>2. Chunks \in Nat \ {0} /\ scenario.reloads \in Nat
    BY <1>1 DEF Chunks
<1>3. NoRecord \in RecordType /\ NoRecord.status = "none"
    BY <1>2 DEF NoRecord, RecordType
<1>4. NoOp \in OperationRecord /\ NoOp.pc = "idle" /\ ~NoOp.aborted
    BY <1>2, <1>3 DEF NoOp, OperationRecord, PlaceOf
<1>5. <<>> \in Seq(Word) /\ <<>> \in Seq(Transaction) /\ ~Registers(<<>>) /\ Len(<<>>) = 0
    BY DEF Registers
<1>6. /\ \A t \in Tab : /\ op[t] = NoOp /\ waiting[t] = <<>> /\ todo[t] = <<>> /\ last[t] = "none"
      /\ DOMAIN op = Tab /\ DOMAIN waiting = Tab /\ DOMAIN todo = Tab /\ DOMAIN last = Tab
      /\ frozen \in [Tab -> BOOLEAN] /\ reloads \in 0..scenario.reloads
    BY <1>2 DEF Init
<1>7. ASSUME NEW t \in Tab PROVE TabShape(t) /\ WordHolds(t)
    <2>1. op[t] = NoOp /\ waiting[t] = <<>> /\ todo[t] = <<>> /\ last[t] = "none"
        BY <1>6
    <2>2. WordHolds(t)
        BY <2>1 DEF WordHolds
    <2>3. \A i, j \in 1..Len(todo[t]) : todo[t][i] = "own1" /\ todo[t][j] = "own1" => i = j
        BY <1>5, <2>1
    <2> QED BY <1>4, <1>5, <2>1, <2>2, <2>3 DEF TabShape, Word, Transaction, Fetching
<1>8. OwnShape
    BY <1>2, <1>3, <1>6, <1>7 DEF OwnShape, Init
<1>9. CopyHolds
    BY <1>3, <1>4, <1>6 DEF CopyHolds, Init
<1> QED BY <1>7, <1>8, <1>9 DEF OwnInv

LEMMA OwnSteps == OwnInv /\ [Next]_vars => OwnInv'
<1> SUFFICES ASSUME OwnInv, [Next]_vars PROVE OwnInv'
    OBVIOUS
<1>1. ASSUME NEW t \in scenario.tabs, UNCHANGED scenario, Works(t) PROVE OwnInv'
    BY <1>1, ReleaseKeeps, DeleteKeeps, ReadOwnershipKeeps, ClaimsKeep, LoadKeeps, WipeKeeps,
       PutMetaKeeps, FetchingKeeps, CommitKeeps, CheckKeeps, PutReadyKeeps, PausesKeep DEF Works
<1>2. ASSUME NEW t \in scenario.tabs, UNCHANGED scenario,
             Start(t) \/ Cancel(t) \/ Reload(t) \/ LoggedIn(t) \/ StorageFails(t)
      PROVE  OwnInv'
    BY <1>2, StartKeeps, CancelKeeps, ReloadKeeps, FetchingKeeps, StorageFailsKeeps
<1>3. ASSUME NEW t \in scenario.tabs, UNCHANGED scenario, Heartbeat(t) \/ Freeze(t) \/ Thaw(t)
      PROVE  OwnInv'
    BY <1>3, QuietKeeps, OwnFacts DEF Heartbeat, Freeze, Thaw, calls, store
<1>4. CASE Expire /\ UNCHANGED scenario
    BY <1>4, QuietKeeps, OwnFacts DEF Expire, calls
<1>5. CASE UNCHANGED vars
    BY <1>5, QuietKeeps, OwnFacts DEF vars
<1> QED BY <1>1, <1>2, <1>3, <1>4, <1>5 DEF Next, Step

\* The failures stay within their bound.
Counted == scenario \in Scenario /\ failures \in 0..scenario.failures

LEMMA FailuresCounted == Spec => []Counted
<1>1. ASSUME scenario \in Scenario PROVE scenario.failures \in Nat
    BY <1>1, OwnershipAssumption
<1>2. Init => Counted
    BY <1>1 DEF Init, Counted
<1>3. Counted /\ [Next]_vars => Counted'
    <2> SUFFICES ASSUME Counted, [Next]_vars PROVE Counted'
        OBVIOUS
    <2>1. \/ UNCHANGED <<scenario, failures>>
          \/ UNCHANGED scenario /\ failures < scenario.failures /\ failures' = failures + 1
        BY DEF Next, Step, vars
    <2> QED BY <1>1, <2>1 DEF Counted
<1> QED BY <1>2, <1>3, PTL DEF Spec

LEMMA OwnTyped == OwnInv /\ Counted => TypeOK
<1> SUFFICES ASSUME OwnInv, Counted PROVE TypeOK
    OBVIOUS
<1>1. ASSUME NEW t \in Tab
      PROVE  /\ op[t] \in OperationRecord /\ last[t] \in {"none", "start", "cancel"}
             /\ \A i \in 1..Len(waiting[t]) : waiting[t][i] \in {"cancel", "start"}
             /\ \A i \in 1..Len(todo[t]) : todo[t][i] \in {"release", "delete", "own1"}
             /\ waiting[t] # <<>> => op[t].aborted
             /\ op[t].pc = "own1" <=> \E i \in 1..Len(todo[t]) : todo[t][i] = "own1"
    BY DEF OwnInv, OwnShape, TabShape, Registers
<1>2. op \in [Tab -> OperationRecord]
    <2>1. op = [t \in Tab |-> op[t]]
        BY DEF OwnInv, OwnShape
    <2> QED BY <1>1, <2>1
<1>3. last \in [Tab -> {"none", "start", "cancel"}]
    <2>1. last = [t \in Tab |-> last[t]]
        BY DEF OwnInv, OwnShape
    <2> QED BY <1>1, <2>1
<1> QED BY <1>1, <1>2, <1>3, OwnFacts DEF TypeOK, OperationRecord, PlaceOf, Counted

\* For a tab alone with the video, any number of chunks, of calls that wait, of
\* reloads and of transactions that fail: a copy called ready is whole, and when
\* the tab has settled after a cancel nothing is left, unless the cancel waited
\* behind a start that waited too, was refused, or its caller was told it failed.
THEOREM CancelWinsHolds == Spec => []CancelWins
<1>1. OwnInv /\ Counted => CancelWins
    <2> SUFFICES ASSUME OwnInv, Counted PROVE CancelWins
        OBVIOUS
    <2>1. TypeOK
        BY OwnTyped
    <2>2. ASSUME Alone
          PROVE  /\ rec.status = "ready" => chunks = 0..(Chunks - 1)
                 /\ \A t \in Tab : last[t] = "cancel" /\ Free(t) /\ todo[t] = <<>> =>
                                     rec = NoRecord /\ chunks = {}
        BY <2>2 DEF OwnInv, CopyHolds, WordHolds, Gone, Free
    <2> QED BY <2>1, <2>2 DEF CancelWins
<1> QED BY <1>1, OwnInitIs, OwnSteps, FailuresCounted, PTL DEF Spec

=============================================================================
