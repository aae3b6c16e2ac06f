----------------------------- MODULE ServiceWorker -----------------------------
(***************************************************************************)
(* The offline shell: the service worker (src/frontend/sw.js) with its     *)
(* caching policy (js/sw-policy.js), and the page's side of it             *)
(* (registerSw() of js/app.js).  Releases are deployed while workers       *)
(* install, activate and answer for the open tabs.                         *)
(*                                                                         *)
(* A release is its number, and so is the content of a file: the release   *)
(* it is from.  Every release has its own generation, because the id is    *)
(* derived from the content of the shell, worker included                  *)
(* (scripts/build-shell-manifest.mjs).  The browser's part, when it looks  *)
(* for a new worker and in which order it runs them, is external.          *)
(***************************************************************************)
EXTENDS Integers, FiniteSets

CONSTANTS
    Releases,     \* bound: releases 1..Releases are deployed, in order
    Path,         \* SHELL_PATHS
    Client,       \* open tabs of the app
    MaxPuts       \* bound: answers on their way into a runtime cache

ASSUME ShellOptions == Releases \in Nat \ {0}

VARIABLES
    deployed,     \* the release the server serves
    core,         \* yt-core-<generation>: [generation -> its files]
    runtime,      \* yt-runtime-<generation>: whether it exists, and its files
    puts,         \* answers of the network that networkFirst() is storing
    installing,   \* the worker in its install event
    activating,   \* the worker in its activate event
    worker,       \* the generation of the active worker, 0 when there is none
    tabs,         \* [tab -> who controls it, what its page remembers]
    overtaken     \* history: generations whose cache went while they installed

shellVars == <<deployed, core, runtime, puts, installing, activating, worker, tabs, overtaken>>

Generation == 1..Releases
Missing == 0
Absent  == [p \in Path |-> -1]
Opened  == [p \in Path |-> Missing]
NoCache == [there |-> FALSE, files |-> {}]
NoWorker == [gen |-> 0, todo |-> Path, listed |-> FALSE, stale |-> {}]

-----------------------------------------------------------------------------
Deploy ==
    /\ deployed < Releases
    /\ deployed' = deployed + 1
    /\ UNCHANGED <<core, runtime, puts, installing, activating, worker, tabs, overtaken>>

\* navigator.serviceWorker.register(), or the browser's own check, finds a new
\* worker script; its install event begins with caches.open(CORE_CACHE).
Update ==
    /\ installing = NoWorker
    /\ deployed \notin {worker, activating.gen}
    /\ installing' = [NoWorker EXCEPT !.gen = deployed]
    /\ core' = [core EXCEPT ![deployed] = IF @ = Absent THEN Opened ELSE @]
    /\ UNCHANGED <<deployed, runtime, puts, activating, worker, tabs, overtaken>>

\* installShell(): a file of the manifest comes complete and is stored.  It is
\* what the server serves now, and a cache that was deleted takes it unseen.
Precache(p) ==
    /\ p \in installing.todo /\ installing.gen # 0
    /\ installing' = [installing EXCEPT !.todo = @ \ {p}]
    /\ core' = IF core[installing.gen] = Absent THEN core
               ELSE [core EXCEPT ![installing.gen][p] = deployed]
    /\ UNCHANGED <<deployed, runtime, puts, activating, worker, tabs, overtaken>>

\* A fetch or a body that fails rejects the installation.
PrecacheFails ==
    /\ installing.gen # 0 /\ installing.todo # {}
    /\ core' = [core EXCEPT ![installing.gen] = Absent]
    /\ installing' = NoWorker
    /\ UNCHANGED <<deployed, runtime, puts, activating, worker, tabs, overtaken>>

SkipInstalling ==
    /\ installing.gen # 0
    /\ activating = NoWorker
    /\ activating' = installing
    /\ installing' = NoWorker
    /\ worker' = installing.gen
    /\ UNCHANGED <<deployed, core, runtime, puts, tabs, overtaken>>

\* skipWaiting(): the installed worker becomes the active one, after the one
\* before it has finished its own activation.
SkipWaiting ==
    /\ installing.gen # 0 /\ installing.todo = {}
    /\ activating = NoWorker
    /\ activating' = installing
    /\ installing' = NoWorker
    /\ worker' = installing.gen
    /\ UNCHANGED <<deployed, core, runtime, puts, tabs, overtaken>>

\* activateGeneration(), up to caches.keys(): clients.claim() first.
Present(g) == core[g] # Absent \/ runtime[g].there
ClaimAndList ==
    /\ activating.gen # 0 /\ ~activating.listed
    /\ tabs' = [t \in Client |-> [tabs[t] EXCEPT !.controller = activating.gen]]
    /\ activating' = [activating EXCEPT !.listed = TRUE,
                                        !.stale = {g \in Generation \ {activating.gen} : Present(g)}]
    /\ UNCHANGED <<deployed, core, runtime, puts, installing, worker, overtaken>>

\* cachesToDelete(): every other generation of the two namespaces; then the
\* tabs are told.  What an answer still puts into a deleted cache is not seen.
Retire ==
    /\ activating.listed
    /\ core' = [g \in Generation |-> IF g \in activating.stale THEN Absent ELSE core[g]]
    /\ runtime' = [g \in Generation |-> IF g \in activating.stale THEN NoCache ELSE runtime[g]]
    /\ puts' = {IF x.cache = "open" /\ x.gen \in activating.stale THEN [x EXCEPT !.cache = "deleted"]
               ELSE x : x \in puts}
    /\ tabs' = [t \in Client |-> [tabs[t] EXCEPT !.message = activating.gen]]
    /\ overtaken' = overtaken \cup ({installing.gen} \cap activating.stale)
    /\ activating' = NoWorker
    /\ UNCHANGED <<deployed, installing, worker>>

-----------------------------------------------------------------------------
\* caches.match() looks through the caches in the order they were created.
Cached(p) == {g \in Generation : core[g][p] > Missing \/ p \in runtime[g].files}

\* networkFirst() of the controlling worker, for a document or a file of the
\* shell: a complete answer of the right kind is going to be stored.  From here
\* on the worker may be replaced, and its caches deleted, at every await.
FetchFromNetwork(t, p) ==
    /\ tabs[t].controller # 0
    /\ Cardinality(puts) < MaxPuts
    /\ puts' = puts \cup {[gen |-> tabs[t].controller, path |-> p, cache |-> "none"]}
    /\ UNCHANGED <<deployed, core, runtime, installing, activating, worker, tabs, overtaken>>

\* cachePut(): caches.open(), which creates the cache, and cache.put(), after
\* which the answer is served.
OpenRuntime(x) ==
    /\ x.cache = "none"
    /\ puts' = (puts \ {x}) \cup {[x EXCEPT !.cache = "open"]}
    /\ runtime' = [runtime EXCEPT ![x.gen].there = TRUE]
    /\ UNCHANGED <<deployed, core, installing, activating, worker, tabs, overtaken>>

PutRuntime(x) ==
    /\ x.cache # "none"
    /\ puts' = puts \ {x}
    /\ runtime' = IF x.cache = "open" THEN [runtime EXCEPT ![x.gen].files = @ \cup {x.path}] ELSE runtime
    /\ UNCHANGED <<deployed, core, installing, activating, worker, tabs, overtaken>>

\* Either of the two fails, which is ignored.
PutFails(x) ==
    /\ puts' = puts \ {x}
    /\ UNCHANGED <<deployed, core, runtime, installing, activating, worker, tabs, overtaken>>

\* Any other answer, and none in time, is replaced by the cached copy.
FetchFromCache(t, p) ==
    /\ tabs[t].controller # 0
    /\ tabs' = [tabs EXCEPT ![t].failed = @ \/ (Cached(p) = {} /\ worker \notin overtaken)]
    /\ UNCHANGED <<deployed, core, runtime, puts, installing, activating, worker, overtaken>>

\* The message 'shell-generation-active': one reload for a generation.
HearGeneration(t) ==
    LET g == tabs[t].message IN
    /\ g # 0
    /\ tabs' = [tabs EXCEPT ![t] = IF @.last = g THEN [@ EXCEPT !.message = 0]
                                   ELSE [controller |-> worker, message |-> 0, last |-> g,
                                         failed |-> @.failed]]
    /\ UNCHANGED <<deployed, core, runtime, puts, installing, activating, worker, overtaken>>

-----------------------------------------------------------------------------
ShellInit ==
    /\ deployed = 1
    /\ core = [g \in Generation |-> Absent] /\ runtime = [g \in Generation |-> NoCache]
    /\ puts = {}
    /\ installing = NoWorker /\ activating = NoWorker /\ worker = 0
    /\ tabs = [t \in Client |-> [controller |-> 0, message |-> 0, last |-> 0, failed |-> FALSE]]
    /\ overtaken = {}

ShellNext ==
    \/ Deploy
    \/ Update
    \/ \E p \in Path : Precache(p)
    \/ PrecacheFails
    \/ SkipWaiting
    \/ ClaimAndList
    \/ Retire
    \/ \E t \in Client :
          \/ \E p \in Path : FetchFromNetwork(t, p) \/ FetchFromCache(t, p)
          \/ HearGeneration(t)
    \/ \E x \in puts : OpenRuntime(x) \/ PutRuntime(x) \/ PutFails(x)

ShellSpec == ShellInit /\ [][ShellNext]_shellVars

-----------------------------------------------------------------------------
ShellTypeOK ==
    /\ deployed \in Generation /\ worker \in 0..Releases
    /\ \A g \in Generation, p \in Path : core[g][p] \in -1..Releases
    /\ \A g \in Generation : runtime[g].there \in BOOLEAN /\ runtime[g].files \subseteq Path
    /\ \A x \in puts : x.gen \in Generation /\ x.path \in Path /\ x.cache \in {"none", "open", "deleted"}
    /\ installing.todo \subseteq Path /\ activating.stale \subseteq Generation
    /\ \A t \in Client : tabs[t].controller \in 0..Releases

\* Offline readiness: from the moment a worker is active its cache holds the
\* whole manifest, through failed installations of later releases, their
\* activations and the retirement of old caches, and no tab, one that still
\* runs the page before included, asks in vain for a file of the shell.  The
\* files may be of other releases (caches.match() takes what it finds first,
\* and see NeverMixed).  A worker whose own cache was deleted by the activation
\* of the one before while it installed is exempt: it has nothing, as "overtaken"
\* records.
ShellComplete ==
    /\ ShellTypeOK
    /\ worker \notin overtaken \cup {0} => \A p \in Path : core[worker][p] > Missing
    /\ \A t \in Client : ~tabs[t].failed

\* "a release can never be installed as a mixture of new and stale modules"
\* (sw.js, header).
NeverMixed ==
    worker # 0 => \A p, q \in Path : core[worker][p] = core[worker][q]
=============================================================================
