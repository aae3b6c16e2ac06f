-------------------------------- MODULE MCShared --------------------------------
(***************************************************************************)
(* The parts of which only safety is asked: the gate, the data cache, the  *)
(* limiters and the installer of the server, and the service worker that   *)
(* keeps the shell in the browser.  They share no state, so a behaviour is *)
(* one of one of them; the others stay as they begin.                      *)
(***************************************************************************)
EXTENDS ConcurrencyGate, FeedCache, RateLimit, RuntimeInstall, ServiceWorker, TLC

CONSTANTS pop, news, sport

\* One slot or two, and a queue of one or two.
MCOptions == {[activeLimit |-> 1, queueMax |-> 1], [activeLimit |-> 2, queueMax |-> 1],
              [activeLimit |-> 1, queueMax |-> 2]}

\* Two hours with different categories, one of them in both.
MCMix == {<<{pop, news}>>, <<{pop}, {sport}>>}

\* One login in a window, two extractions.
MCMax    == [login |-> 1, extract |-> 2]
MCWindow == [login |-> 2, extract |-> 2]

\* Requests, processes and files of the shell are interchangeable.
MCSymmetry == Permutations(Call) \cup Permutations(Process) \cup Permutations(Path)

VARIABLE part

sharedVars == <<part, vars, cacheVars, limiterVars, installVars, shellVars>>

-----------------------------------------------------------------------------
\* A part that is not under way has one of its initial states, and versions are
\* interchangeable, so one is pinned first.
SharedInit ==
    /\ part \in {"gate", "cache", "limiter", "install", "shell"}
    /\ Init /\ CacheInit /\ LimiterInit /\ InstallInit /\ ShellInit
    /\ part # "gate" => bounds = [activeLimit |-> 1, queueMax |-> 1]
    /\ part # "cache" => mix = <<{pop}, {sport}>>
    /\ pinned = CHOOSE v \in Version : TRUE

SharedNext ==
    /\ UNCHANGED part
    /\ \/ part = "gate" /\ Next /\ UNCHANGED <<cacheVars, limiterVars, installVars, shellVars>>
       \/ part = "cache" /\ CacheNext /\ UNCHANGED <<vars, limiterVars, installVars, shellVars>>
       \/ part = "limiter" /\ LimiterNext /\ UNCHANGED <<vars, cacheVars, installVars, shellVars>>
       \/ part = "install" /\ InstallNext /\ UNCHANGED <<vars, cacheVars, limiterVars, shellVars>>
       \/ part = "shell" /\ ShellNext /\ UNCHANGED <<vars, cacheVars, limiterVars, installVars>>

SharedSpec == SharedInit /\ [][SharedNext]_sharedVars
=============================================================================
