--------------------------------- MODULE MCPage ---------------------------------
(***************************************************************************)
(* What the page keeps and shows: the download of one file, downloads that *)
(* are played and removed, and the feed.  They share no state, so a        *)
(* behaviour is one of one of them; the others stay as they begin, where   *)
(* nothing that is under fairness can happen.                              *)
(***************************************************************************)
EXTENDS OfflinePlayback, HomeFeed

CONSTANTS e1, e2, w1, w2, m1, m2

VARIABLE part

pageVars == <<part, vars, playVars, feedVars>>

\* Files of two or three bytes, fetched two at a time: two versions by strong
\* ETag, three by weak ETags and Last-Modified, one by Last-Modified alone, two
\* without any validator, and an empty file.
V(n, t, e, l) == [name |-> n, total |-> t, etag |-> e, lm |-> l]

a == V("a", 3, e1, m1)
b == V("b", 3, e2, m1)
c == V("c", 3, w1, m1)
d == V("d", 3, w1, m2)
h == V("h", 3, w2, m2)
f == V("f", 3, Null, m1)
n == V("n", 3, Null, Null)
e == V("e", 2, Null, Null)
g == V("g", 0, Null, Null)

MCVersions  == {a, b, c, d, h, f, n, e, g}

\* What is played: two versions of one length, or a version and a shorter one.
MCPlayed == {[serves |-> s, misreads |-> FALSE] : s \in {{a, b}, {a, e}}}

\* The weak validators that change together, validators that come and go, and
\* the misread records have behaviours of their own.
MCScenarios ==
    MCPlayed \cup
    { [serves |-> {a, c, d, e, g}, misreads |-> FALSE],
      [serves |-> {c, d, h}, misreads |-> FALSE],
      [serves |-> {a, f, n}, misreads |-> FALSE],
      [serves |-> {a, e}, misreads |-> TRUE] }

\* Old stores: the second of three chunks is lost, or the second of two.
OldChunk(i) == [index |-> i, start |-> i, end |-> i, ver |-> a]
OldStore(count, S) ==
    [db |-> [status |-> "paused", completed |-> count, count |-> count, total |-> 3,
            etag |-> e1, lm |-> m1],
     chunks |-> {OldChunk(i) : i \in S}]
MCOldStores == {OldStore(3, {0, 2}), OldStore(2, {0})}

MCStrong == {e1, e2}

-----------------------------------------------------------------------------
\* A part that is not under way has one of its initial states.
PageInit ==
    /\ part \in {"download", "playback", "feed"}
    /\ Init /\ PlaybackInit /\ FeedInit
    /\ (part = "playback") = (scenario \in MCPlayed)
    /\ part # "playback" => ~legacy
    /\ part = "feed" => scenario.misreads /\ cur = a /\ db = Null

PageNext ==
    /\ UNCHANGED part
    /\ \/ part = "download" /\ Next /\ UNCHANGED <<playVars, feedVars>>
       \/ part = "playback" /\ PlaybackNext /\ UNCHANGED feedVars
       \/ part = "feed" /\ FeedNext /\ UNCHANGED <<vars, playVars>>

PageSpec == PageInit /\ [][PageNext]_pageVars /\ WF_vars(Step) /\ FeedFairness
=============================================================================
