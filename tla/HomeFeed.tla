------------------------------- MODULE HomeFeed -------------------------------
(***************************************************************************)
(* The home tab (src/frontend/js/components/homeFeed.js): the feed of the  *)
(* selected category, its first page and the pages scrolled to, while      *)
(* other pages replace the content and loads of earlier render cycles are  *)
(* still under way.                                                        *)
(*                                                                         *)
(* The generation counter is a flag of each load: TRUE until the next      *)
(* bumpGeneration().  What a page of the server holds is its answer's      *)
(* choice; the videos a user hid are left out.                             *)
(***************************************************************************)
EXTENDS Integers, Sequences

CONSTANTS
    Category,     \* categories of the chip row
    All,          \* the category that is active first, 'all'
    MaxLoads,     \* bound: loads under way at once
    MaxPage,      \* maxPage of fetchFeedPage()
    Attempts      \* pages one loadMore() may skip over

ASSUME FeedOptions ==
    /\ All \in Category
    /\ MaxLoads \in Nat \ {0} /\ MaxPage \in Nat \ {0} /\ Attempts \in Nat \ {0}

VARIABLES
    active,       \* activeCategory
    feeds,        \* feedStates
    view,         \* #homeFeedView: on the page or not, and what it shows
    loads         \* the loads of feed pages under way, oldest first

feedVars == <<active, feeds, view, loads>>

UnderWay == 1..Len(loads)
Room == Len(loads) < MaxLoads

\* getState(): a category nobody opened.  old: loaded REFRESH_AFTER_MS ago;
\* cooling: before nextRetryAt.
NewState == [videos |-> FALSE, page |-> 1, hasMore |-> TRUE, loading |-> FALSE,
             old |-> FALSE, cooling |-> FALSE]

\* heard is history: the last choice of a category was acted upon.
NoView == [on |-> FALSE, show |-> "blank", cat |-> All, sentinel |-> FALSE, heard |-> TRUE]

\* The operators below rewrite these three together.
Now == [feeds |-> feeds, loads |-> loads, view |-> view]
Becomes(s) == feeds' = s.feeds /\ loads' = s.loads /\ view' = s.view

-----------------------------------------------------------------------------
\* bumpGeneration(): no load of an earlier cycle is alive.
BumpGeneration(s) ==
    [s EXCEPT !.loads = [i \in DOMAIN @ |-> [@[i] EXCEPT !.live = FALSE]]]

\* paintSkeletons(), paintFeedError(), paintPage(): the content is replaced.
Paint(s, show, c, sentinel) ==
    [s EXCEPT !.view = [on |-> @.on, show |-> show, cat |-> c, sentinel |-> sentinel,
                        heard |-> @.heard \/ c = active']]

PaintPage(s, c) ==
    IF s.feeds[c].videos THEN Paint(s, "page", c, s.feeds[c].hasMore)
    ELSE Paint(s, "empty", c, FALSE)

Launch(s, c, kind, silent) ==
    [s EXCEPT !.feeds[c].loading = TRUE,
              !.loads = Append(@, [kind |-> kind, cat |-> c, silent |-> silent, live |-> TRUE,
                                   here |-> TRUE, tries |-> 1,
                                   gate |-> FALSE,
                                   page |-> IF kind = "first" THEN 1 ELSE s.feeds[c].page])]

\* loadFirstPage(), up to its fetch.
LoadFirstPage(s, c, silent) ==
    IF s.feeds[c].loading THEN s
    ELSE LET l == Launch(s, c, "first", silent)
         IN  IF silent THEN l ELSE Paint(l, "skeletons", c, FALSE)

\* What entering a category paints and loads.
Enter(s, c) ==
    IF s.feeds[c].videos
    THEN LET p == PaintPage(s, c) IN IF s.feeds[c].old THEN LoadFirstPage(p, c, TRUE) ELSE p
    ELSE LoadFirstPage(s, c, FALSE)

-----------------------------------------------------------------------------
RenderKeepingFlag ==
    /\ ~view.on
    /\ Room
    /\ UNCHANGED active
    /\ LET s == [BumpGeneration(Now) EXCEPT
                    !.view = [NoView EXCEPT !.on = TRUE, !.cat = active],
                    !.loads = [i \in DOMAIN @ |-> [@[i] EXCEPT !.here = FALSE]]]
       IN  Becomes(Enter(s, active))

\* renderHomeFeed() when another page had replaced the content: a new view, a
\* new cycle.  The generation has just moved on, so a load that was under way
\* is never of this cycle and its flag is always dropped.
RenderFreshView ==
    /\ ~view.on
    /\ Room
    /\ UNCHANGED active
    /\ LET bumped == BumpGeneration(Now)
           s == [view  |-> [NoView EXCEPT !.on = TRUE, !.cat = active],
                 feeds |-> [bumped.feeds EXCEPT ![active].loading = FALSE],
                 loads |-> [i \in DOMAIN bumped.loads |-> [bumped.loads[i] EXCEPT !.here = FALSE]]]
       IN  Becomes(Enter(s, active))

\* renderHomeFeed() while its view is still on screen.
RenderAgain ==
    /\ view.on
    /\ Room
    /\ UNCHANGED active
    /\ Becomes(Enter(Now, active))

\* Another page replaces the content of #videoFeed.
Leave ==
    /\ view.on
    /\ view' = NoView
    /\ UNCHANGED <<active, feeds, loads>>

\* selectCategory(): a category with a load under way is neither painted nor
\* loaded.
SelectCategory(c) ==
    /\ view.on /\ c # active
    /\ Room
    /\ active' = c
    /\ LET s == BumpGeneration(Now)
       IN  Becomes(IF feeds[c].loading THEN [s EXCEPT !.view.heard = FALSE] ELSE Enter(s, c))

\* The button of paintFeedError().
Retry ==
    /\ view.on /\ view.show = "error"
    /\ Room
    /\ UNCHANGED active
    /\ Becomes(LoadFirstPage(Now, view.cat, FALSE))

\* loadMore(): the sentinel comes into sight.
Scroll ==
    LET f == feeds[active] IN
    /\ view.on /\ view.sentinel
    /\ f.hasMore /\ ~f.loading /\ ~f.cooling
    /\ Room
    /\ UNCHANGED active
    /\ Becomes(Launch(Now, active, "more", FALSE))

-----------------------------------------------------------------------------
Alive(l) == view.on /\ l.live

\* The finally block: whoever set the flag, it is dropped.
Finish(i) == [Now EXCEPT !.loads = SubSeq(@, 1, i - 1) \o SubSeq(@, i + 1, Len(@)),
                         !.feeds[loads[i].cat].loading = FALSE]

\* What an answer says: it holds videos (videos not seen before, for a later
\* page), and there is more.  Past the page limit nothing is asked for.
Answer(page) == IF page > MaxPage THEN {[some |-> FALSE, more |-> FALSE]}
                ELSE [some : BOOLEAN, more : BOOLEAN]

FirstPageAnswers(i) ==
    LET l == loads[i] IN
    /\ l.kind = "first"
    /\ UNCHANGED active
    /\ IF l.cat # active \/ ~Alive(l)
       THEN Becomes(Finish(i))
       ELSE \E a \in Answer(1) :
               LET s == [Finish(i) EXCEPT !.feeds[l.cat] =
                            [videos |-> a.some, page |-> 2, hasMore |-> a.more /\ a.some,
                             loading |-> FALSE, old |-> FALSE, cooling |-> FALSE]]
               IN  Becomes(PaintPage(s, l.cat))

FirstPageFailsAnywhere(i) ==
    LET l == loads[i]
        s == [Finish(i) EXCEPT !.feeds[l.cat].cooling = TRUE]
    IN  /\ l.kind = "first"
        /\ UNCHANGED active
        /\ Becomes(IF view.on /\ l.here /\ ~l.silent THEN Paint(s, "error", l.cat, FALSE) ELSE s)

\* The error path asks whether the view is on the page, not whether the load
\* is of this cycle; what it paints into an earlier view is not seen.
FirstPageFails(i) ==
    LET l == loads[i]
        s == [Finish(i) EXCEPT !.feeds[l.cat].cooling = TRUE]
    IN  /\ l.kind = "first"
        /\ UNCHANGED active
        /\ Becomes(IF l.cat = active /\ view.on /\ l.here /\ (~l.silent \/ ~feeds[l.cat].videos)
                   THEN Paint(s, "error", l.cat, FALSE) ELSE s)

\* One round of loadMore(): another page is asked for while the answers hold
\* nothing new and say that there is more.
MoreAnswers(i) ==
    LET l == loads[i] IN
    /\ l.kind = "more"
    /\ UNCHANGED active
    /\ \/ /\ l.cat # active \/ ~Alive(l)
          /\ Becomes(Finish(i))
       \/ /\ l.cat = active /\ Alive(l)
          /\ \E a \in Answer(l.page) :
                IF ~a.some /\ a.more /\ l.tries < Attempts
                THEN Becomes([Now EXCEPT !.loads[i] = [l EXCEPT !.page = l.page + 1,
                                                                !.tries = l.tries + 1]])
                ELSE LET s == [Finish(i) EXCEPT
                                  !.feeds[l.cat] = [@ EXCEPT !.page = l.page + 1, !.old = FALSE,
                                                    !.cooling = FALSE, !.hasMore = a.more /\ a.some]]
                     IN  Becomes([s EXCEPT !.view.sentinel = @ /\ a.more /\ a.some])

MoreFails(i) ==
    /\ loads[i].kind = "more"
    /\ UNCHANGED active
    /\ Becomes([Finish(i) EXCEPT !.feeds[loads[i].cat].cooling = TRUE])

\* The request is answered 401 and waits for the login, which nothing bounds;
\* the login lets every request that waits go on.
FeedUnauthorized(i) ==
    /\ ~loads[i].gate
    /\ loads' = [loads EXCEPT ![i].gate = TRUE]
    /\ UNCHANGED <<active, feeds, view>>

FeedLoggedIn ==
    /\ \E i \in UnderWay : loads[i].gate
    /\ loads' = [i \in UnderWay |-> [loads[i] EXCEPT !.gate = FALSE]]
    /\ UNCHANGED <<active, feeds, view>>

\* Time goes by: a feed is due for a refresh, a cooldown is over.
GrowsOld(c) ==
    /\ feeds[c].videos /\ ~feeds[c].old
    /\ feeds' = [feeds EXCEPT ![c].old = TRUE]
    /\ UNCHANGED <<active, view, loads>>

CoolsDown(c) ==
    /\ feeds[c].cooling
    /\ feeds' = [feeds EXCEPT ![c].cooling = FALSE]
    /\ UNCHANGED <<active, view, loads>>

-----------------------------------------------------------------------------
FeedInit ==
    /\ active = All
    /\ feeds = [c \in Category |-> NewState]
    /\ view = NoView
    /\ loads = <<>>

LoadSettles(i) ==
    /\ ~loads[i].gate
    /\ FirstPageAnswers(i) \/ FirstPageFails(i) \/ MoreAnswers(i) \/ MoreFails(i)

FeedNext ==
    \/ RenderFreshView
    \/ RenderAgain
    \/ Leave
    \/ \E c \in Category : SelectCategory(c) \/ GrowsOld(c) \/ CoolsDown(c)
    \/ Retry
    \/ Scroll
    \/ \E i \in UnderWay : LoadSettles(i) \/ FeedUnauthorized(i)
    \/ FeedLoggedIn

\* Of the requests that do not wait for a login.
Oldest(i) == ~loads[i].gate /\ \A j \in 1..(i - 1) : loads[j].gate

\* A request that does not stand at the login gate ends, because api.js bounds
\* its headers and its body: the oldest one does, and then the next is the
\* oldest.  The login itself is the user's and is not fair.
FeedFairness == WF_feedVars(\E i \in UnderWay : Oldest(i) /\ LoadSettles(i))

FeedSpec == FeedInit /\ [][FeedNext]_feedVars /\ FeedFairness

-----------------------------------------------------------------------------
FeedTypeOK ==
    /\ active \in Category
    /\ view.show \in {"blank", "skeletons", "page", "empty", "error"}
    /\ view.cat \in Category /\ view.sentinel \in BOOLEAN /\ view.heard \in BOOLEAN
    /\ \A c \in Category : feeds[c].page \in 1..(MaxPage + Attempts + 1)
    /\ \A i \in UnderWay : loads[i].kind \in {"first", "more"}

\* The page under the chips is the selected category's, whatever loads of other
\* categories and of earlier cycles do when they end.  Left out is a choice
\* that was not acted upon, of a category that still had a load under way: it
\* leaves what was there before.  And a category marked as loading has a load
\* under way, so that the mark, which keeps other loads out, is dropped when
\* that load ends.
ScreenFollows ==
    /\ FeedTypeOK
    /\ view.on /\ view.heard => view.cat = active
    /\ \A c \in Category : feeds[c].loading => \E i \in UnderWay : loads[i].cat = c

\* Nobody who stays with a category that was entered looks at its skeletons or
\* at an empty view for ever: an answer or an error replaces them, even when
\* the load that was to do it was abandoned by leaving the tab and coming
\* back, unless that load stands at the login gate, which covers the screen.
\* After a choice that was not acted upon the skeletons may stay.
Awaiting(c) == view.on /\ view.heard /\ active = c /\ view.show \in {"blank", "skeletons"}
AtGate(c)   == \E i \in UnderWay : loads[i].gate /\ loads[i].live /\ loads[i].cat = c
HomePaints  == \A c \in Category : []<>(~Awaiting(c) \/ AtGate(c))
=============================================================================
