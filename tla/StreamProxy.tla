------------------------------- MODULE StreamProxy -------------------------------
(***************************************************************************)
(* Media and metadata requests for one video over the cache of signed URLs *)
(* (src/services/youtube/streamProxy.ts and extractor.ts,                  *)
(* src/middleware/streamCache.ts, src/utils/range.ts,                      *)
(* src/routes/videoRoutes.ts and streamRoutes.ts).                         *)
(*                                                                         *)
(* All extractions of a video share the gate's flight of its key, which is *)
(* what ConcurrencyGate promises; here the flight is its members and its   *)
(* result.  What follows a settlement runs in microtasks: until every      *)
(* member has resumed, and until answers are sent, nothing else happens    *)
(* (Quiet).  A URL is its number, in the order yt-dlp handed them out; the *)
(* formats of one extraction are files of one size, and each request picks *)
(* its own by its ceiling.                                                 *)
(***************************************************************************)
EXTENDS Integers, FiniteSets, FormatSelection

CONSTANTS
    Request,
    Height,        \* SUPPORTED_QUALITIES, the ceilings of the requests
    Offer,         \* what yt-dlp may offer for a video, as a sequence of offers
                   \* (FormatSelection)
    Ttl,           \* STREAM_CACHE_TTL_MS, in ticks
    Scenario       \* bound: what one behaviour has, as
                   \* [requests, heights |-> how many of either may be used,
                   \*  cap    |-> maxSize of the stream cache,
                   \*  ranges |-> the ranges clients ask for,
                   \*  files  |-> what the URLs lead to: [size, known, limit, offer],
                   \*             where known tells whether yt-dlp says the size,
                   \*             limit is the expiry less the margin, and offer
                   \*             the place in Offer,
                   \*  urls   |-> how many URLs yt-dlp hands out,
                   \*  until  |-> the last tick of the clock]

\* A file that a URL leads to, and a range as a client may ask for it.
Media == [size : Nat \ {0}, known : BOOLEAN, limit : Nat, offer : DOMAIN Offer]
Range == [type : {"absent", "invalid", "from", "interval", "suffix"}, a : Nat, b : Nat]

ASSUME StreamAssumption ==
    /\ Height \subseteq Nat /\ Height # {} /\ Ttl \in Nat
    /\ Offer \in Seq(Seq(Format))
    /\ \A s \in Scenario :
          /\ s.requests \subseteq Request /\ s.heights \subseteq Height
          /\ s.cap \in Nat \ {0} /\ s.urls \in Nat /\ s.until \in Nat
          /\ s.ranges \subseteq Range /\ s.files \subseteq Media

VARIABLES
    now,
    cache,     \* height -> entry, None when there is none
    flight,    \* the extraction, and the source it settled with
    urls,      \* how many URLs yt-dlp has handed out
    req,       \* the requests
    scenario   \* the scenario of this behaviour

streamVars == <<now, cache, flight, urls, req, scenario>>

-----------------------------------------------------------------------------
(* Ranges.  A client's range as parseRangeHeader sees it.                  *)

Absent         == [type |-> "absent", a |-> 0, b |-> 0]
Invalid        == [type |-> "invalid", a |-> 0, b |-> 0]
From(a)        == [type |-> "from", a |-> a, b |-> 0]
Interval(a, b) == [type |-> "interval", a |-> a, b |-> b]
Suffix(n)      == [type |-> "suffix", a |-> n, b |-> 0]

Least(a, b) == IF a <= b THEN a ELSE b

\* The bytes a range denotes in a file of n bytes, none when the range is
\* not satisfiable (RFC 7233).
Bytes(range, n) ==
    CASE range.type = "absent"   -> 0..(n - 1)
      [] range.type = "invalid"  -> {}
      [] range.type = "from"     -> range.a..(n - 1)
      [] range.type = "interval" -> range.a..Least(range.b, n - 1)
      [] range.type = "suffix"   -> (n - Least(range.a, n))..(n - 1)

\* forwardRangeHeader: a suffix of a file whose size is known (n > 0) goes
\* as an interval.
Forward(range, n) ==
    IF range.type = "suffix" /\ n > 0 THEN Interval(n - Least(range.a, n), n - 1) ELSE range

Usable200Always(range) == TRUE

\* upstream200IsUsable
Usable200(range) == range.type = "absent" \/ (range.type \in {"from", "interval"} /\ range.a = 0)

-----------------------------------------------------------------------------
(* The cache.                                                              *)

NoMedia  == [size |-> 0, known |-> FALSE, limit |-> 0, offer |-> 0]
NoSource == [url |-> 0, file |-> NoMedia, format |-> NoFormat]
IsSource(s) == s.url \in 0..scenario.urls /\ s.file \in scenario.files \cup {NoMedia}

None == [source |-> NoSource, until |-> 0, used |-> 0]

LifetimeIgnoringMargin(limit) == Ttl

\* urlLifetime
Lifetime(limit) == IF limit <= now THEN 0 ELSE Least(Ttl, limit - now)

\* StreamCache.get: also drops an entry that has expired.
Hit(h)     == cache[h] # None /\ now <= cache[h].until
Got(h)     == [cache EXCEPT ![h] = IF Hit(h) THEN [@ EXCEPT !.used = now] ELSE None]
Held       == {h \in Height : cache[h] # None}

Entry(source) ==
    [source |-> source, until |-> now + Lifetime(source.file.limit), used |-> now]

\* StreamCache.set, with the eviction of the entry that was used the longest
\* ago.  (Of several the code takes the one that was inserted first.)
With(h, source) ==
    IF cache[h] # None \/ Cardinality(Held) < scenario.cap
    THEN {[cache EXCEPT ![h] = Entry(source)]}
    ELSE {[cache EXCEPT ![h] = Entry(source), ![g] = None] :
          g \in {x \in Held : \A y \in Held : cache[x].used <= cache[y].used}}

DroppedOne(h) == [cache EXCEPT ![h] = None]

\* StreamCache.deleteVideo: all heights.
Dropped(h) == [g \in Height |-> None]

\* cleanup(): an entry whose metadata outlives its URL stays until it is
\* looked up, and metadata lives for a day, so within the clock of the
\* instances it removes nothing.

-----------------------------------------------------------------------------
(* Requests.                                                               *)

NoAnswer == [status |-> 0, bytes |-> {}]
AnyHeight == CHOOSE h \in Height : TRUE

NewRequest(kind, h, range) ==
    [pc |-> "idle", kind |-> kind, height |-> h, range |-> range, forwarded |-> Absent,
     decided |-> 0, source |-> NoSource, cached |-> FALSE, fresh |-> FALSE, tries |-> 0,
     refused |-> 0, answer |-> NoAnswer]

NoRequest == NewRequest("stream", AnyHeight, Absent)

Open(r)  == req[r].pc # "idle"
Waiting  == {r \in Request : req[r].pc = "extract"}
Quiet    == /\ flight.state \in {"none", "running"}
            /\ \A r \in Request : req[r].pc # "done"

StreamTypeOK ==
    /\ scenario \in Scenario
    /\ now \in 0..scenario.until /\ urls \in 0..scenario.urls
    /\ \A h \in Height :
          /\ IsSource(cache[h].source)
          /\ cache[h].until \in 0..(scenario.until + Ttl) /\ cache[h].used \in 0..scenario.until
    /\ flight.state \in {"none", "running", "url", "fails", "refuses"} /\ IsSource(flight.source)
    /\ flight.state = "none" <=> Waiting = {}
    /\ \A r \in Request :
          /\ req[r].pc \in {"idle", "extract", "backoff", "fetch", "refused", "done"}
          /\ IsSource(req[r].source)
          /\ req[r].tries \in 0..1
          /\ req[r].refused <= urls
          /\ req[r].fresh => req[r].refused > 0

Answer(q, status, bytes) ==
    [q EXCEPT !.pc = "done", !.answer = [status |-> status, bytes |-> bytes]]

\* A request that has its source decides about the range, once.
Decide(q, source, cached) ==
    LET n == IF source.file.known THEN source.file.size ELSE 0
        s == [q EXCEPT !.source = source, !.cached = cached]
    IN IF q.kind = "info" THEN Answer(s, 200, {})
       ELSE IF q.fresh THEN [s EXCEPT !.pc = "fetch"]
       ELSE IF n > 0 /\ Bytes(q.range, n) = {} THEN Answer(s, 416, {})
       ELSE [s EXCEPT !.pc = "fetch", !.forwarded = Forward(q.range, n), !.decided = n]

NoFlight         == [state |-> "none", source |-> NoSource]
Running          == [state |-> "running", source |-> NoSource]
Settled(how, source) == [state |-> how, source |-> source]

\* runYtDlp: joins the extraction of the video or starts one.
Extracts(r, q) ==
    /\ req' = [req EXCEPT ![r] = [q EXCEPT !.pc = "extract"]]
    /\ flight' = Running

\* GET and HEAD /api/stream/:id (proxyVideoStream).
Stream(r, h, range) ==
    /\ Quiet /\ ~Open(r)
    /\ cache' = Got(h)
    /\ LET q == NewRequest("stream", h, range)
       IN IF range = Invalid
          THEN req' = [req EXCEPT ![r] = Answer(q, 416, {})] /\ UNCHANGED flight
          ELSE IF Hit(h)
          THEN /\ req' = [req EXCEPT ![r] = Decide(q, cache[h].source, TRUE)]
               /\ UNCHANGED flight
          ELSE Extracts(r, q)
    /\ UNCHANGED <<now, urls>>

\* GET /api/video/:id, when the metadata is not in its cache.
Info(r, h) ==
    /\ Quiet /\ ~Open(r)
    /\ Extracts(r, NewRequest("info", h, Absent))
    /\ UNCHANGED <<now, cache, urls>>

\* yt-dlp hands out URLs, or the flight fails in a way that is worth a retry
\* or not.  A gate that is full, has kept the flight waiting for too long or
\* closes is an "unknown" failure by the time the extractor looks at it, and
\* those are retried.  The URLs of a flight whose callers are gone reach
\* nobody.
FlightSettles ==
    /\ flight = Running
    /\ \/ /\ urls < scenario.urls
          /\ urls' = urls + 1
          /\ \E file \in scenario.files :
                flight' = Settled("url", [url |-> urls', file |-> file, format |-> NoFormat])
       \/ /\ \E how \in {"fails", "refuses"} : flight' = Settled(how, NoSource)
          /\ UNCHANGED urls
    /\ UNCHANGED <<now, cache, req>>

\* The flight is over when its last member has resumed.
Leave(r) == flight' = IF Waiting = {r} THEN NoFlight ELSE flight

\* extractSource, or seedStreamCache: the URL is cached and used.
UseUrl(r, source) ==
    /\ cache' \in With(req[r].height, source)
    /\ req' = [req EXCEPT ![r] = Decide(@, source, FALSE)]

\* extractPlayableVideo: each request picks a format by its own ceiling.
\* Without one (FORMAT_UNAVAILABLE) nothing is cached.
ResumeWithUrl(r) ==
    /\ flight.state = "url" /\ r \in Waiting
    /\ \E offer \in {Offer[flight.source.file.offer]} :
       \E i \in {SelectBestStream(offer, req[r].height)} :
          LET source == [flight.source EXCEPT !.format = i] IN
          \/ i # NoFormat /\ UseUrl(r, source)
          \/ /\ i = NoFormat
             /\ req' = [req EXCEPT ![r] = [Answer(@, 400, {}) EXCEPT !.source = source]]
             /\ UNCHANGED cache
    /\ Leave(r)
    /\ UNCHANGED <<now, urls>>

\* categoryToStatus, as far as it matters: 500 stands for the failures that
\* are retried, 404 for the others, and neither is 400, which is the lack of
\* a format.
FailureStatus == IF flight.state = "fails" THEN 500 ELSE 404

AfterFailureForEver(q) ==
    IF flight.state = "fails" THEN [q EXCEPT !.pc = "backoff"] ELSE Answer(q, FailureStatus, {})

\* extractRawInfo: a transient failure is tried once more.
AfterFailure(q) ==
    IF flight.state = "fails" /\ q.tries = 0
    THEN [q EXCEPT !.pc = "backoff", !.tries = 1]
    ELSE Answer(q, FailureStatus, {})

ResumeWithFailure(r) ==
    /\ flight.state \in {"fails", "refuses"} /\ r \in Waiting
    /\ req' = [req EXCEPT ![r] = AfterFailure(@)]
    /\ Leave(r)
    /\ UNCHANGED <<now, cache, urls>>

Retry(r) ==
    /\ Quiet /\ req[r].pc = "backoff"
    /\ Extracts(r, req[r])
    /\ UNCHANGED <<now, cache, urls>>

-----------------------------------------------------------------------------
(* The media server answers the request.                                   *)

Upstream(r, answer) ==
    /\ Quiet /\ req[r].pc = "fetch"
    /\ req' = [req EXCEPT ![r] = answer]
    /\ UNCHANGED <<now, cache, flight, urls>>

\* The range is honoured, or found unsatisfiable; a 416 is relayed too.
PartialContent(r) ==
    LET bytes == Bytes(req[r].forwarded, req[r].source.file.size) IN
    /\ req[r].forwarded # Absent
    /\ Upstream(r, Answer(req[r], IF bytes = {} THEN 416 ELSE 206, bytes))

\* The whole file: relayed only to those who can tell.
WholeFile(r) ==
    LET all == Bytes(Absent, req[r].source.file.size) IN
    Upstream(r, IF Usable200(req[r].range) THEN Answer(req[r], 200, all)
                ELSE Answer(req[r], 502, {}))

\* 404, 429, 5xx and network errors are never a reason to extract again.
UpstreamFails(r) == Upstream(r, Answer(req[r], 502, {}))

\* A URL from the cache that is refused may be stale.
Forbidden(r) ==
    Upstream(r, IF req[r].cached /\ ~req[r].fresh
                THEN [req[r] EXCEPT !.pc = "refused", !.refused = req[r].source.url]
                ELSE Answer(req[r], 429, {}))

\* attempt(true): after the body has been cancelled.
Refresh(r) ==
    /\ Quiet /\ req[r].pc = "refused"
    /\ cache' = Dropped(req[r].height)
    /\ Extracts(r, [req[r] EXCEPT !.fresh = TRUE, !.tries = 0, !.source = NoSource,
                                  !.cached = FALSE])
    /\ UNCHANGED <<now, urls>>

\* The client goes away.  The last one to leave a flight abandons it.
Abort(r) ==
    /\ Quiet /\ Open(r)
    /\ req' = [req EXCEPT ![r] = Answer(@, 499, {})]
    /\ flight' = IF Waiting \subseteq {r} THEN NoFlight ELSE flight
    /\ UNCHANGED <<now, cache, urls>>

\* The answer leaves.
Sent(r) ==
    /\ req[r].pc = "done"
    /\ req' = [req EXCEPT ![r] = NoRequest]
    /\ UNCHANGED <<now, cache, flight, urls>>

Tick ==
    /\ Quiet /\ now < scenario.until
    /\ now' = now + 1
    /\ UNCHANGED <<cache, flight, urls, req>>

-----------------------------------------------------------------------------
StreamInit ==
    /\ scenario \in Scenario
    /\ now = 0 /\ urls = 0 /\ flight = NoFlight
    /\ cache = [h \in Height |-> None]
    /\ req = [r \in Request |-> NoRequest]

Progress(r) ==
    \/ ResumeWithUrl(r) \/ ResumeWithFailure(r) \/ Retry(r)
    \/ PartialContent(r) \/ WholeFile(r) \/ UpstreamFails(r) \/ Forbidden(r)
    \/ Refresh(r) \/ Sent(r)

Calls(r) ==
    \/ \E h \in scenario.heights : Info(r, h) \/ \E range \in scenario.ranges : Stream(r, h, range)
    \/ Abort(r)

StreamNext ==
    /\ UNCHANGED scenario
    /\ \/ \E r \in scenario.requests : Calls(r) \/ Progress(r)
       \/ FlightSettles
       \/ Tick

\* Children are killed when their time is up, connections and headers have
\* a deadline, timers fire; and the event loop handles its events in the
\* order they come, so that none that is ready waits for ever behind the
\* events of other requests.
StreamFairness ==
    /\ WF_streamVars(FlightSettles /\ UNCHANGED scenario)
    /\ \A r \in Request : SF_streamVars(Progress(r) /\ UNCHANGED scenario)

StreamSpec == StreamInit /\ [][StreamNext]_streamVars /\ StreamFairness

-----------------------------------------------------------------------------
(* What requests may rely on.                                              *)

\* A URL that is taken from the cache has not reached its expiry less the
\* margin, unless it was handed out in this very tick.
FreshFromCache ==
    [][\A r \in Request :
          req'[r].cached /\ req'[r].pc = "fetch" /\ req[r].pc # "fetch" =>
              LET e == cache[req'[r].height] IN
              \/ now <= e.source.file.limit
              \/ e.until = now]_streamVars

\* Once a request has refreshed a URL that was refused, no older one comes
\* back into the cache for any height, whatever other requests do.
RefusedIsGone ==
    /\ StreamTypeOK
    /\ \A r \in Request, h \in Height :
          req[r].fresh /\ cache[h] # None => cache[h].source.url > req[r].refused

\* The file is as long as it was when the range was decided on.
SameSize(q) == q.decided \in {0, q.source.file.size}

\* A file is relayed, or found not to be there, by what the ceiling of the
\* request picks, also when it comes from the cache or from an extraction
\* that requests with other ceilings share; and each height the metadata
\* lists would be relayed if it were asked for.
CeilingKept(q) ==
    q.source # NoSource =>
        LET offer == Offer[q.source.file.offer] IN
        /\ Chosen(q.source.format, offer, q.height)
        /\ q.source.format = NoFormat <=> q.answer.status = 400
        /\ \A h \in AvailableCombinedQualities(offer) :
              FormatHeight(offer[SelectBestStream(offer, h)]) = h

\* What is relayed is what was asked for: a 206 has the bytes the client's
\* range denotes, a 200 goes to those who wanted the whole file or can read
\* it from its first byte, and a 416 only to a range that has no bytes.
\* Left out is the request whose refresh led to a file of another size than
\* its range was decided on: the range is not decided on again, and what it
\* then gets is not what it asked for.
RangeKept(q) ==
    LET n == q.source.file.size IN
    q.kind = "stream" /\ SameSize(q) =>
       /\ q.answer.status = 206 => q.answer.bytes = Bytes(q.range, n)
       /\ q.answer.status = 200 => q.answer.bytes = 0..(n - 1) /\ 0 \in Bytes(q.range, n)
       /\ q.answer.status = 416 => Bytes(q.range, n) = {}

RelayHonest == \A r \in Request : CeilingKept(req[r]) /\ RangeKept(req[r])

\* Every request is answered, however often the media server refuses.
RequestsAnswered == \A r \in Request : Open(r) ~> ~Open(r)
=============================================================================
