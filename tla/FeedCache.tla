------------------------------- MODULE FeedCache -------------------------------
(***************************************************************************)
(* The feed and search data of the server: the stale-on-error cache        *)
(* (src/services/cache/staleCache.ts), category, home and search loads     *)
(* over it (trendingService.ts, searchService.ts) and the routes that      *)
(* answer with a page of a cached batch (feedRoutes.ts, searchRoutes.ts).  *)
(*                                                                         *)
(* A batch is known by the time YouTube answered it; the home batch is as  *)
(* old as the oldest category batch mixed into it.  The runs of yt-dlp are *)
(* those of the concurrency gate: one flight per key, whose answer reaches *)
(* every load that joined it before anything else runs.                    *)
(***************************************************************************)
EXTENDS Integers, Sequences, FiniteSets

CONSTANTS
    Call,         \* concurrent requests
    Query,        \* keys of category feeds and searches
    MixChoices,   \* set of sequences of sets of categories: HOME_MIX by the hour
    Home,         \* the key of the home batch, "home:canonical"
    Ttl,          \* config.feed.batchTtlMs, searchTtlMs
    HomeTtl,      \* config.feed.homeTtlMs
    StaleTtl,     \* STALE_TTL_MS
    Hour,         \* length of an hour
    CacheSize,    \* StaleCache.maxSize
    MaxTime       \* bound: the model's time ends here

ASSUME CacheOptions ==
    /\ Ttl \in Nat /\ HomeTtl \in Nat /\ StaleTtl \in Nat \ {0} /\ Hour \in Nat \ {0}
    /\ Ttl <= StaleTtl /\ HomeTtl <= StaleTtl
    /\ CacheSize \in Nat \ {0} /\ MaxTime \in Nat
    /\ Home \notin Query
    /\ \A m \in MixChoices :
          /\ Len(m) \in Nat \ {0}
          /\ \A i \in 1..Len(m) : m[i] # {} /\ Home \notin m[i]

VARIABLES
    mix,       \* the categories of each hour, in turn
    time,      \* Date.now()
    entries,   \* staleCache: [key -> [content, savedAt]]
    order,     \* the keys of the Map, oldest first
    fetches,   \* keys with a yt-dlp run under way
    calls      \* [call -> its load]

cacheVars == <<mix, time, entries, order, fetches, calls>>

Category == UNION {mix[i] : i \in 1..Len(mix)}
CacheKey == Query \cup Category \cup {Home}

None   == [content |-> -1, savedAt |-> -1]
NoData == -1
NoLoad == [st |-> "idle", key |-> Home, now |-> 0, spare |-> NoData, parts |-> <<>>, got |-> NoData]

-----------------------------------------------------------------------------
\* StaleCache.set(): a new key in a full Map pushes out the first inserted;
\* a key that is there keeps its place.
SetEntry(s, k, e) ==
    LET full == Len(s.order) >= CacheSize /\ s.entries[k] = None
        kept == IF full THEN Tail(s.order) ELSE s.order
    IN  [entries |-> [x \in DOMAIN s.entries |->
                        IF x = k THEN e
                        ELSE IF full /\ x = Head(s.order) THEN None ELSE s.entries[x]],
         order |-> IF s.entries[k] = None THEN Append(kept, k) ELSE kept]

Fresh(e, ttl) == e # None /\ time - e.savedAt < ttl
SpareOfAnyAge(e) == IF e # None THEN e.content ELSE NoData

\* What a load that begins now may fall back on.
Spare(e) == IF e # None /\ time - e.savedAt < StaleTtl THEN e.content ELSE NoData

PickByMinute == mix[(time % Len(mix)) + 1]

\* pickHomeCategories()
PickHomeCategories == mix[((time \div Hour) % Len(mix)) + 1]

-----------------------------------------------------------------------------
\* One category of a load: the spare it began with, and what came of it.
Waiting(spare) == [st |-> "waiting", spare |-> spare, got |-> NoData]
Came(v)        == [st |-> "came", spare |-> v, got |-> v]
PartOutcome(part, ok) ==
    IF ok THEN Came(time) ELSE IF part.spare # NoData THEN Came(part.spare)
    ELSE [part EXCEPT !.st = "failed"]

Part(k, ttl) == IF Fresh(entries[k], ttl) THEN Came(entries[k].content) ELSE Waiting(Spare(entries[k]))

Awaited(parts)  == {k \in DOMAIN parts : parts[k].st = "waiting"}
\* loadHomeBatch(): what came is mixed; it is an outage only when nothing did.
Contents(parts) == {parts[k].got : k \in {x \in DOMAIN parts : parts[x].st = "came"}}
Oldest(S) == CHOOSE v \in S : \A w \in S : v <= w

Load(k, parts) == [st |-> "loading", key |-> k, now |-> time, spare |-> Spare(entries[k]),
                   parts |-> parts, got |-> NoData]
Served(c, v) == [c EXCEPT !.st = "served", !.got = v, !.parts = <<>>]

\* loadWithStale() once its producer has settled.
Settled(c, parts) ==
    IF Contents(parts) # {} THEN Served(c, Oldest(Contents(parts)))
    ELSE IF c.spare # NoData THEN Served(c, c.spare)
    ELSE [c EXCEPT !.st = "error", !.parts = parts]

\* searchForVideos() and getTrendingForCategory().
BeginQuery(c, k) ==
    /\ calls[c].st = "idle"
    /\ IF Fresh(entries[k], Ttl)
       THEN /\ calls' = [calls EXCEPT ![c] = Served(Load(k, <<>>), entries[k].content)]
            /\ UNCHANGED fetches
       ELSE /\ calls' = [calls EXCEPT ![c] = Load(k, [x \in {k} |-> Part(k, Ttl)])]
            /\ fetches' = fetches \cup {k}
    /\ UNCHANGED <<mix, time, entries, order>>

\* getHomeFeed(): its category loads start at once, each over its own entry.
BeginHome(c) ==
    /\ calls[c].st = "idle"
    /\ LET parts == [k \in PickHomeCategories |-> Part(k, HomeTtl)]
           load  == Load(Home, parts)
           set   == SetEntry([entries |-> entries, order |-> order], Home,
                             [content |-> Oldest(Contents(parts)), savedAt |-> time])
       IN  \/ /\ Fresh(entries[Home], HomeTtl)
              /\ calls' = [calls EXCEPT ![c] = Served(Load(Home, <<>>), entries[Home].content)]
              /\ UNCHANGED <<entries, order, fetches>>
           \/ /\ ~Fresh(entries[Home], HomeTtl) /\ Awaited(parts) # {}
              /\ calls' = [calls EXCEPT ![c] = load]
              /\ fetches' = fetches \cup Awaited(parts)
              /\ UNCHANGED <<entries, order>>
           \/ /\ ~Fresh(entries[Home], HomeTtl) /\ Awaited(parts) = {}
              /\ calls' = [calls EXCEPT ![c] = Settled(load, parts)]
              /\ entries' = set.entries /\ order' = set.order
              /\ UNCHANGED fetches
    /\ UNCHANGED <<mix, time>>

-----------------------------------------------------------------------------
\* A flight ends: the loads that joined it go on one after the other, in the
\* order they joined, so the last to write a key is the last to have begun.
Joined(k) == {c \in Call : calls[c].st = "loading" /\ k \in Awaited(calls[c].parts)}

\* Of loads that began in one tick any may be the last.
Latest(C) == {c \in C : \A d \in C : calls[d].now <= calls[c].now}

FlightEnds(k, ok) ==
    LET parts(c) == [calls[c].parts EXCEPT ![k] = PartOutcome(@, ok)]
        done  == {c \in Joined(k) : Awaited(parts(c)) = {}}
        mixed == {c \in done : calls[c].key = Home /\ Contents(parts(c)) # {}}
        now   == [entries |-> entries, order |-> order]
        own(c) == IF ~ok THEN now
                  ELSE SetEntry(now, k, [content |-> time, savedAt |-> calls[c].now])
        all(c, m) == IF mixed = {} THEN own(c)
                     ELSE SetEntry(own(c), Home, [content |-> Oldest(Contents(parts(m))),
                                                  savedAt |-> calls[m].now])
    IN  /\ fetches' = fetches \ {k}
        /\ calls' = [c \in Call |-> IF c \in done THEN Settled(calls[c], parts(c))
                                   ELSE IF c \in Joined(k) THEN [calls[c] EXCEPT !.parts = parts(c)]
                                   ELSE calls[c]]
        /\ \E c \in Latest(Joined(k)), m \in Latest(IF mixed = {} THEN Joined(k) ELSE mixed) :
              entries' = all(c, m).entries /\ order' = all(c, m).order
        /\ UNCHANGED <<mix, time>>

YouTubeAnswers(k) == FlightEnds(k, TRUE)

\* yt-dlp fails, is refused by the gate or prints what does not parse.
YouTubeFails(k) == FlightEnds(k, FALSE)

\* The client of a query goes away: its load detaches, and the flight dies
\* with its last load.  The loads of the home batch carry no signal.
Abandoned(c) ==
    /\ calls[c].st = "loading" /\ calls[c].key # Home
    /\ calls' = [calls EXCEPT ![c] = NoLoad]
    /\ fetches' = IF Joined(calls[c].key) = {c} THEN fetches \ {calls[c].key} ELSE fetches
    /\ UNCHANGED <<mix, time, entries, order>>

Delivered(c) ==
    /\ calls[c].st \notin {"idle", "loading"}
    /\ calls' = [calls EXCEPT ![c] = NoLoad]
    /\ UNCHANGED <<mix, time, entries, order, fetches>>

Elapse ==
    /\ time < MaxTime
    /\ time' = time + 1
    /\ UNCHANGED <<mix, entries, order, fetches, calls>>

-----------------------------------------------------------------------------
CacheInit ==
    /\ mix \in MixChoices
    /\ time = 0
    /\ entries = [k \in CacheKey |-> None] /\ order = <<>>
    /\ fetches = {}
    /\ calls = [c \in Call |-> NoLoad]

CacheNext ==
    \/ \E c \in Call :
          \/ \E k \in Query : BeginQuery(c, k)
          \/ BeginHome(c)
          \/ Abandoned(c)
          \/ Delivered(c)
    \/ \E k \in fetches : YouTubeAnswers(k) \/ YouTubeFails(k)
    \/ Elapse

CacheSpec == CacheInit /\ [][CacheNext]_cacheVars

-----------------------------------------------------------------------------
CacheTypeOK ==
    /\ time \in 0..MaxTime
    /\ \A k \in CacheKey : entries[k] = None \/ entries[k].savedAt \in 0..time
    /\ {order[i] : i \in 1..Len(order)} = {k \in CacheKey : entries[k] # None}
    /\ Len(order) <= CacheSize
    /\ fetches \subseteq Query \cup Category
    /\ \A k \in fetches : Joined(k) # {}

\* What a client gets is what the cache promises.  A query is answered with
\* data less than the stale window old when the request came in; the home
\* feed, whose parts and whole may each be stale, less than twice that; and
\* an error means that nothing usable was there when the request came in and
\* that nothing of what it asked for came back.
AnswersHonest ==
    /\ CacheTypeOK
    /\ \A c \in Call :
          LET a == calls[c] IN
          /\ a.st = "served" =>
                a.now - a.got < (IF a.key = Home THEN 2 * StaleTtl ELSE StaleTtl)
          /\ a.st = "error" =>
                a.spare = NoData /\ \A k \in DOMAIN a.parts : a.parts[k].spare = NoData

\* Loads of one key may overlap, and the later one stays.  Neither the data of
\* a query nor the time an entry counts from goes back, because the loads of a
\* query share one flight and go on in the order they joined it, and because a
\* home load waits for all that an earlier one of its hour still waits for.
\* (Across the full hour the categories change, and there the older home batch
\* may come last.)
NeverGoesBack ==
    [][\A k \in CacheKey :
          /\ entries[k] # None /\ entries'[k] # None
          /\ k = Home => entries'[k].savedAt \div Hour = entries[k].savedAt \div Hour
          => /\ entries'[k].savedAt >= entries[k].savedAt
             /\ k # Home => entries'[k].content >= entries[k].content]_cacheVars
=============================================================================
