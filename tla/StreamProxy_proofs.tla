---------------------------- MODULE StreamProxy_proofs ----------------------------
(***************************************************************************)
(* Proofs about the stream proxy, for any requests, ceilings, offers,      *)
(* ranges, files and clocks: the choice of a format, what is relayed, and  *)
(* what the cache of signed URLs hands out.                                *)
(***************************************************************************)
EXTENDS StreamProxy, WellFoundedInduction, TLAPS

-----------------------------------------------------------------------------
(* The choice of a format.                                                 *)

\* A set of numbers has a least one.
LEMMA LeastNat ==
    ASSUME NEW S \in SUBSET Nat, S # {}
    PROVE  \E n \in S : \A m \in S : n <= m
<1>1. \A m, n \in Nat : m < n => <<m, n>> \in OpToRel(<, Nat)
    BY DEF OpToRel
<1>2. PICK n \in S : \A m \in S : ~(<<m, n>> \in OpToRel(<, Nat))
    BY WFMin, NatLessThanWellFounded
<1>3. \A m \in S : ~(m < n)
    BY <1>1, <1>2
<1> QED BY <1>3

\* One place of the walk, given the best place before it.
Takes(offer, h, n, before) ==
    /\ Combined(offer[n]) /\ UnderCap(offer[n], h)
    /\ before = NoFormat \/ Better(offer[n], offer[before])

\* The best place after it.
BestAfter(offer, h, n, before) ==
    IF n = 0 THEN NoFormat ELSE IF Takes(offer, h, n, before) THEN n ELSE before

\* The walk over the first m places, as a function.
Walk(offer, h, m, b) == b = [n \in 0..m |-> BestAfter(offer, h, n, b[n - 1])]

\* A walk can go on, so there is one of every length, and it is the recursion
\* of selectBestStream.
LEMMA WalkLonger ==
    ASSUME NEW offer, NEW h, NEW m \in Nat, NEW b, Walk(offer, h, m, b)
    PROVE  \E c : Walk(offer, h, m + 1, c)
<1> DEFINE c == [n \in 0..(m + 1) |-> IF n = m + 1 THEN BestAfter(offer, h, m + 1, b[m]) ELSE b[n]]
<1>1. ASSUME NEW n \in 0..(m + 1) PROVE c[n] = BestAfter(offer, h, n, c[n - 1])
    <2>1. CASE n = m + 1
        <3>1. c[n - 1] = b[m] /\ c[n] = BestAfter(offer, h, m + 1, b[m])
            BY <2>1
        <3> QED BY <2>1, <3>1
    <2>2. CASE n \in 1..m
        <3>1. c[n] = b[n] /\ c[n - 1] = b[n - 1]
            BY <2>2
        <3>2. b[n] = BestAfter(offer, h, n, b[n - 1])
            BY <2>2 DEF Walk
        <3> QED BY <3>1, <3>2
    <2>3. CASE n = 0
        <3>1. c[n] = b[n] /\ b[n] = BestAfter(offer, h, 0, b[-1])
            BY <2>3 DEF Walk
        <3> QED BY <2>3, <3>1 DEF BestAfter
    <2> QED BY <2>1, <2>2, <2>3
<1>2. c = [n \in 0..(m + 1) |-> c[n]]
    OBVIOUS
<1>3. Walk(offer, h, m + 1, c)
    <2> HIDE DEF c
    <2> QED BY <1>1, <1>2 DEF Walk
<1> QED BY <1>3

\* Otherwise there would be a least length without one.
LEMMA WalkExists ==
    ASSUME NEW offer, NEW h, NEW m \in Nat
    PROVE  \E b : Walk(offer, h, m, b)
<1> DEFINE S == {k \in Nat : ~\E b : Walk(offer, h, k, b)}
<1>1. 0 \notin S
    <2> DEFINE b == [n \in 0..0 |-> NoFormat]
    <2>1. Walk(offer, h, 0, b)
        BY DEF Walk, BestAfter
    <2> QED BY <2>1
<1>2. ASSUME S # {} PROVE FALSE
    <2>1. PICK k \in S : \A j \in S : k <= j
        BY <1>2, LeastNat
    <2>2. k \in Nat /\ k # 0
        BY <1>1, <2>1
    <2>3. k - 1 \in Nat /\ k - 1 \notin S
        BY <2>1, <2>2
    <2>4. PICK b : Walk(offer, h, k - 1, b)
        BY <2>3
    <2>5. \E c : Walk(offer, h, (k - 1) + 1, c)
        BY <2>3, <2>4, WalkLonger
    <2>6. (k - 1) + 1 = k
        BY <2>2
    <2> QED BY <2>1, <2>5, <2>6
<1> QED BY <1>2

\* The choice is the end of a walk.
LEMMA SelectWalks ==
    ASSUME NEW offer, NEW h, Len(offer) \in Nat
    PROVE  \E b : Walk(offer, h, Len(offer), b) /\ SelectBestStream(offer, h) = b[Len(offer)]
<1> DEFINE best[n \in 0..Len(offer)] ==
            IF n = 0 THEN NoFormat
            ELSE IF /\ Combined(offer[n]) /\ UnderCap(offer[n], h)
                    /\ best[n - 1] = NoFormat \/ Better(offer[n], offer[best[n - 1]])
            THEN n ELSE best[n - 1]
<1>1. SelectBestStream(offer, h) = best[Len(offer)]
    BY DEF SelectBestStream
<1>2. best = CHOOSE b : Walk(offer, h, Len(offer), b)
    BY DEF Walk, BestAfter, Takes
<1>3. Walk(offer, h, Len(offer), best)
    <2> HIDE DEF best
    <2> QED BY <1>2, WalkExists
<1> QED BY <1>1, <1>3

Eligible(offer, h) == {j \in DOMAIN offer : Combined(offer[j]) /\ UnderCap(offer[j], h)}

\* The best of the first n places.
BestOf(offer, h, n, i) ==
    IF i = NoFormat THEN \A j \in 1..n : j \notin Eligible(offer, h)
    ELSE /\ i \in 1..n /\ i \in Eligible(offer, h)
         /\ \A j \in 1..n : j \in Eligible(offer, h) => ~Better(offer[j], offer[i])

LEMMA HeightsAreNumbers ==
    ASSUME NEW f \in Format
    PROVE  FormatHeight(f) \in Nat /\ f.tbr \in Nat
BY DEF Format, FormatHeight

\* What is better than the better one is better.
LEMMA BetterIsTransitive ==
    ASSUME NEW f \in Format, NEW g \in Format, NEW e \in Format, Better(f, g), ~Better(e, g)
    PROVE  ~Better(e, f)
<1>1. /\ FormatHeight(f) \in Nat /\ FormatHeight(g) \in Nat /\ FormatHeight(e) \in Nat
      /\ f.tbr \in Nat /\ g.tbr \in Nat /\ e.tbr \in Nat
    BY HeightsAreNumbers
<1> QED BY <1>1 DEF Better

\* One place more.
LEMMA BestGrows ==
    ASSUME NEW offer \in Seq(Format), NEW h, NEW n \in 1..Len(offer), NEW i,
           BestOf(offer, h, n - 1, i)
    PROVE  BestOf(offer, h, n, BestAfter(offer, h, n, i))
<1>1. /\ Len(offer) \in Nat /\ DOMAIN offer = 1..Len(offer)
      /\ \A j \in 1..Len(offer) : offer[j] \in Format
    OBVIOUS
<1>2. Takes(offer, h, n, i) <=> n \in Eligible(offer, h) /\ (i = NoFormat \/ Better(offer[n], offer[i]))
    BY <1>1 DEF Takes, Eligible
<1>3. \A j \in 1..n : j = n \/ j \in 1..(n - 1)
    OBVIOUS
<1>4. n # NoFormat
    BY DEF NoFormat
<1>5. ~Better(offer[n], offer[n])
    <2>1. FormatHeight(offer[n]) \in Nat /\ offer[n].tbr \in Nat
        BY <1>1, HeightsAreNumbers
    <2> QED BY <2>1 DEF Better
<1>6. CASE ~Takes(offer, h, n, i)
    <2>1. BestAfter(offer, h, n, i) = i
        BY <1>4, <1>6 DEF BestAfter, NoFormat
    <2>2. CASE i = NoFormat
        BY <1>2, <1>3, <1>6, <2>1, <2>2 DEF BestOf
    <2>3. CASE i # NoFormat
        BY <1>1, <1>2, <1>3, <1>6, <2>1, <2>3 DEF BestOf
    <2> QED BY <2>2, <2>3
<1>7. CASE Takes(offer, h, n, i)
    <2>1. BestAfter(offer, h, n, i) = n
        BY <1>4, <1>7 DEF BestAfter, NoFormat
    <2>2. n \in Eligible(offer, h)
        BY <1>2, <1>7
    <2>3. ASSUME NEW j \in 1..n, j \in Eligible(offer, h), j # n
          PROVE  ~Better(offer[j], offer[n])
        <3>1. j \in 1..(n - 1) /\ i # NoFormat
            BY <1>3, <2>3 DEF BestOf
        <3>2. i \in 1..(n - 1) /\ ~Better(offer[j], offer[i]) /\ Better(offer[n], offer[i])
            BY <1>2, <1>7, <2>3, <3>1 DEF BestOf
        <3>3. offer[i] \in Format /\ offer[j] \in Format /\ offer[n] \in Format
            BY <1>1, <3>1, <3>2
        <3> QED BY <3>2, <3>3, BetterIsTransitive
    <2>4. n \in 1..n
        OBVIOUS
    <2> QED BY <1>4, <1>5, <2>1, <2>2, <2>3, <2>4 DEF BestOf
<1> QED BY <1>6, <1>7

\* The end of a walk is the best of all.
LEMMA WalkEndsAtBest ==
    ASSUME NEW offer \in Seq(Format), NEW h, NEW b, Walk(offer, h, Len(offer), b)
    PROVE  BestOf(offer, h, Len(offer), b[Len(offer)])
<1>1. Len(offer) \in Nat
    OBVIOUS
<1> DEFINE S == {n \in 0..Len(offer) : ~BestOf(offer, h, n, b[n])}
<1>2. b[0] = NoFormat
    BY <1>1 DEF Walk, BestAfter
<1>3. BestOf(offer, h, 0, b[0])
    BY <1>2 DEF BestOf
<1>4. ASSUME S # {} PROVE FALSE
    <2>1. S \in SUBSET Nat
        BY <1>1
    <2>2. PICK n \in S : \A m \in S : n <= m
        BY <1>4, <2>1, LeastNat
    <2>3. n \in 1..Len(offer)
        BY <1>1, <1>3, <2>2
    <2>4. n - 1 \in 0..Len(offer) /\ n - 1 \notin S
        BY <1>1, <2>2, <2>3
    <2>5. b[n] = BestAfter(offer, h, n, b[n - 1])
        BY <1>1, <2>3 DEF Walk
    <2> QED BY <2>2, <2>3, <2>4, <2>5, BestGrows
<1>5. Len(offer) \in 0..Len(offer)
    BY <1>1
<1> QED BY <1>4, <1>5

\* The best is what the contract asks for.
LEMMA BestIsChosen ==
    ASSUME NEW offer \in Seq(Format), NEW h, NEW i, BestOf(offer, h, Len(offer), i)
    PROVE  Chosen(i, offer, h)
<1>1. Len(offer) \in Nat /\ DOMAIN offer = 1..Len(offer)
    OBVIOUS
<1>2. ASSUME NEW j \in DOMAIN offer PROVE FormatHeight(offer[j]) \in Nat /\ offer[j].tbr \in Nat
    BY HeightsAreNumbers
<1>3. CASE i = NoFormat
    BY <1>1, <1>3 DEF BestOf, Chosen, Eligible, UnderCap
<1>4. CASE i # NoFormat
    <2>1. i \in Eligible(offer, h) /\ i \in DOMAIN offer
        BY <1>4 DEF BestOf, Eligible
    <2>2. ASSUME NEW j \in Eligible(offer, h)
          PROVE  /\ ~(FormatHeight(offer[j]) > FormatHeight(offer[i]))
                 /\ FormatHeight(offer[j]) = FormatHeight(offer[i]) => offer[i].tbr <= offer[j].tbr
        <3>1. ~Better(offer[j], offer[i])
            BY <1>1, <1>4 DEF BestOf, Eligible
        <3>2. j \in DOMAIN offer
            BY DEF Eligible
        <3> QED BY <1>2, <2>1, <3>1, <3>2 DEF Better
    <2> QED BY <1>4, <2>1, <2>2 DEF Chosen, Eligible, UnderCap
<1> QED BY <1>3, <1>4

\* selectBestStream() in src/services/youtube/extractor.ts: whatever yt-dlp
\* offers, the ceiling is hard, the highest format below it wins, of those with
\* the lowest bitrate, and there is no choice only if there is no such format.
THEOREM ChoiceIsTheContract ==
    ASSUME NEW offer \in Seq(Format), NEW h
    PROVE  Chosen(SelectBestStream(offer, h), offer, h)
<1>1. BestOf(offer, h, Len(offer), SelectBestStream(offer, h))
    <2>1. PICK b : Walk(offer, h, Len(offer), b) /\ SelectBestStream(offer, h) = b[Len(offer)]
        BY SelectWalks
    <2> QED BY <2>1, WalkEndsAtBest
<1> QED BY <1>1, BestIsChosen

\* availableCombinedQualities(): a height it lists is served as such.
LEMMA ListedIsServed ==
    ASSUME NEW offer \in Seq(Format), NEW h \in AvailableCombinedQualities(offer)
    PROVE  FormatHeight(offer[SelectBestStream(offer, h)]) = h
<1> DEFINE i == SelectBestStream(offer, h)
<1>1. Chosen(i, offer, h)
    BY ChoiceIsTheContract
<1>2. PICK j \in DOMAIN offer : Combined(offer[j]) /\ FormatHeight(offer[j]) = h /\ h # 0
    BY DEF AvailableCombinedQualities
<1>3. \A k \in DOMAIN offer : FormatHeight(offer[k]) \in Nat
    BY HeightsAreNumbers
<1>4. h \in 1..h
    BY <1>2, <1>3
<1> HIDE DEF i
<1>5. i \in DOMAIN offer /\ FormatHeight(offer[i]) \in 1..h /\ ~(h > FormatHeight(offer[i]))
    BY <1>1, <1>2, <1>4 DEF Chosen
<1> QED BY <1>2, <1>3, <1>5 DEF i

-----------------------------------------------------------------------------
(* The inductive invariant.                                                *)

Source == [url : Nat, file : Media \cup {NoMedia}, format : Nat]

Cached == [source : Source, until : Nat, used : Nat]

RequestRecord ==
    [pc : {"idle", "extract", "backoff", "fetch", "refused", "done"}, kind : {"stream", "info"},
     height : Height, range : Range, forwarded : Range, decided : Nat, source : Source,
     cached : BOOLEAN, fresh : BOOLEAN, tries : 0..1, refused : Nat,
     answer : [status : Nat, bytes : SUBSET Int]]

StreamShape ==
    /\ scenario \in Scenario
    /\ now \in Nat /\ now <= scenario.until
    /\ urls \in Nat /\ urls <= scenario.urls
    /\ cache \in [Height -> Cached]
    /\ flight \in [state : {"none", "running", "url", "fails", "refuses"}, source : Source]
    /\ req \in [Request -> RequestRecord]

\* A URL that yt-dlp has handed out.
Given(s) == s.url \in 1..urls /\ s.file \in scenario.files

\* The source is what the ceiling picks of what was offered.
Picked(s, h) ==
    /\ Given(s)
    /\ s.format = SelectBestStream(Offer[s.file.offer], h) /\ s.format # NoFormat

\* What an entry says of its URL.  It is used no longer than the URL lives
\* less the margin, unless the margin had begun when it was handed out, and
\* then in that tick only.
EntryInv(h) ==
    cache[h] # None =>
        /\ Picked(cache[h].source, h)
        /\ cache[h].until <= now + Ttl /\ cache[h].used <= now
        /\ cache[h].until <= cache[h].source.file.limit \/ cache[h].until <= now

FlightInv ==
    /\ flight.state = "url" => Given(flight.source)
    /\ flight.state = "none" <=> Waiting = {}
    /\ flight.source.format = NoFormat
    /\ flight.state # "url" => flight.source = NoSource

\* What a request has, by its place.
RequestInv(q) ==
    /\ q.source = NoSource \/ Given(q.source)
    /\ q.pc \in {"idle", "extract", "backoff"} => q.source = NoSource
    /\ q.pc \in {"fetch", "refused"} =>
          /\ q.kind = "stream" /\ Picked(q.source, q.height)
          /\ q.forwarded = Forward(q.range, q.decided)
    /\ q.fresh => q.kind = "stream" /\ q.forwarded = Forward(q.range, q.decided)
    /\ q.pc # "done" => q.answer = NoAnswer
    /\ q.refused <= urls
    /\ q.fresh \/ q.pc = "refused" => q.refused > 0

Honest(q) == CeilingKept(q) /\ RangeKept(q)

\* The extraction that a refresh waits for ends with a newer URL, and so does
\* every one after it.
Newer(q) ==
    q.fresh =>
        /\ flight.state = "url" => flight.source.url > q.refused
        /\ \A h \in Height : cache[h] # None => cache[h].source.url > q.refused

StreamInv ==
    /\ StreamShape
    /\ \A h \in Height : EntryInv(h)
    /\ FlightInv
    /\ \A r \in Request : RequestInv(req[r]) /\ Honest(req[r]) /\ Newer(req[r])

-----------------------------------------------------------------------------
(* Ranges and sources.                                                     *)

LEMMA BytesAreNumbers ==
    ASSUME NEW range \in Range, NEW n \in Nat
    PROVE  Bytes(range, n) \subseteq Int
BY DEF Bytes, Range, Least

\* forwardRangeHeader: the range that is sent is one, and denotes the bytes the
\* client's does while the size is what it was.
LEMMA ForwardKeepsBytes ==
    ASSUME NEW range \in Range, NEW n \in Nat \ {0}, NEW m \in Nat
    PROVE  /\ Forward(range, m) \in Range
           /\ m \in {0, n} => Bytes(Forward(range, m), n) = Bytes(range, n)
<1>1. CASE range.type = "suffix" /\ m > 0
    <2>1. /\ range.a \in Nat /\ Least(range.a, m) \in Nat /\ Least(range.a, m) <= m
          /\ m - Least(range.a, m) \in Nat /\ m - 1 \in Nat
        BY <1>1 DEF Range, Least
    <2>2. Forward(range, m) = Interval(m - Least(range.a, m), m - 1)
        BY <1>1 DEF Forward
    <2>3. Forward(range, m) \in Range
        BY <2>1, <2>2 DEF Interval, Range
    <2>4. ASSUME m = n PROVE Bytes(Forward(range, m), n) = Bytes(range, n)
        <3>1. Bytes(range, n) = (n - Least(range.a, n))..(n - 1)
            BY <1>1 DEF Bytes
        <3>2. Least(n - 1, n - 1) = n - 1
            BY DEF Least
        <3>3. Bytes(Interval(n - Least(range.a, n), n - 1), n)
                = (n - Least(range.a, n))..Least(n - 1, n - 1)
            BY DEF Bytes, Interval
        <3> QED BY <2>2, <2>4, <3>1, <3>2, <3>3
    <2> QED BY <1>1, <2>3, <2>4
<1>2. CASE ~(range.type = "suffix" /\ m > 0)
    BY <1>2 DEF Forward
<1> QED BY <1>1, <1>2

\* What a file of the instance is.
LEMMA FileFacts ==
    ASSUME StreamShape, NEW s \in Source, Given(s)
    PROVE  /\ s # NoSource /\ s.url > 0
           /\ s.file \in Media /\ s.file.size \in Nat \ {0} /\ s.file.limit \in Nat
           /\ Offer[s.file.offer] \in Seq(Format)
<1>1. s.file \in Media
    BY StreamAssumption DEF StreamShape, Given
<1>2. s.file.offer \in DOMAIN Offer
    BY <1>1 DEF Media
<1>3. Offer[s.file.offer] \in Seq(Format)
    BY <1>2, StreamAssumption
<1> QED BY <1>1, <1>3 DEF Given, Media, NoSource, StreamShape

LEMMA ChoiceIsPlace ==
    ASSUME NEW offer \in Seq(Format), NEW h
    PROVE  SelectBestStream(offer, h) \in Nat
<1>1. Chosen(SelectBestStream(offer, h), offer, h)
    BY ChoiceIsTheContract
<1>2. NoFormat \in Nat /\ DOMAIN offer \subseteq Nat
    BY DEF NoFormat
<1> QED BY <1>1, <1>2 DEF Chosen

\* A source that the ceiling picked, or picked nothing of.
LEMMA PickedIsKept ==
    ASSUME StreamShape, NEW q \in RequestRecord, Given(q.source),
           q.source.format = SelectBestStream(Offer[q.source.file.offer], q.height),
           q.source.format = NoFormat <=> q.answer.status = 400
    PROVE  CeilingKept(q)
<1>1. q.source \in Source
    BY DEF RequestRecord
<1>2. Offer[q.source.file.offer] \in Seq(Format)
    BY <1>1, FileFacts
<1>3. /\ Chosen(q.source.format, Offer[q.source.file.offer], q.height)
      /\ \A h \in AvailableCombinedQualities(Offer[q.source.file.offer]) :
            FormatHeight(Offer[q.source.file.offer][SelectBestStream(Offer[q.source.file.offer], h)]) = h
    BY <1>2, ChoiceIsTheContract, ListedIsServed
<1> QED BY <1>3 DEF CeilingKept

-----------------------------------------------------------------------------
(* Requests.                                                               *)

\* What an answer leaves of the request.
LEMMA AnswerIs ==
    ASSUME NEW q \in RequestRecord, NEW status \in Nat, NEW bytes \in SUBSET Int
    PROVE  LET a == Answer(q, status, bytes) IN
           /\ a \in RequestRecord
           /\ a.pc = "done" /\ a.answer.status = status /\ a.answer.bytes = bytes
           /\ a.kind = q.kind /\ a.height = q.height /\ a.range = q.range
           /\ a.forwarded = q.forwarded /\ a.decided = q.decided /\ a.source = q.source
           /\ a.fresh = q.fresh /\ a.refused = q.refused
<1> DEFINE answer == [status |-> status, bytes |-> bytes]
<1>1. answer \in [status : Nat, bytes : SUBSET Int] /\ answer.status = status /\ answer.bytes = bytes
    OBVIOUS
<1>2. Answer(q, status, bytes) = [q EXCEPT !.pc = "done", !.answer = answer]
    BY DEF Answer
<1> HIDE DEF answer
<1> QED BY <1>1, <1>2 DEF RequestRecord

\* An answered request keeps what its source and its history promise.
LEMMA AnswerKeeps ==
    ASSUME NEW q \in RequestRecord, RequestInv(q), NEW status \in Nat, NEW bytes \in SUBSET Int
    PROVE  RequestInv(Answer(q, status, bytes))
<1> DEFINE a == Answer(q, status, bytes)
<1>1. /\ a.pc = "done" /\ a.kind = q.kind /\ a.range = q.range /\ a.forwarded = q.forwarded
      /\ a.decided = q.decided /\ a.source = q.source /\ a.fresh = q.fresh /\ a.refused = q.refused
    BY AnswerIs
<1> HIDE DEF a
<1>2. RequestInv(a)
    BY <1>1 DEF RequestInv
<1> QED BY <1>2 DEF a

\* While a request is under way, its source is one that was picked.
LEMMA OpenIsPicked ==
    ASSUME NEW q \in RequestRecord, RequestInv(q), q.pc # "done"
    PROVE  q.source = NoSource \/ Picked(q.source, q.height)
BY DEF RequestInv, RequestRecord

\* An error says nothing of a file.
LEMMA ErrorIsHonest ==
    ASSUME StreamShape, NEW q \in RequestRecord, RequestInv(q), q.pc # "done",
           NEW status \in Nat \ {200, 206, 400, 416}
    PROVE  LET a == Answer(q, status, {}) IN
           a \in RequestRecord /\ RequestInv(a) /\ Honest(a)
<1> DEFINE a == Answer(q, status, {})
<1>1. /\ a \in RequestRecord /\ a.answer.status = status /\ a.source = q.source
      /\ a.height = q.height /\ RequestInv(a)
    BY AnswerIs, AnswerKeeps
<1> HIDE DEF a
<1>2. RangeKept(a)
    BY <1>1 DEF RangeKept
<1>3. CASE q.source = NoSource
    BY <1>1, <1>2, <1>3 DEF CeilingKept, Honest, a
<1>4. CASE Picked(q.source, q.height)
    <2>1. CeilingKept(a)
        BY <1>1, <1>4, PickedIsKept DEF Picked
    <2> QED BY <1>1, <1>2, <2>1 DEF Honest, a
<1> QED BY <1>3, <1>4, OpenIsPicked

\* A request whose source is picked and that has no answer yet is honest.
LEMMA UnansweredIsHonest ==
    ASSUME StreamShape, NEW q \in RequestRecord, q.answer = NoAnswer,
           q.source = NoSource \/ Picked(q.source, q.height)
    PROVE  Honest(q)
<1>1. q.answer.status = 0
    BY DEF NoAnswer
<1>2. RangeKept(q)
    BY <1>1 DEF RangeKept
<1>3. CASE q.source = NoSource
    BY <1>2, <1>3 DEF CeilingKept, Honest
<1>4. CASE Picked(q.source, q.height)
    <2>1. CeilingKept(q)
        BY <1>1, <1>4, PickedIsKept DEF Picked
    <2> QED BY <1>2, <2>1 DEF Honest
<1> QED BY <1>3, <1>4

\* proxyVideoStream: what a request does with its source.
LEMMA DecideKeeps ==
    ASSUME StreamShape, NEW q \in RequestRecord, RequestInv(q), q.answer = NoAnswer,
           NEW source \in Source, Picked(source, q.height), NEW cached \in BOOLEAN
    PROVE  LET d == Decide(q, source, cached) IN
           /\ d \in RequestRecord /\ RequestInv(d) /\ Honest(d)
           /\ d.pc \in {"fetch", "done"}
           /\ d.fresh = q.fresh /\ d.refused = q.refused
<1> DEFINE n == IF source.file.known THEN source.file.size ELSE 0
           s == [q EXCEPT !.source = source, !.cached = cached]
           d == Decide(q, source, cached)
<1>1. Given(source) /\ source # NoSource /\ source.file.size \in Nat \ {0} /\ n \in Nat
    BY FileFacts DEF Picked
<1>2. /\ s \in RequestRecord /\ s.pc = q.pc /\ s.source = source /\ s.kind = q.kind
      /\ s.height = q.height /\ s.range = q.range /\ s.forwarded = q.forwarded
      /\ s.decided = q.decided /\ s.fresh = q.fresh /\ s.refused = q.refused
      /\ s.answer = NoAnswer
    BY DEF RequestRecord
<1>3. /\ q.fresh => q.kind = "stream" /\ q.forwarded = Forward(q.range, q.decided)
      /\ q.refused \in Nat /\ q.refused <= urls /\ q.fresh => q.refused > 0
      /\ q.range \in Range /\ q.kind \in {"stream", "info"} /\ q.fresh \in BOOLEAN
    BY DEF RequestInv, RequestRecord
<1>4. d = IF q.kind = "info" THEN Answer(s, 200, {})
          ELSE IF q.fresh THEN [s EXCEPT !.pc = "fetch"]
          ELSE IF n > 0 /\ Bytes(q.range, n) = {} THEN Answer(s, 416, {})
          ELSE [s EXCEPT !.pc = "fetch", !.forwarded = Forward(q.range, n), !.decided = n]
    BY DEF Decide
<1> HIDE DEF n, s, d
<1>5. ASSUME NEW status \in {200, 416}, d = Answer(s, status, {}),
             status = 200 => q.kind = "info",
             status = 416 => Bytes(q.range, source.file.size) = {}
      PROVE  /\ d \in RequestRecord /\ RequestInv(d) /\ Honest(d) /\ d.pc = "done"
             /\ d.fresh = q.fresh /\ d.refused = q.refused
    <2>1. status \in Nat /\ {} \in SUBSET Int
        BY <1>5
    <2>2. /\ d \in RequestRecord /\ d.pc = "done" /\ d.answer.status = status
          /\ d.answer.bytes = {} /\ d.kind = q.kind /\ d.height = q.height /\ d.range = q.range
          /\ d.forwarded = q.forwarded /\ d.decided = q.decided /\ d.source = source
          /\ d.fresh = q.fresh /\ d.refused = q.refused
        BY <1>2, <1>5, <2>1, AnswerIs
    <2>3. RequestInv(d)
        BY <1>1, <1>3, <2>2 DEF RequestInv
    <2>4. CeilingKept(d)
        BY <1>5, <2>2, PickedIsKept DEF Picked
    <2>5. RangeKept(d)
        BY <1>5, <2>2 DEF RangeKept
    <2> QED BY <2>2, <2>3, <2>4, <2>5 DEF Honest
<1>6. ASSUME d.pc = "fetch", d \in RequestRecord, d.source = source, d.kind = "stream",
             d.height = q.height, d.forwarded = Forward(d.range, d.decided), d.answer = NoAnswer,
             d.fresh = q.fresh, d.refused = q.refused
      PROVE  RequestInv(d) /\ Honest(d)
    <2>1. RequestInv(d)
        BY <1>1, <1>3, <1>6 DEF RequestInv
    <2> QED BY <1>6, <2>1, UnansweredIsHonest
<1>7. CASE q.kind = "info"
    BY <1>4, <1>5, <1>7 DEF d
<1>8. CASE q.kind # "info" /\ q.fresh
    <2>1. d = [s EXCEPT !.pc = "fetch"]
        BY <1>4, <1>8
    <2>2. /\ d \in RequestRecord /\ d.pc = "fetch" /\ d.source = source /\ d.kind = "stream"
          /\ d.height = q.height /\ d.range = q.range /\ d.forwarded = q.forwarded
          /\ d.decided = q.decided /\ d.answer = NoAnswer
          /\ d.fresh = q.fresh /\ d.refused = q.refused
        BY <1>2, <1>3, <1>8, <2>1 DEF RequestRecord
    <2> QED BY <1>3, <1>6, <1>8, <2>2 DEF d
<1>9. CASE q.kind # "info" /\ ~q.fresh /\ n > 0 /\ Bytes(q.range, n) = {}
    <2>1. n = source.file.size
        BY <1>9 DEF n
    <2> QED BY <1>4, <1>5, <1>9, <2>1 DEF d
<1>10. CASE q.kind # "info" /\ ~q.fresh /\ ~(n > 0 /\ Bytes(q.range, n) = {})
    <2> DEFINE f == Forward(q.range, n)
    <2>1. f \in Range
        BY <1>1, <1>3, ForwardKeepsBytes
    <2>2. d = [s EXCEPT !.pc = "fetch", !.forwarded = f, !.decided = n]
        BY <1>4, <1>10
    <2> HIDE DEF f
    <2>3. /\ d \in RequestRecord /\ d.pc = "fetch" /\ d.source = source /\ d.kind = "stream"
          /\ d.height = q.height /\ d.range = q.range /\ d.forwarded = f
          /\ d.decided = n /\ d.answer = NoAnswer
          /\ d.fresh = q.fresh /\ d.refused = q.refused
        BY <1>1, <1>2, <1>3, <1>10, <2>1, <2>2 DEF RequestRecord
    <2> QED BY <1>6, <2>3 DEF d, f
<1> QED BY <1>7, <1>8, <1>9, <1>10

-----------------------------------------------------------------------------
(* The cache.                                                              *)

\* What a step may do to an entry: nothing more than drop it, touch it or put
\* the URL of the flight there.
EntriesMove ==
    /\ cache' \in [Height -> Cached]
    /\ \A h \in Height : EntryInv(h)'
    /\ \A h \in Height :
          \/ cache'[h] = None
          \/ cache[h] # None /\ cache'[h].source = cache[h].source
          \/ flight.state = "url" /\ cache'[h].source.url = flight.source.url

LEMMA NoneIsCached == None \in Cached
BY DEF None, Cached, NoSource, Source, NoFormat

LEMMA SameCache ==
    ASSUME StreamInv, UNCHANGED <<cache, now, urls, scenario>>
    PROVE  EntriesMove
BY DEF EntriesMove, StreamInv, StreamShape, EntryInv, Picked, Given

\* StreamCache.deleteVideo
LEMMA EmptyCache ==
    ASSUME StreamInv, cache' = [g \in Height |-> None], UNCHANGED <<now, urls, scenario>>
    PROVE  EntriesMove
BY NoneIsCached DEF EntriesMove, EntryInv

\* StreamCache.get
LEMMA GetKeeps ==
    ASSUME StreamInv, NEW h \in Height, cache' = Got(h), UNCHANGED <<now, urls, scenario>>
    PROVE  EntriesMove
<1> DEFINE e == [cache[h] EXCEPT !.used = now]
<1>1. cache \in [Height -> Cached] /\ now \in Nat
    BY DEF StreamInv, StreamShape
<1>2. cache' = [cache EXCEPT ![h] = IF Hit(h) THEN e ELSE None]
    BY <1>1 DEF Got
<1>3. e \in Cached /\ e.source = cache[h].source /\ e.until = cache[h].until /\ e.used = now
    BY <1>1 DEF Cached
<1> HIDE DEF e
<1>4. cache' \in [Height -> Cached]
    BY <1>1, <1>2, <1>3, NoneIsCached
<1>5. ASSUME NEW g \in Height
      PROVE  \/ cache'[g] = None
             \/ /\ cache[g] # None /\ cache'[g].source = cache[g].source
                /\ cache'[g].until = cache[g].until /\ cache'[g].used \in {now, cache[g].used}
    BY <1>1, <1>2, <1>3 DEF Hit
<1>6. ASSUME NEW g \in Height PROVE EntryInv(g)'
    <2>1. EntryInv(g)
        BY DEF StreamInv
    <2> QED BY <1>1, <1>5, <2>1 DEF EntryInv, Picked, Given
<1> QED BY <1>4, <1>5, <1>6 DEF EntriesMove

\* StreamCache.set: the lifetime ends with the URL's less the margin, or now.
LEMMA SetKeeps ==
    ASSUME StreamInv, flight.state = "url", NEW h \in Height, NEW source \in Source,
           Picked(source, h), source.url = flight.source.url,
           cache' \in With(h, source), UNCHANGED <<now, urls, scenario>>
    PROVE  EntriesMove
<1> DEFINE e == Entry(source)
<1>1. cache \in [Height -> Cached] /\ now \in Nat /\ Ttl \in Nat
    BY StreamAssumption DEF StreamInv, StreamShape
<1>2. source.file.limit \in Nat /\ source # NoSource
    BY FileFacts DEF StreamInv, Picked
<1>3. /\ Lifetime(source.file.limit) \in Nat /\ Lifetime(source.file.limit) <= Ttl
      /\ \/ source.file.limit <= now /\ Lifetime(source.file.limit) = 0
         \/ now + Lifetime(source.file.limit) <= source.file.limit
    BY <1>1, <1>2 DEF Lifetime, Least
<1>4. /\ e \in Cached /\ e.source = source /\ e.used = now
      /\ e.until = now + Lifetime(source.file.limit)
    BY <1>1, <1>3 DEF Entry, Cached
<1>5. e # None
    BY <1>2, <1>4 DEF None
<1> HIDE DEF e
<1>6. \/ cache' = [cache EXCEPT ![h] = e]
      \/ \E g \in Height : cache' = [cache EXCEPT ![h] = e, ![g] = None]
    BY DEF With, Held, e
<1>7. cache' \in [Height -> Cached]
    BY <1>1, <1>4, <1>6, NoneIsCached
<1>8. \A g \in Height : cache'[g] = None \/ cache'[g] = cache[g] \/ (g = h /\ cache'[g] = e)
    BY <1>1, <1>6
<1>9. ASSUME NEW g \in Height PROVE EntryInv(g)'
    <2>1. EntryInv(g)
        BY DEF StreamInv
    <2>2. CASE cache'[g] = None \/ cache'[g] = cache[g]
        BY <2>1, <2>2 DEF EntryInv, Picked, Given
    <2>3. CASE g = h /\ cache'[g] = e
        <3>1. Picked(cache[g].source, g)'
            <4>1. cache'[g].source = source
                BY <1>4, <2>3
            <4> QED BY <2>3, <4>1 DEF Picked, Given
        <3>2. /\ cache'[g].until <= now + Ttl /\ cache'[g].used <= now
              /\ cache'[g].until <= cache'[g].source.file.limit \/ cache'[g].until <= now
            BY <1>1, <1>2, <1>3, <1>4, <2>3
        <3> QED BY <3>1, <3>2 DEF EntryInv
    <2> QED BY <1>8, <2>2, <2>3
<1>10. \A g \in Height :
          \/ cache'[g] = None
          \/ cache[g] # None /\ cache'[g].source = cache[g].source
          \/ flight.state = "url" /\ cache'[g].source.url = flight.source.url
    BY <1>4, <1>8
<1> QED BY <1>7, <1>9, <1>10 DEF EntriesMove

-----------------------------------------------------------------------------
(* Steps of a request.                                                     *)

\* A request moves, and the flight follows who waits for it.
Moves(r, q) ==
    /\ q \in RequestRecord /\ RequestInv(q) /\ Honest(q)
    /\ req' = [req EXCEPT ![r] = q]
    /\ flight' = IF q.pc = "extract" THEN Running
                 ELSE IF Waiting \subseteq {r} THEN NoFlight ELSE flight
    /\ EntriesMove
    /\ UNCHANGED <<now, urls, scenario>>
    /\ \/ q.fresh => req[r].fresh /\ q.refused = req[r].refused
       \/ flight' = Running /\ \A h \in Height : cache'[h] = None

LEMMA MovesKeep ==
    ASSUME StreamInv, NEW r \in Request, NEW q, Moves(r, q)
    PROVE  StreamInv'
<1>1. /\ req \in [Request -> RequestRecord] /\ q \in RequestRecord
      /\ req' = [req EXCEPT ![r] = q]
      /\ UNCHANGED <<now, urls, scenario>>
    BY DEF StreamInv, StreamShape, Moves
<1>2. /\ req' \in [Request -> RequestRecord]
      /\ req'[r] = q /\ \A s \in Request : s # r => req'[s] = req[s]
    BY <1>1
<1>3. Waiting' = IF q.pc = "extract" THEN Waiting \cup {r} ELSE Waiting \ {r}
    BY <1>2 DEF Waiting
<1>4. FlightInv' /\ flight' \in [state : {"none", "running", "url", "fails", "refuses"}, source : Source]
    <2>1. Running.state = "running" /\ NoFlight.state = "none"
          /\ Running.source = NoSource /\ NoFlight.source = NoSource /\ NoSource.format = NoFormat
          /\ NoSource \in Source
        BY DEF Running, NoFlight, NoSource, Source, NoFormat
    <2>2. Running \in [state : {"none", "running", "url", "fails", "refuses"}, source : Source]
          /\ NoFlight \in [state : {"none", "running", "url", "fails", "refuses"}, source : Source]
        BY <2>1 DEF Running, NoFlight
    <2>3. CASE q.pc = "extract"
        <3>1. flight' = Running /\ Waiting' # {}
            BY <1>3, <2>3 DEF Moves
        <3> QED BY <2>1, <2>2, <3>1 DEF FlightInv
    <2>4. CASE q.pc # "extract" /\ Waiting \subseteq {r}
        <3>1. flight' = NoFlight /\ Waiting' = {}
            BY <1>3, <2>4 DEF Moves
        <3> QED BY <2>1, <2>2, <3>1 DEF FlightInv
    <2>5. CASE q.pc # "extract" /\ ~(Waiting \subseteq {r})
        <3>1. flight' = flight /\ Waiting' # {} /\ Waiting # {}
            BY <1>3, <2>5 DEF Moves
        <3> QED BY <1>1, <3>1 DEF StreamInv, StreamShape, FlightInv, Given
    <2> QED BY <2>3, <2>4, <2>5
<1>5. StreamShape' /\ \A h \in Height : EntryInv(h)'
    BY <1>1, <1>2, <1>4 DEF StreamInv, StreamShape, Moves, EntriesMove
<1>6. ASSUME NEW s \in Request PROVE RequestInv(req[s])' /\ Honest(req[s])'
    <2>1. RequestInv(req'[s]) /\ Honest(req'[s])
        BY <1>2 DEF StreamInv, Moves
    <2> QED BY <1>1, <2>1 DEF RequestInv, Honest, Given, Picked
<1>7. flight'.state = "url" => flight.state = "url" /\ flight' = flight
    BY DEF Moves, Running, NoFlight
<1>8. ASSUME NEW s \in Request PROVE Newer(req[s])'
    <2>1. Newer(req[s])
        BY DEF StreamInv
    <2>2. CASE req'[s].fresh => req[s].fresh /\ req'[s].refused = req[s].refused
        BY <1>7, <2>1, <2>2 DEF Newer, Moves, EntriesMove
    <2>3. CASE flight' = Running /\ \A h \in Height : cache'[h] = None
        BY <2>3 DEF Newer, Running
    <2> QED BY <1>2, <2>2, <2>3 DEF Moves
<1> QED BY <1>4, <1>5, <1>6, <1>8 DEF StreamInv

\* A request that nobody's flight waits for leaves the flight alone.
LEMMA FlightStays ==
    ASSUME StreamInv, NEW r \in Request, req[r].pc # "extract", flight' = flight
    PROVE  flight' = IF Waiting \subseteq {r} THEN NoFlight ELSE flight
<1>1. CASE Waiting \subseteq {r}
    <2>1. Waiting = {}
        BY <1>1 DEF Waiting
    <2>2. flight.state = "none" /\ flight.source = NoSource
        BY <2>1 DEF StreamInv, FlightInv
    <2>3. flight = NoFlight
        BY <2>2 DEF StreamInv, StreamShape, NoFlight
    <2> QED BY <1>1, <2>3
<1> QED BY <1>1

\* The state of a request before a step.
LEMMA RequestIs ==
    ASSUME StreamInv, NEW r \in Request
    PROVE  StreamShape /\ req[r] \in RequestRecord /\ RequestInv(req[r])
BY DEF StreamInv, StreamShape

\* The steps that give an answer and leave flight and cache alone.
LEMMA AnsweringKeeps ==
    ASSUME StreamInv, NEW r \in Request, req[r].pc # "extract", NEW q \in RequestRecord,
           RequestInv(q), Honest(q), q.pc # "extract",
           q.fresh => req[r].fresh /\ q.refused = req[r].refused,
           req' = [req EXCEPT ![r] = q], UNCHANGED <<now, cache, flight, urls, scenario>>
    PROVE  StreamInv'
<1>1. flight' = IF Waiting \subseteq {r} THEN NoFlight ELSE flight
    BY FlightStays
<1>2. EntriesMove
    BY SameCache
<1>3. Moves(r, q)
    BY <1>1, <1>2 DEF Moves
<1> QED BY <1>3, MovesKeep

LEMMA NewRequestIs ==
    ASSUME StreamShape, NEW kind \in {"stream", "info"}, NEW h \in Height, NEW range \in Range
    PROVE  LET q == NewRequest(kind, h, range) IN
           /\ q \in RequestRecord /\ RequestInv(q)
           /\ q.pc = "idle" /\ q.kind = kind /\ q.height = h /\ q.range = range
           /\ q.decided = 0 /\ q.source = NoSource /\ ~q.fresh
           /\ q.answer = NoAnswer
<1> DEFINE q == NewRequest(kind, h, range)
<1>1. /\ Absent \in Range /\ NoSource \in Source
      /\ NoAnswer \in [status : Nat, bytes : SUBSET Int]
    BY DEF Absent, Range, NoSource, Source, NoFormat, NoAnswer
<1>2. q \in RequestRecord
    BY <1>1 DEF NewRequest, RequestRecord
<1>3. /\ q.pc = "idle" /\ q.kind = kind /\ q.height = h /\ q.range = range
      /\ q.decided = 0 /\ q.source = NoSource /\ q.fresh = FALSE /\ q.refused = 0
      /\ q.answer = NoAnswer
    BY DEF NewRequest
<1> HIDE DEF q
<1>4. RequestInv(q)
    BY <1>3 DEF RequestInv, StreamShape
<1> QED BY <1>2, <1>3, <1>4 DEF q

\* A request that begins to wait for an extraction.
LEMMA ExtractIs ==
    ASSUME StreamShape, NEW q \in RequestRecord, RequestInv(q), q.source = NoSource,
           q.answer = NoAnswer
    PROVE  LET x == [q EXCEPT !.pc = "extract"] IN
           /\ x \in RequestRecord /\ RequestInv(x) /\ Honest(x) /\ x.pc = "extract"
           /\ x.fresh = q.fresh /\ x.refused = q.refused
<1> DEFINE x == [q EXCEPT !.pc = "extract"]
<1>1. /\ x \in RequestRecord /\ x.pc = "extract" /\ x.kind = q.kind /\ x.range = q.range
      /\ x.forwarded = q.forwarded /\ x.decided = q.decided /\ x.source = NoSource
      /\ x.fresh = q.fresh /\ x.refused = q.refused /\ x.answer = NoAnswer
    BY DEF RequestRecord
<1> HIDE DEF x
<1>2. RequestInv(x)
    BY <1>1 DEF RequestInv
<1>3. Honest(x)
    BY <1>1, UnansweredIsHonest
<1> QED BY <1>1, <1>2, <1>3 DEF x

LEMMA StreamKeeps ==
    ASSUME StreamInv, NEW r \in Request, NEW h \in Height, NEW range \in Range,
           Stream(r, h, range), UNCHANGED scenario
    PROVE  StreamInv'
<1> DEFINE q == NewRequest("stream", h, range)
<1>1. /\ q \in RequestRecord /\ RequestInv(q) /\ q.pc = "idle" /\ q.kind = "stream"
      /\ q.height = h /\ q.range = range /\ q.decided = 0 /\ q.source = NoSource /\ ~q.fresh
      /\ q.answer = NoAnswer
    BY RequestIs, NewRequestIs
<1>2. StreamShape /\ req[r].pc # "extract"
    BY RequestIs DEF Stream, Open
<1>3. EntriesMove
    BY GetKeeps DEF Stream
<1>4. UNCHANGED <<now, urls, scenario>>
    BY DEF Stream
<1> HIDE DEF q
<1>5. CASE range = Invalid
    <2> DEFINE a == Answer(q, 416, {})
    <2>1. /\ a \in RequestRecord /\ a.pc = "done" /\ a.answer.status = 416
          /\ a.range = range /\ a.source = NoSource /\ a.fresh = q.fresh /\ RequestInv(a)
        BY <1>1, AnswerIs, AnswerKeeps
    <2>2. req' = [req EXCEPT ![r] = a] /\ flight' = flight
        BY <1>5 DEF Stream, q
    <2> HIDE DEF a
    <2>3. Honest(a)
        <3>1. Bytes(range, NoSource.file.size) = {}
            BY <1>5 DEF Invalid, Bytes
        <3> QED BY <2>1, <3>1 DEF Honest, CeilingKept, RangeKept
    <2>4. Moves(r, a)
        BY <1>1, <1>2, <1>3, <1>4, <2>1, <2>2, <2>3, FlightStays DEF Moves
    <2> QED BY <2>4, MovesKeep
<1>6. CASE range # Invalid /\ Hit(h)
    <2> DEFINE d == Decide(q, cache[h].source, TRUE)
    <2>1. cache[h].source \in Source /\ Picked(cache[h].source, h)
        BY <1>6 DEF Hit, StreamInv, StreamShape, EntryInv, Cached
    <2>2. /\ d \in RequestRecord /\ RequestInv(d) /\ Honest(d) /\ d.pc \in {"fetch", "done"}
          /\ d.fresh = q.fresh
        BY <1>1, <1>2, <2>1, DecideKeeps
    <2>3. req' = [req EXCEPT ![r] = d] /\ flight' = flight
        BY <1>6 DEF Stream, q
    <2> HIDE DEF d
    <2>4. Moves(r, d)
        BY <1>1, <1>2, <1>3, <1>4, <2>2, <2>3, FlightStays DEF Moves
    <2> QED BY <2>4, MovesKeep
<1>7. CASE range # Invalid /\ ~Hit(h)
    <2> DEFINE x == [q EXCEPT !.pc = "extract"]
    <2>1. /\ x \in RequestRecord /\ RequestInv(x) /\ Honest(x) /\ x.pc = "extract"
          /\ x.fresh = q.fresh
        BY <1>1, <1>2, ExtractIs
    <2>2. req' = [req EXCEPT ![r] = x] /\ flight' = Running
        BY <1>7 DEF Stream, Extracts, q
    <2> HIDE DEF x
    <2>3. Moves(r, x)
        BY <1>1, <1>3, <1>4, <2>1, <2>2 DEF Moves
    <2> QED BY <2>3, MovesKeep
<1> QED BY <1>5, <1>6, <1>7

LEMMA InfoKeeps ==
    ASSUME StreamInv, NEW r \in Request, NEW h \in Height, Info(r, h), UNCHANGED scenario
    PROVE  StreamInv'
<1> DEFINE q == NewRequest("info", h, Absent)
           x == [q EXCEPT !.pc = "extract"]
<1>1. /\ q \in RequestRecord /\ RequestInv(q) /\ q.source = NoSource /\ ~q.fresh
      /\ q.answer = NoAnswer
    BY RequestIs, NewRequestIs DEF Absent, Range
<1>2. /\ x \in RequestRecord /\ RequestInv(x) /\ Honest(x) /\ x.pc = "extract"
      /\ x.fresh = q.fresh
    BY <1>1, RequestIs, ExtractIs
<1>3. req' = [req EXCEPT ![r] = x] /\ flight' = Running
    BY DEF Info, Extracts
<1>4. UNCHANGED <<now, cache, urls, scenario>> /\ EntriesMove
    BY SameCache DEF Info
<1> HIDE DEF q, x
<1>5. Moves(r, x)
    BY <1>1, <1>2, <1>3, <1>4 DEF Moves
<1> QED BY <1>5, MovesKeep

LEMMA RetryKeeps ==
    ASSUME StreamInv, NEW r \in Request, Retry(r), UNCHANGED scenario
    PROVE  StreamInv'
<1> DEFINE x == [req[r] EXCEPT !.pc = "extract"]
<1>1. /\ req[r] \in RequestRecord /\ RequestInv(req[r]) /\ req[r].source = NoSource
      /\ req[r].answer = NoAnswer
    BY RequestIs DEF Retry, RequestInv
<1>2. /\ x \in RequestRecord /\ RequestInv(x) /\ Honest(x) /\ x.pc = "extract"
      /\ x.fresh = req[r].fresh /\ x.refused = req[r].refused
    BY <1>1, RequestIs, ExtractIs
<1>3. req' = [req EXCEPT ![r] = x] /\ flight' = Running
    BY DEF Retry, Extracts
<1>4. UNCHANGED <<now, cache, urls, scenario>> /\ EntriesMove
    BY SameCache DEF Retry
<1> HIDE DEF x
<1>5. Moves(r, x)
    BY <1>2, <1>3, <1>4 DEF Moves
<1> QED BY <1>5, MovesKeep

\* attempt(true): what the refused URL was in is empty when the new one is
\* asked for.
LEMMA RefreshKeeps ==
    ASSUME StreamInv, NEW r \in Request, Refresh(r), UNCHANGED scenario
    PROVE  StreamInv'
<1> DEFINE no == NoSource
           first == 0
           p == [req[r] EXCEPT !.fresh = TRUE, !.tries = first]
           q == [req[r] EXCEPT !.fresh = TRUE, !.tries = first, !.source = no, !.cached = FALSE]
           x == [q EXCEPT !.pc = "extract"]
<1>1. req[r] \in RequestRecord /\ RequestInv(req[r]) /\ req[r].pc = "refused"
    BY RequestIs DEF Refresh
<1>2. NoSource \in Source
    BY DEF NoSource, Source, NoFormat
<1>3. q \in RequestRecord
    <2>0. first \in 0..1
        OBVIOUS
    <2> HIDE DEF no, first
    <2>1. p \in RequestRecord
        BY <1>1, <2>0 DEF RequestRecord
    <2>2. q = [p EXCEPT !.source = no, !.cached = FALSE]
        OBVIOUS
    <2> HIDE DEF p
    <2>3. [p EXCEPT !.source = no, !.cached = FALSE] \in RequestRecord
        BY <1>2, <2>1 DEF RequestRecord, no
    <2> QED BY <2>2, <2>3
<1>4. x \in RequestRecord
    <2> HIDE DEF q
    <2> QED BY <1>3 DEF RequestRecord
<1>5. /\ x.pc = "extract" /\ x.kind = req[r].kind /\ x.range = req[r].range
      /\ x.forwarded = req[r].forwarded /\ x.decided = req[r].decided /\ x.source = NoSource
      /\ x.fresh = TRUE /\ x.refused = req[r].refused /\ x.answer = req[r].answer
    BY <1>1 DEF RequestRecord
<1>6. req' = [req EXCEPT ![r] = x] /\ flight' = Running
    BY DEF Refresh, Extracts
<1>7. cache' = [g \in Height |-> None] /\ UNCHANGED <<now, urls, scenario>>
    BY DEF Refresh, Dropped
<1> HIDE DEF q, x
<1>8. RequestInv(x) /\ x.answer = NoAnswer
    BY <1>1, <1>5 DEF RequestInv
<1>9. Honest(x)
    BY <1>4, <1>5, <1>8, RequestIs, UnansweredIsHonest
<1>10. EntriesMove
    BY <1>7, EmptyCache
<1>11. Moves(r, x)
    BY <1>4, <1>5, <1>6, <1>7, <1>8, <1>9, <1>10 DEF Moves
<1> QED BY <1>11, MovesKeep

LEMMA SentKeeps ==
    ASSUME StreamInv, NEW r \in Request, Sent(r), UNCHANGED scenario
    PROVE  StreamInv'
<1>1. AnyHeight \in Height /\ Absent \in Range
    BY StreamAssumption DEF AnyHeight, Absent, Range
<1>2. /\ NoRequest \in RequestRecord /\ RequestInv(NoRequest) /\ NoRequest.pc = "idle"
      /\ NoRequest.source = NoSource /\ ~NoRequest.fresh /\ NoRequest.answer = NoAnswer
    BY <1>1, RequestIs, NewRequestIs DEF NoRequest
<1>3. Honest(NoRequest)
    BY <1>2, RequestIs, UnansweredIsHonest
<1> QED BY <1>2, <1>3, AnsweringKeeps DEF Sent

\* What the errors give.
Fails(r, status) ==
    /\ req[r].pc # "done" /\ req' = [req EXCEPT ![r] = Answer(req[r], status, {})]
    /\ flight' = IF Waiting \subseteq {r} THEN NoFlight ELSE flight
    /\ UNCHANGED <<now, cache, urls, scenario>>

LEMMA FailingKeeps ==
    ASSUME StreamInv, NEW r \in Request, NEW status \in Nat \ {200, 206, 400, 416},
           Fails(r, status)
    PROVE  StreamInv'
<1> DEFINE a == Answer(req[r], status, {})
<1>1. /\ a \in RequestRecord /\ RequestInv(a) /\ Honest(a) /\ a.pc = "done"
      /\ a.fresh = req[r].fresh /\ a.refused = req[r].refused
    BY RequestIs, ErrorIsHonest, AnswerIs DEF Fails
<1>2. EntriesMove
    BY SameCache DEF Fails
<1> HIDE DEF a
<1>3. Moves(r, a)
    BY <1>1, <1>2 DEF Moves, Fails, a
<1> QED BY <1>3, MovesKeep

LEMMA AbortKeeps ==
    ASSUME StreamInv, NEW r \in Request, Abort(r), UNCHANGED scenario
    PROVE  StreamInv'
<1>1. Fails(r, 499)
    BY DEF Abort, Quiet, Fails
<1> QED BY <1>1, FailingKeeps

\* Errors after the media server has been asked.
LEMMA UpstreamErrorKeeps ==
    ASSUME StreamInv, NEW r \in Request, NEW status \in Nat \ {200, 206, 400, 416},
           Upstream(r, Answer(req[r], status, {})), UNCHANGED scenario
    PROVE  StreamInv'
<1>1. req[r].pc = "fetch" /\ UNCHANGED <<now, cache, flight, urls, scenario>>
    BY DEF Upstream
<1>2. flight' = IF Waiting \subseteq {r} THEN NoFlight ELSE flight
    BY <1>1, FlightStays
<1>3. Fails(r, status)
    BY <1>1, <1>2 DEF Upstream, Fails
<1> QED BY <1>3, FailingKeeps

LEMMA UpstreamFailsKeeps ==
    ASSUME StreamInv, NEW r \in Request, UpstreamFails(r), UNCHANGED scenario
    PROVE  StreamInv'
BY UpstreamErrorKeeps DEF UpstreamFails

\* What the media server sent, relayed.
LEMMA RelayKeeps ==
    ASSUME StreamInv, NEW r \in Request, NEW status \in {200, 206, 416}, NEW bytes \in SUBSET Int,
           Upstream(r, Answer(req[r], status, bytes)), UNCHANGED scenario,
           LET n == req[r].source.file.size IN
             /\ status = 206 /\ SameSize(req[r]) => bytes = Bytes(req[r].range, n)
             /\ status = 200 => bytes = 0..(n - 1) /\ 0 \in Bytes(req[r].range, n)
             /\ status = 416 /\ SameSize(req[r]) => Bytes(req[r].range, n) = {}
    PROVE  StreamInv'
<1> DEFINE a == Answer(req[r], status, bytes)
<1>1. /\ StreamShape /\ req[r] \in RequestRecord /\ RequestInv(req[r]) /\ req[r].pc = "fetch"
      /\ req' = [req EXCEPT ![r] = a] /\ UNCHANGED <<now, cache, flight, urls>>
    BY RequestIs DEF Upstream
<1>2. /\ a \in RequestRecord /\ RequestInv(a) /\ a.pc = "done" /\ a.answer.status = status
      /\ a.answer.bytes = bytes /\ a.height = req[r].height /\ a.range = req[r].range
      /\ a.decided = req[r].decided /\ a.source = req[r].source /\ a.fresh = req[r].fresh
      /\ a.refused = req[r].refused
    <2>1. status \in Nat
        OBVIOUS
    <2> QED BY <1>1, <2>1, AnswerIs, AnswerKeeps
<1>3. Picked(req[r].source, req[r].height)
    BY <1>1 DEF RequestInv
<1> HIDE DEF a
<1>4. CeilingKept(a)
    BY <1>1, <1>2, <1>3, PickedIsKept DEF Picked
<1>5. RangeKept(a)
    BY <1>2 DEF RangeKept, SameSize
<1>6. Honest(a)
    BY <1>4, <1>5 DEF Honest
<1> QED BY <1>1, <1>2, <1>6, AnsweringKeeps

LEMMA PartialContentKeeps ==
    ASSUME StreamInv, NEW r \in Request, PartialContent(r), UNCHANGED scenario
    PROVE  StreamInv'
<1> DEFINE n == req[r].source.file.size
           bytes == Bytes(req[r].forwarded, n)
           status == IF bytes = {} THEN 416 ELSE 206
<1>1. Upstream(r, Answer(req[r], status, bytes)) /\ req[r].pc = "fetch"
    BY DEF PartialContent, Upstream
<1>2. /\ StreamShape /\ req[r].source \in Source /\ Given(req[r].source)
      /\ req[r].range \in Range /\ req[r].forwarded \in Range /\ req[r].decided \in Nat
      /\ req[r].forwarded = Forward(req[r].range, req[r].decided)
    BY <1>1, RequestIs DEF RequestInv, RequestRecord, Picked
<1>3. n \in Nat \ {0}
    BY <1>2, FileFacts
<1>4. bytes \in SUBSET Int
    BY <1>2, <1>3, BytesAreNumbers
<1>5. SameSize(req[r]) => bytes = Bytes(req[r].range, n)
    BY <1>2, <1>3, ForwardKeepsBytes DEF SameSize
<1>6. status \in {200, 206, 416} /\ status # 200 /\ (status = 416 => bytes = {})
    OBVIOUS
<1>7. Upstream(r, Answer(req[r], status, bytes))
    BY <1>1
<1> HIDE DEF bytes, status
<1>8. /\ status = 206 /\ SameSize(req[r]) => bytes = Bytes(req[r].range, n)
      /\ status = 200 => bytes = 0..(n - 1) /\ 0 \in Bytes(req[r].range, n)
      /\ status = 416 /\ SameSize(req[r]) => Bytes(req[r].range, n) = {}
    BY <1>5, <1>6
<1> QED BY <1>4, <1>6, <1>7, <1>8, RelayKeeps

\* The whole file goes to those whose range begins with its first byte.
LEMMA WholeFileKeeps ==
    ASSUME StreamInv, NEW r \in Request, WholeFile(r), UNCHANGED scenario
    PROVE  StreamInv'
<1> DEFINE n == req[r].source.file.size
           range == req[r].range
<1>1. req[r].pc = "fetch"
    BY DEF WholeFile, Upstream
<1>2. /\ StreamShape /\ req[r].source \in Source /\ Given(req[r].source) /\ range \in Range
    BY <1>1, RequestIs DEF RequestInv, RequestRecord, Picked
<1>3. n \in Nat \ {0} /\ range.a \in Nat /\ range.b \in Nat
    BY <1>2, FileFacts DEF Range
<1> HIDE DEF n, range
<1>4. CASE Usable200(range)
    <2>1. Bytes(Absent, n) = 0..(n - 1)
        BY DEF Bytes, Absent
    <2>2. Upstream(r, Answer(req[r], 200, 0..(n - 1)))
        BY <1>4, <2>1 DEF WholeFile, n, range
    <2>3. 0 \in Bytes(range, n)
        BY <1>3, <1>4 DEF Usable200, Bytes, Least
    <2>4. 0..(n - 1) \in SUBSET Int
        OBVIOUS
    <2> QED BY <2>2, <2>3, <2>4, RelayKeeps DEF n, range
<1>5. CASE ~Usable200(range)
    <2>1. Upstream(r, Answer(req[r], 502, {}))
        BY <1>5 DEF WholeFile, range
    <2> QED BY <2>1, UpstreamErrorKeeps
<1> QED BY <1>4, <1>5

\* A refusal: a request that had its URL from the cache remembers which it was.
LEMMA ForbiddenKeeps ==
    ASSUME StreamInv, NEW r \in Request, Forbidden(r), UNCHANGED scenario
    PROVE  StreamInv'
<1>1. CASE req[r].cached /\ ~req[r].fresh
    <2> DEFINE url == req[r].source.url
               x == [req[r] EXCEPT !.pc = "refused", !.refused = url]
    <2>1. /\ StreamShape /\ req[r] \in RequestRecord /\ RequestInv(req[r]) /\ req[r].pc = "fetch"
          /\ req' = [req EXCEPT ![r] = x] /\ UNCHANGED <<now, cache, flight, urls>>
        BY <1>1, RequestIs DEF Forbidden, Upstream
    <2>2. /\ Picked(req[r].source, req[r].height) /\ req[r].kind = "stream"
          /\ req[r].forwarded = Forward(req[r].range, req[r].decided)
          /\ req[r].answer = NoAnswer
        BY <2>1 DEF RequestInv
    <2>3. url \in Nat /\ url > 0 /\ url <= urls
        BY <2>1, <2>2 DEF Picked, Given, StreamShape
    <2> HIDE DEF url
    <2>4. /\ x \in RequestRecord /\ x.pc = "refused" /\ x.kind = "stream"
          /\ x.height = req[r].height /\ x.range = req[r].range /\ x.forwarded = req[r].forwarded
          /\ x.decided = req[r].decided /\ x.source = req[r].source /\ ~x.fresh
          /\ x.refused = url /\ x.answer = NoAnswer
        BY <1>1, <2>1, <2>2, <2>3 DEF RequestRecord
    <2> HIDE DEF x
    <2>5. RequestInv(x)
        BY <2>2, <2>3, <2>4 DEF RequestInv, Picked
    <2>6. Honest(x)
        BY <2>1, <2>2, <2>4, UnansweredIsHonest
    <2> QED BY <2>1, <2>4, <2>5, <2>6, AnsweringKeeps
<1>2. CASE ~(req[r].cached /\ ~req[r].fresh)
    <2>1. Upstream(r, Answer(req[r], 429, {}))
        BY <1>2 DEF Forbidden
    <2> QED BY <2>1, UpstreamErrorKeeps
<1> QED BY <1>1, <1>2

-----------------------------------------------------------------------------
(* The flight.                                                             *)

\* The members of a flight resume one by one, with the URL that it settled
\* with.
LEMMA ResumeWithUrlKeeps ==
    ASSUME StreamInv, NEW r \in Request, ResumeWithUrl(r), UNCHANGED scenario
    PROVE  StreamInv'
<1> DEFINE offer == Offer[flight.source.file.offer]
           i == SelectBestStream(offer, req[r].height)
           source == [flight.source EXCEPT !.format = i]
<1>1. /\ StreamShape /\ req[r] \in RequestRecord /\ RequestInv(req[r]) /\ req[r].pc = "extract"
      /\ req[r].source = NoSource /\ req[r].answer = NoAnswer /\ req[r].height \in Height
      /\ flight.state = "url" /\ r \in Waiting
    BY RequestIs DEF ResumeWithUrl, Waiting, RequestInv, RequestRecord
<1>2. flight.source \in Source /\ Given(flight.source)
    BY <1>1 DEF StreamInv, StreamShape, FlightInv
<1>3. i \in Nat
    BY <1>1, <1>2, FileFacts, ChoiceIsPlace
<1>4. /\ \/ i # NoFormat /\ UseUrl(r, source)
         \/ /\ i = NoFormat
            /\ req' = [req EXCEPT ![r] = [Answer(req[r], 400, {}) EXCEPT !.source = source]]
            /\ UNCHANGED cache
      /\ flight' = IF Waiting \subseteq {r} THEN NoFlight ELSE flight
      /\ UNCHANGED <<now, urls, scenario>>
    BY <1>1 DEF ResumeWithUrl, Leave
<1>5. i = SelectBestStream(Offer[flight.source.file.offer], req[r].height)
    OBVIOUS
<1> HIDE DEF i
<1>6. /\ source \in Source /\ source.url = flight.source.url /\ source.file = flight.source.file
      /\ source.format = i
    BY <1>2, <1>3 DEF Source
<1> HIDE DEF source
<1>7. Given(source) /\ source.format = SelectBestStream(Offer[source.file.offer], req[r].height)
    BY <1>2, <1>5, <1>6 DEF Given
<1>8. CASE i # NoFormat
    <2> DEFINE d == Decide(req[r], source, FALSE)
    <2>1. cache' \in With(req[r].height, source) /\ req' = [req EXCEPT ![r] = d]
        BY <1>4, <1>8 DEF UseUrl
    <2>2. Picked(source, req[r].height)
        BY <1>6, <1>7, <1>8 DEF Picked
    <2>3. /\ d \in RequestRecord /\ RequestInv(d) /\ Honest(d) /\ d.pc \in {"fetch", "done"}
          /\ d.fresh = req[r].fresh /\ d.refused = req[r].refused
        BY <1>1, <1>6, <2>2, DecideKeeps
    <2>4. EntriesMove
        BY <1>1, <1>4, <1>6, <2>1, <2>2, SetKeeps
    <2> HIDE DEF d
    <2>5. Moves(r, d)
        BY <1>4, <2>1, <2>3, <2>4 DEF Moves
    <2> QED BY <2>5, MovesKeep
<1>9. CASE i = NoFormat
    <2> DEFINE a == Answer(req[r], 400, {})
               x == [a EXCEPT !.source = source]
    <2>1. req' = [req EXCEPT ![r] = x] /\ UNCHANGED cache
        BY <1>4, <1>9
    <2>2. /\ a \in RequestRecord /\ RequestInv(a) /\ a.pc = "done" /\ a.answer.status = 400
          /\ a.height = req[r].height /\ a.fresh = req[r].fresh /\ a.refused = req[r].refused
        BY <1>1, AnswerIs, AnswerKeeps
    <2> HIDE DEF a
    <2>3. /\ x \in RequestRecord /\ x.pc = "done" /\ x.kind = a.kind /\ x.height = a.height
          /\ x.range = a.range /\ x.forwarded = a.forwarded /\ x.decided = a.decided
          /\ x.source = source /\ x.fresh = a.fresh /\ x.refused = a.refused
          /\ x.answer = a.answer
        BY <1>6, <2>2 DEF RequestRecord
    <2> HIDE DEF x
    <2>4. RequestInv(x)
        BY <1>7, <2>2, <2>3 DEF RequestInv
    <2>5. CeilingKept(x)
        <3>1. /\ Given(x.source) /\ x.source.format = NoFormat /\ x.answer.status = 400
              /\ x.source.format = SelectBestStream(Offer[x.source.file.offer], x.height)
            BY <1>6, <1>7, <1>9, <2>2, <2>3
        <3> QED BY <1>1, <2>3, <3>1, PickedIsKept
    <2>6. RangeKept(x)
        BY <2>2, <2>3 DEF RangeKept
    <2>7. EntriesMove
        BY <1>4, <2>1, SameCache
    <2>8. Moves(r, x)
        BY <1>4, <2>1, <2>2, <2>3, <2>4, <2>5, <2>6, <2>7 DEF Moves, Honest
    <2> QED BY <2>8, MovesKeep
<1> QED BY <1>8, <1>9

LEMMA ResumeWithFailureKeeps ==
    ASSUME StreamInv, NEW r \in Request, ResumeWithFailure(r), UNCHANGED scenario
    PROVE  StreamInv'
<1>1. /\ StreamShape /\ req[r] \in RequestRecord /\ RequestInv(req[r]) /\ req[r].pc = "extract"
      /\ req[r].source = NoSource /\ req[r].answer = NoAnswer
    BY RequestIs DEF ResumeWithFailure, Waiting, RequestInv
<1>2. /\ req' = [req EXCEPT ![r] = AfterFailure(req[r])]
      /\ flight' = IF Waiting \subseteq {r} THEN NoFlight ELSE flight
      /\ UNCHANGED <<now, cache, urls, scenario>>
    BY DEF ResumeWithFailure, Leave
<1>3. CASE flight.state = "fails" /\ req[r].tries = 0
    <2> DEFINE more == 1
               x == [req[r] EXCEPT !.pc = "backoff", !.tries = more]
    <2>1. more \in 0..1
        OBVIOUS
    <2>2. req' = [req EXCEPT ![r] = x]
        BY <1>2, <1>3 DEF AfterFailure
    <2> HIDE DEF more
    <2>3. /\ x \in RequestRecord /\ x.pc = "backoff" /\ x.kind = req[r].kind
          /\ x.range = req[r].range /\ x.forwarded = req[r].forwarded
          /\ x.decided = req[r].decided /\ x.source = NoSource /\ x.fresh = req[r].fresh
          /\ x.refused = req[r].refused /\ x.answer = NoAnswer
        BY <1>1, <2>1 DEF RequestRecord
    <2> HIDE DEF x
    <2>4. RequestInv(x)
        BY <1>1, <2>3 DEF RequestInv
    <2>5. Honest(x)
        BY <1>1, <2>3, UnansweredIsHonest
    <2>6. EntriesMove
        BY <1>2, SameCache
    <2>7. Moves(r, x)
        BY <1>2, <2>2, <2>3, <2>4, <2>5, <2>6 DEF Moves
    <2> QED BY <2>7, MovesKeep
<1>4. CASE ~(flight.state = "fails" /\ req[r].tries = 0)
    <2>1. Fails(r, FailureStatus)
        BY <1>1, <1>2, <1>4 DEF AfterFailure, Fails
    <2>2. FailureStatus \in Nat \ {200, 206, 400, 416}
        BY DEF FailureStatus
    <2> QED BY <2>1, <2>2, FailingKeeps
<1> QED BY <1>3, <1>4

\* A URL that is handed out is newer than every one a request was refused.
LEMMA FlightSettlesKeeps ==
    ASSUME StreamInv, FlightSettles, UNCHANGED scenario
    PROVE  StreamInv'
<1>1. /\ flight.state = "running" /\ UNCHANGED <<now, cache, req, scenario>>
    BY DEF FlightSettles, Running
<1>2. \/ /\ urls < scenario.urls /\ urls' = urls + 1
         /\ \E file \in scenario.files :
               flight' = [state |-> "url", source |-> [url |-> urls', file |-> file, format |-> NoFormat]]
      \/ /\ \E how \in {"fails", "refuses"} : flight' = [state |-> how, source |-> NoSource]
         /\ urls' = urls
    BY DEF FlightSettles, Settled
<1>3. /\ urls \in Nat /\ urls <= scenario.urls /\ scenario.urls \in Nat
      /\ scenario.files \subseteq Media
    BY StreamAssumption DEF StreamInv, StreamShape
<1>4. urls' \in Nat /\ urls <= urls' /\ urls' <= scenario.urls
    BY <1>2, <1>3
<1>5. /\ flight' \in [state : {"none", "running", "url", "fails", "refuses"}, source : Source]
      /\ flight'.state # "none" /\ flight'.source.format = NoFormat
      /\ flight'.state # "url" => flight'.source = NoSource
      /\ flight'.state = "url" =>
            flight'.source.url = urls + 1 /\ urls' = urls + 1 /\ flight'.source.file \in scenario.files
    <2>1. CASE urls < scenario.urls /\ urls' = urls + 1
               /\ \E file \in scenario.files :
                     flight' = [state |-> "url", source |-> [url |-> urls', file |-> file, format |-> NoFormat]]
        <3>1. PICK file \in scenario.files :
                 flight' = [state |-> "url", source |-> [url |-> urls', file |-> file, format |-> NoFormat]]
            BY <2>1
        <3>2. file \in Media /\ NoFormat \in Nat
            BY <1>3 DEF NoFormat
        <3> QED BY <1>4, <2>1, <3>1, <3>2 DEF Source
    <2>2. CASE (\E how \in {"fails", "refuses"} : flight' = [state |-> how, source |-> NoSource])
               /\ urls' = urls
        <3>1. NoSource \in Source /\ NoSource.format = NoFormat
            BY DEF NoSource, Source, NoFormat
        <3> QED BY <2>2, <3>1
    <2> QED BY <1>2, <2>1, <2>2
<1>6. Waiting' = Waiting /\ Waiting # {}
    BY <1>1 DEF Waiting, StreamInv, FlightInv
<1>7. FlightInv'
    <2>1. flight'.state = "url" => flight'.source.url \in 1..urls' /\ flight'.source.file \in scenario'.files
        BY <1>1, <1>3, <1>5
    <2> QED BY <1>5, <1>6, <2>1 DEF FlightInv, Given
<1>8. \A s \in Source : Given(s) => Given(s)'
    BY <1>1, <1>3, <1>4 DEF Given, Source
<1>9. StreamShape'
    BY <1>1, <1>4, <1>5 DEF StreamInv, StreamShape
<1>10. ASSUME NEW h \in Height PROVE EntryInv(h)'
    <2>1. EntryInv(h) /\ cache[h].source \in Source
        BY DEF StreamInv, StreamShape, Cached
    <2>2. CASE cache[h] = None
        BY <1>1, <2>2 DEF EntryInv
    <2>3. CASE cache[h] # None
        <3>1. Given(cache[h].source)'
            BY <1>1, <1>8, <2>1, <2>3 DEF EntryInv, Picked
        <3> QED BY <1>1, <2>1, <2>3, <3>1 DEF EntryInv, Picked
    <2> QED BY <2>2, <2>3
<1>11. ASSUME NEW r \in Request
       PROVE  RequestInv(req[r])' /\ Honest(req[r])' /\ Newer(req[r])'
    <2> DEFINE q == req[r]
    <2>1. q' = q /\ RequestInv(q) /\ Honest(q) /\ Newer(q) /\ q \in RequestRecord
        BY <1>1 DEF StreamInv, StreamShape
    <2>2. q.source \in Source /\ q.refused \in Nat
        BY <2>1 DEF RequestRecord
    <2> HIDE DEF q
    <2>3. Given(q.source) => Given(q.source)'
        BY <1>8, <2>1, <2>2 DEF Given
    <2>4. q.refused <= urls'
        BY <1>3, <1>4, <2>1, <2>2 DEF RequestInv
    <2>5. RequestInv(q)'
        BY <2>1, <2>3, <2>4 DEF RequestInv, Picked
    <2>6. Honest(q)'
        BY <2>1 DEF Honest
    <2>7. flight'.state = "url" => flight'.source.url > q.refused
        BY <1>3, <1>5, <2>1, <2>2 DEF RequestInv
    <2>8. Newer(q)'
        BY <1>1, <2>1, <2>7 DEF Newer
    <2> QED BY <2>5, <2>6, <2>8 DEF q
<1> QED BY <1>7, <1>9, <1>10, <1>11 DEF StreamInv

LEMMA TickKeeps ==
    ASSUME StreamInv, Tick, UNCHANGED scenario
    PROVE  StreamInv'
<1>1. /\ now' = now + 1 /\ now < scenario.until /\ UNCHANGED <<cache, flight, urls, req, scenario>>
    BY DEF Tick
<1>2. now \in Nat /\ Ttl \in Nat /\ scenario.until \in Nat /\ cache \in [Height -> Cached]
    BY StreamAssumption DEF StreamInv, StreamShape
<1>3. StreamShape'
    BY <1>1, <1>2 DEF StreamInv, StreamShape
<1>4. ASSUME NEW h \in Height PROVE EntryInv(h)'
    <2>1. EntryInv(h) /\ cache[h].until \in Nat /\ cache[h].used \in Nat
        BY <1>2 DEF StreamInv, Cached
    <2>2. cache[h].until <= now + Ttl => cache[h].until <= now' + Ttl
        BY <1>1, <1>2, <2>1
    <2>3. \A x \in Nat : x <= now => x <= now'
        BY <1>1, <1>2
    <2> QED BY <1>1, <2>1, <2>2, <2>3 DEF EntryInv, Picked, Given
<1>5. FlightInv'
    BY <1>1 DEF StreamInv, FlightInv, Waiting, Given
<1>6. ASSUME NEW r \in Request
      PROVE  RequestInv(req[r])' /\ Honest(req[r])' /\ Newer(req[r])'
    BY <1>1 DEF StreamInv, RequestInv, Honest, Newer, Given, Picked
<1> QED BY <1>3, <1>4, <1>5, <1>6 DEF StreamInv

-----------------------------------------------------------------------------
(* The theorems.                                                           *)

LEMMA InitSafe ==
    ASSUME StreamInit PROVE StreamInv
<1>1. /\ scenario \in Scenario /\ now = 0 /\ urls = 0 /\ flight = NoFlight
      /\ cache = [h \in Height |-> None] /\ req = [r \in Request |-> NoRequest]
      /\ scenario.until \in Nat /\ scenario.urls \in Nat
      /\ AnyHeight \in Height /\ Absent \in Range
    BY StreamAssumption DEF StreamInit, AnyHeight, Absent, Range
<1>2. NoRequest \in RequestRecord
    <2>1. /\ NoSource \in Source /\ NoAnswer \in [status : Nat, bytes : SUBSET Int]
        BY DEF NoSource, Source, NoFormat, NoAnswer
    <2> QED BY <1>1, <2>1 DEF NoRequest, NewRequest, RequestRecord
<1>3. NoFlight \in [state : {"none", "running", "url", "fails", "refuses"}, source : Source]
      /\ NoFlight.state = "none" /\ NoFlight.source = NoSource /\ NoSource.format = NoFormat
    BY DEF NoFlight, NoSource, Source, NoFormat
<1>4. StreamShape
    BY <1>1, <1>2, <1>3, NoneIsCached DEF StreamShape
<1>5. /\ RequestInv(NoRequest) /\ NoRequest.pc = "idle" /\ NoRequest.source = NoSource
      /\ ~NoRequest.fresh /\ NoRequest.answer = NoAnswer
    BY <1>1, <1>4, NewRequestIs DEF NoRequest
<1>6. Honest(NoRequest) /\ Newer(NoRequest)
    BY <1>2, <1>4, <1>5, UnansweredIsHonest DEF Newer
<1>7. Waiting = {}
    BY <1>1, <1>5 DEF Waiting
<1>8. FlightInv
    BY <1>1, <1>3, <1>7 DEF FlightInv
<1>9. \A h \in Height : EntryInv(h)
    BY <1>1 DEF EntryInv
<1> QED BY <1>1, <1>4, <1>5, <1>6, <1>8, <1>9 DEF StreamInv

LEMMA StreamStep ==
    ASSUME StreamInv, [StreamNext]_streamVars PROVE StreamInv'
<1>1. /\ scenario.requests \subseteq Request /\ scenario.heights \subseteq Height
      /\ scenario.ranges \subseteq Range
    BY StreamAssumption DEF StreamInv, StreamShape
<1>2. ASSUME NEW r \in scenario.requests, Calls(r), UNCHANGED scenario PROVE StreamInv'
    <2>1. r \in Request
        BY <1>1
    <2>2. CASE Abort(r)
        BY <1>2, <2>1, <2>2, AbortKeeps
    <2>3. ASSUME NEW h \in scenario.heights, Info(r, h) PROVE StreamInv'
        BY <1>1, <1>2, <2>1, <2>3, InfoKeeps
    <2>4. ASSUME NEW h \in scenario.heights, NEW range \in scenario.ranges, Stream(r, h, range)
          PROVE  StreamInv'
        <3>1. h \in Height /\ range \in Range
            BY <1>1
        <3> QED BY <1>2, <2>1, <2>4, <3>1, StreamKeeps
    <2> QED BY <1>2, <2>2, <2>3, <2>4 DEF Calls
<1>3. ASSUME NEW r \in scenario.requests, Progress(r), UNCHANGED scenario PROVE StreamInv'
    <2>1. r \in Request
        BY <1>1
    <2> QED BY <1>3, <2>1, ResumeWithUrlKeeps, ResumeWithFailureKeeps, RetryKeeps,
               PartialContentKeeps, WholeFileKeeps, UpstreamFailsKeeps, ForbiddenKeeps,
               RefreshKeeps, SentKeeps DEF Progress
<1>4. CASE FlightSettles /\ UNCHANGED scenario
    BY <1>4, FlightSettlesKeeps
<1>5. CASE Tick /\ UNCHANGED scenario
    BY <1>5, TickKeeps
<1>6. CASE UNCHANGED streamVars
    BY <1>6 DEF streamVars, StreamInv, StreamShape, EntryInv, FlightInv, Waiting, RequestInv,
                Honest, Newer, Given, Picked
<1> QED BY <1>2, <1>3, <1>4, <1>5, <1>6 DEF StreamNext

LEMMA StreamSafe == StreamSpec => []StreamInv
<1>1. StreamInit => StreamInv
    BY InitSafe
<1>2. StreamInv /\ [StreamNext]_streamVars => StreamInv'
    BY StreamStep
<1> QED BY <1>1, <1>2, PTL DEF StreamSpec

\* Type correctness, and attempt(true): once a request has refreshed a URL that
\* was refused, no older one comes back into the cache at any height, whatever
\* other requests, evictions and expiries do.
THEOREM RefusedIsGoneHolds == StreamSpec => []RefusedIsGone
<1>1. StreamInv => RefusedIsGone
    <2> SUFFICES ASSUME StreamInv PROVE RefusedIsGone
        OBVIOUS
    <2>1. /\ scenario \in Scenario /\ scenario.until \in Nat /\ scenario.urls \in Nat /\ Ttl \in Nat
          /\ now \in Nat /\ now <= scenario.until /\ urls \in Nat /\ urls <= scenario.urls
        BY StreamAssumption DEF StreamInv, StreamShape
    <2>2. \A s \in Source : Given(s) \/ s = NoSource => IsSource(s)
        BY <2>1 DEF Given, IsSource, NoSource, Source
    <2>3. ASSUME NEW h \in Height
          PROVE  /\ IsSource(cache[h].source)
                 /\ cache[h].until \in 0..(scenario.until + Ttl) /\ cache[h].used \in 0..scenario.until
        <3>1. EntryInv(h) /\ cache[h] \in Cached
            BY DEF StreamInv, StreamShape
        <3>2. cache[h].source \in Source /\ cache[h].until \in Nat /\ cache[h].used \in Nat
            BY <3>1 DEF Cached
        <3>3. CASE cache[h] = None
            BY <2>1, <2>2, <3>2, <3>3 DEF None
        <3>4. CASE cache[h] # None
            <4>1. /\ Given(cache[h].source) /\ cache[h].until <= now + Ttl /\ cache[h].used <= now
                BY <3>1, <3>4 DEF EntryInv, Picked
            <4> QED BY <2>1, <2>2, <3>2, <4>1
        <3> QED BY <3>3, <3>4
    <2>4. /\ flight.state \in {"none", "running", "url", "fails", "refuses"}
          /\ IsSource(flight.source)
          /\ flight.state = "none" <=> Waiting = {}
        BY <2>2 DEF StreamInv, StreamShape, FlightInv
    <2>5. ASSUME NEW r \in Request
          PROVE  /\ req[r].pc \in {"idle", "extract", "backoff", "fetch", "refused", "done"}
                 /\ IsSource(req[r].source) /\ req[r].tries \in 0..1 /\ req[r].refused <= urls
                 /\ req[r].fresh => req[r].refused > 0
        <3>1. req[r] \in RequestRecord /\ RequestInv(req[r])
            BY DEF StreamInv, StreamShape
        <3> QED BY <2>2, <3>1 DEF RequestRecord, RequestInv
    <2>6. StreamTypeOK
        BY <2>1, <2>3, <2>4, <2>5 DEF StreamTypeOK
    <2> QED BY <2>6 DEF RefusedIsGone, StreamInv, Newer
<1> QED BY <1>1, StreamSafe, PTL

\* relayUpstream and what runs before it: a 206, a 200 and a 416 say the truth
\* of the file and of the range, and every file is what the request's own
\* ceiling picks.
THEOREM RelayHonestHolds == StreamSpec => []RelayHonest
<1>1. StreamInv => RelayHonest
    BY DEF StreamInv, Honest, RelayHonest
<1> QED BY <1>1, StreamSafe, PTL

LEMMA DecideIs ==
    ASSUME NEW q \in RequestRecord, NEW source \in Source, NEW cached \in BOOLEAN
    PROVE  LET d == Decide(q, source, cached) IN d.height = q.height /\ d.cached = cached
<1> DEFINE n == IF source.file.known THEN source.file.size ELSE 0
           s == [q EXCEPT !.source = source, !.cached = cached]
           answer(status) == [status |-> status, bytes |-> {}]
           forward == Forward(q.range, n)
<1>1. s \in RequestRecord /\ s.height = q.height /\ s.cached = cached
    BY DEF RequestRecord
<1> HIDE DEF s, n, answer, forward
<1>2. \/ \E status \in {200, 416} :
            Decide(q, source, cached) = [s EXCEPT !.pc = "done", !.answer = answer(status)]
      \/ Decide(q, source, cached) = [s EXCEPT !.pc = "fetch"]
      \/ Decide(q, source, cached)
            = [s EXCEPT !.pc = "fetch", !.forwarded = forward, !.decided = n]
    BY DEF Decide, Answer, s, n, answer, forward
<1>3. CASE \E status \in {200, 416} :
              Decide(q, source, cached) = [s EXCEPT !.pc = "done", !.answer = answer(status)]
    BY <1>1, <1>3 DEF RequestRecord
<1>4. CASE Decide(q, source, cached) = [s EXCEPT !.pc = "fetch"]
    BY <1>1, <1>4 DEF RequestRecord
<1>5. CASE Decide(q, source, cached)
              = [s EXCEPT !.pc = "fetch", !.forwarded = forward, !.decided = n]
    BY <1>1, <1>5 DEF RequestRecord
<1> QED BY <1>2, <1>3, <1>4, <1>5

\* A step of one request leaves the others where they are.
LEMMA OthersStay ==
    ASSUME req \in [Request -> RequestRecord], NEW s \in Request, Calls(s) \/ Progress(s),
           NEW r \in Request, s # r
    PROVE  req'[r] = req[r]
<1>1. \E q : req' = [req EXCEPT ![s] = q]
    <2>1. CASE \E h \in scenario.heights : Info(s, h)
        BY <2>1 DEF Info, Extracts
    <2>2. CASE \E h \in scenario.heights, range \in scenario.ranges : Stream(s, h, range)
        BY <2>2 DEF Stream, Extracts
    <2>3. CASE ResumeWithUrl(s)
        BY <2>3 DEF ResumeWithUrl, UseUrl
    <2>4. CASE Abort(s) \/ ResumeWithFailure(s) \/ Retry(s) \/ Refresh(s) \/ Sent(s)
        BY <2>4 DEF Abort, ResumeWithFailure, Retry, Refresh, Sent, Extracts
    <2>5. CASE PartialContent(s) \/ WholeFile(s) \/ UpstreamFails(s) \/ Forbidden(s)
        BY <2>5 DEF PartialContent, WholeFile, UpstreamFails, Forbidden, Upstream
    <2> QED BY <2>1, <2>2, <2>3, <2>4, <2>5 DEF Calls, Progress
<1> QED BY <1>1

\* A request that is sent to the media server with a URL of the cache has found
\* it there in that step.
LEMMA FetchBegins ==
    ASSUME StreamInv, [StreamNext]_streamVars, NEW r \in Request,
           req'[r].cached, req'[r].pc = "fetch", req[r].pc # "fetch"
    PROVE  req'[r].height \in Height /\ Hit(req'[r].height)
<1>1. /\ scenario.requests \subseteq Request /\ scenario.heights \subseteq Height
      /\ scenario.ranges \subseteq Range
      /\ req \in [Request -> RequestRecord] /\ StreamShape /\ req[r] \in RequestRecord
    BY StreamAssumption DEF StreamInv, StreamShape
<1>2. ASSUME NEW q, q.pc # "fetch", req' = [req EXCEPT ![r] = q] PROVE FALSE
    BY <1>1, <1>2
<1>3. ASSUME NEW q \in RequestRecord, Extracts(r, q) PROVE FALSE
    <2>1. [q EXCEPT !.pc = "extract"].pc = "extract"
        BY DEF RequestRecord
    <2> QED BY <1>2, <1>3, <2>1 DEF Extracts
<1>4. ASSUME NEW q \in RequestRecord, NEW status \in Nat,
             req' = [req EXCEPT ![r] = Answer(q, status, {})]
      PROVE  FALSE
    <2>1. Answer(q, status, {}).pc = "done"
        BY AnswerIs
    <2> QED BY <1>2, <1>4, <2>1
<1>5. ASSUME NEW h \in Height, NEW kind \in {"stream", "info"}, NEW range \in Range
      PROVE  NewRequest(kind, h, range) \in RequestRecord /\ NewRequest(kind, h, range).height = h
    BY <1>1, NewRequestIs
<1>6. ASSUME NEW h \in scenario.heights, NEW range \in scenario.ranges, Stream(r, h, range)
      PROVE  req'[r].height \in Height /\ Hit(req'[r].height)
    <2> DEFINE q == NewRequest("stream", h, range)
    <2>1. h \in Height /\ q \in RequestRecord /\ q.height = h
        BY <1>1, <1>5
    <2> HIDE DEF q
    <2>2. CASE range = Invalid
        <3>1. req' = [req EXCEPT ![r] = Answer(q, 416, {})] /\ 416 \in Nat
            BY <1>6, <2>2 DEF Stream, q
        <3> QED BY <1>4, <2>1, <3>1
    <2>3. CASE range # Invalid /\ Hit(h)
        <3> DEFINE d == Decide(q, cache[h].source, TRUE)
        <3>1. req' = [req EXCEPT ![r] = d]
            BY <1>6, <2>3 DEF Stream, q
        <3>2. cache[h].source \in Source
            BY <1>1, <2>1 DEF StreamShape, Cached
        <3>3. d.height = h
            BY <2>1, <3>2, DecideIs
        <3> HIDE DEF d
        <3> QED BY <1>1, <2>1, <2>3, <3>1, <3>3
    <2>4. CASE range # Invalid /\ ~Hit(h)
        BY <1>3, <1>6, <2>1, <2>4 DEF Stream, q
    <2> QED BY <2>2, <2>3, <2>4
<1>7. ASSUME NEW h \in scenario.heights, Info(r, h) PROVE FALSE
    <2>1. NewRequest("info", h, Absent) \in RequestRecord
        BY <1>1, <1>5 DEF Absent, Range
    <2> QED BY <1>3, <1>7, <2>1 DEF Info
<1>8. ASSUME Abort(r) PROVE FALSE
    <2>1. req' = [req EXCEPT ![r] = Answer(req[r], 499, {})] /\ 499 \in Nat
        BY <1>8 DEF Abort
    <2> QED BY <1>1, <1>4, <2>1
<1>9. ASSUME Retry(r) PROVE FALSE
    BY <1>1, <1>3, <1>9 DEF Retry
<1>10. ASSUME Refresh(r) PROVE FALSE
    <2>1. \E q : q.pc = "extract" /\ req' = [req EXCEPT ![r] = q]
        <3> DEFINE q == [req[r] EXCEPT !.fresh = TRUE, !.tries = 0, !.source = NoSource,
                                       !.cached = FALSE]
                   x == [q EXCEPT !.pc = "extract"]
        <3>1. x.pc = "extract" /\ req' = [req EXCEPT ![r] = x]
            BY <1>1, <1>10 DEF Refresh, Extracts, RequestRecord
        <3> HIDE DEF x
        <3> QED BY <3>1
    <2> QED BY <1>2, <2>1
<1>11. ASSUME Sent(r) PROVE FALSE
    <2>1. NoRequest.pc = "idle"
        BY DEF NoRequest, NewRequest
    <2> QED BY <1>2, <1>11, <2>1 DEF Sent
<1>12. ASSUME ResumeWithFailure(r) PROVE FALSE
    <2>1. AfterFailure(req[r]).pc \in {"backoff", "done"}
        BY <1>1 DEF AfterFailure, Answer, RequestRecord
    <2> QED BY <1>2, <1>12, <2>1 DEF ResumeWithFailure
<1>13. ASSUME ResumeWithUrl(r) PROVE FALSE
    <2>1. flight.source \in Source /\ Given(flight.source)
        BY <1>13 DEF StreamInv, StreamShape, FlightInv, ResumeWithUrl
    <2> DEFINE i == SelectBestStream(Offer[flight.source.file.offer], req[r].height)
               source == [flight.source EXCEPT !.format = i]
               a == Answer(req[r], 400, {})
    <2>2. i \in Nat
        BY <1>1, <2>1, FileFacts, ChoiceIsPlace
    <2>3. \/ UseUrl(r, source)
          \/ req' = [req EXCEPT ![r] = [a EXCEPT !.source = source]]
        BY <1>13 DEF ResumeWithUrl
    <2> HIDE DEF i
    <2>4. source \in Source
        BY <2>1, <2>2 DEF Source
    <2> HIDE DEF source
    <2>5. CASE UseUrl(r, source)
        <3>1. Decide(req[r], source, FALSE).cached = FALSE
            BY <1>1, <2>4, DecideIs
        <3> QED BY <1>1, <2>5, <3>1 DEF UseUrl
    <2>6. CASE req' = [req EXCEPT ![r] = [a EXCEPT !.source = source]]
        <3>1. a \in RequestRecord /\ a.pc = "done"
            BY <1>1, AnswerIs
        <3> HIDE DEF a
        <3>2. [a EXCEPT !.source = source].pc = "done"
            BY <3>1 DEF RequestRecord
        <3> QED BY <1>2, <2>6, <3>2
    <2> QED BY <2>3, <2>5, <2>6
<1>14. ASSUME PartialContent(r) \/ WholeFile(r) \/ UpstreamFails(r) \/ Forbidden(r) PROVE FALSE
    BY <1>14 DEF PartialContent, WholeFile, UpstreamFails, Forbidden, Upstream
<1>15. ASSUME Calls(r) \/ Progress(r) PROVE req'[r].height \in Height /\ Hit(req'[r].height)
    BY <1>6, <1>7, <1>8, <1>9, <1>10, <1>11, <1>12, <1>13, <1>14, <1>15 DEF Calls, Progress
<1>16. ASSUME NEW s \in scenario.requests, Calls(s) \/ Progress(s)
       PROVE  req'[r].height \in Height /\ Hit(req'[r].height)
    <2>1. s = r
        BY <1>1, <1>16, OthersStay
    <2> QED BY <1>15, <1>16, <2>1
<1>17. ASSUME req' = req PROVE FALSE
    BY <1>17
<1> QED BY <1>16, <1>17 DEF StreamNext, FlightSettles, Tick, streamVars

\* urlLifetime and StreamCache.get: no URL is taken from the cache after its
\* expiry less the margin, unless it came in this very tick.
THEOREM FreshFromCacheHolds == StreamSpec => FreshFromCache
<1>1. ASSUME StreamInv, [StreamNext]_streamVars, NEW r \in Request,
             req'[r].cached, req'[r].pc = "fetch", req[r].pc # "fetch"
      PROVE  LET e == cache[req'[r].height] IN now <= e.source.file.limit \/ e.until = now
    <2> DEFINE e == cache[req'[r].height]
    <2>1. /\ e # None /\ now <= e.until /\ EntryInv(req'[r].height) /\ e \in Cached
          /\ now \in Nat
        BY <1>1, FetchBegins DEF Hit, StreamInv, StreamShape
    <2>2. /\ e.source \in Source /\ Given(e.source) /\ e.until \in Nat
          /\ e.until <= e.source.file.limit \/ e.until <= now
        BY <2>1 DEF EntryInv, Picked, Cached
    <2>3. e.source.file.limit \in Nat
        BY <1>1, <2>2, FileFacts DEF StreamInv
    <2> HIDE DEF e
    <2>4. now <= e.source.file.limit \/ e.until = now
        BY <2>1, <2>2, <2>3
    <2> QED BY <2>4 DEF e
<1>2. StreamInv /\ [StreamNext]_streamVars =>
         [\A r \in Request :
             req'[r].cached /\ req'[r].pc = "fetch" /\ req[r].pc # "fetch" =>
                 LET e == cache[req'[r].height] IN
                 \/ now <= e.source.file.limit
                 \/ e.until = now]_streamVars
    BY <1>1
<1> QED BY <1>2, StreamSafe, PTL DEF StreamSpec, FreshFromCache
=============================================================================
