------------------------------ MODULE MCStreamProxy ------------------------------
(***************************************************************************)
(* Small instances of the stream proxy.                                    *)
(***************************************************************************)
EXTENDS StreamProxy

CONSTANTS r1, r2

\* URLs are in the margin from the second tick on, or hardly ever.
File(n, known, limit, offer) ==
    [size |-> n, known |-> known, limit |-> limit, offer |-> offer]

F(height, tbr) ==
    [url |-> "file", protocol |-> "https", ext |-> "mp4", vcodec |-> "avc1",
     acodec |-> "mp4a", height |-> height, note |-> 0, tbr |-> tbr]

\* A video with one format, one with two of the ceiling, and one whose lower
\* formats are of no use; then all pairs of formats, which can be chosen or
\* not.
Low  == <<F(144, 1)>>
Both == <<F(240, Infinity), F(144, 2), F(240, 1)>>
High == << [F(144, 1) EXCEPT !.acodec = "none"], [F(144, 1) EXCEPT !.url = "manifest"],
           [F(144, 1) EXCEPT !.ext = "ts"], F(0, 1), [F(0, 1) EXCEPT !.note = 240] >>

Formats ==
    << F(144, 1), F(144, 2), F(240, 1), F(360, Infinity),
       [F(0, 2) EXCEPT !.note = 240, !.ext = "webm", !.vcodec = "vp9", !.protocol = ""],
       [F(240, 1) EXCEPT !.vcodec = "av01"], [F(144, 1) EXCEPT !.protocol = "m3u8_native"] >>

MCOffers ==
    LET n == Len(Formats)
        Pair(i) == <<Formats[1 + (i \div n)], Formats[1 + (i % n)]>>
    IN <<Low, Both, High, <<>>>> \o [i \in 1..(n * n) |-> Pair(i - 1)]

Of(R, H, cap, ranges, files, u, t) ==
    [requests |-> R, heights |-> H, cap |-> cap, ranges |-> ranges, files |-> files,
     urls |-> u, until |-> t]

AllRanges ==
    {Absent, Invalid, From(0), From(1), Interval(0, 0), Interval(1, 5), Interval(2, 2),
     Suffix(1), Suffix(5)}

\* One client with every range and files of different sizes; one with two
\* heights and room for one; two clients that share the cache; and one that
\* may be offered anything.
MCScenarios ==
    { Of({r1}, {240}, 1, AllRanges, {File(n, k, 1, 1) : n \in {1, 3}, k \in BOOLEAN}, 3, 2),
      Of({r1}, {144, 240}, 1, {Absent}, {File(2, TRUE, 1, 2), File(2, TRUE, 9, 3)}, 3, 3),
      Of({r1, r2}, {144, 240}, 2, {From(1)}, {File(2, TRUE, 1, 2)}, 2, 1) }
    \cup {Of({r1}, {240}, 1, {Absent}, {File(1, TRUE, 0, o)}, 1, 0) : o \in 4..Len(Offer)}
=============================================================================
