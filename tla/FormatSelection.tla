----------------------------- MODULE FormatSelection -----------------------------
(***************************************************************************)
(* Which of the formats of a video is relayed (selectBestStream and        *)
(* availableCombinedQualities in src/services/youtube/extractor.ts).       *)
(*                                                                         *)
(* A format is a record of what the choice looks at:                       *)
(*   [url, protocol, ext, vcodec, acodec, height, note, tbr]               *)
(* where url is "" (none), "file" or "manifest", the codecs are families,  *)
(* note is the height that format_note names, absent text is "", an absent *)
(* height 0 and an absent bitrate Infinity.  An offer is a sequence of     *)
(* formats, in the order of yt-dlp, and a choice a place in it.            *)
(***************************************************************************)
EXTENDS Naturals, Sequences

Infinity == 1000000
NoFormat == 0

\* What is read of a format.
Format == [url : STRING, protocol : STRING, ext : STRING, vcodec : STRING, acodec : STRING,
           height : Nat, note : Nat, tbr : Nat]

IsManifestFormat(f) ==
    \/ f.protocol \in {"m3u8_native", "http_dash_segments"}
    \/ f.url = "manifest"
    \/ f.ext \in {"m3u8", "mpd"}

IsSupportedTransport(f) == ~IsManifestFormat(f) /\ f.protocol \in {"", "https", "http"}

HasVideo(f) == f.vcodec \notin {"", "none"}
HasAudio(f) == f.acodec \notin {"", "none"}

FormatIsBrowserCompatible(f) ==
    /\ f.ext \in {"mp4", "webm"}
    /\ HasVideo(f) => f.vcodec \in {"avc1", "avc3", "h264", "vp8", "vp9"}
    /\ HasAudio(f) => f.acodec \in {"mp4a", "aac", "opus", "vorbis"}

FormatHeight(f) == IF f.height > 0 THEN f.height ELSE f.note

\* What one progressive relay can play at all.
Combined(f) ==
    /\ f.url # ""
    /\ HasAudio(f) /\ HasVideo(f)
    /\ IsSupportedTransport(f) /\ FormatIsBrowserCompatible(f)

UnderCap(f, maxHeight) == FormatHeight(f) \in 1..maxHeight

\* The order of the sort.  A bitrate that is not reported comes last.
Better(f, g) ==
    \/ FormatHeight(f) > FormatHeight(g)
    \/ FormatHeight(f) = FormatHeight(g) /\ f.tbr < g.tbr

\* The head of the stable sort of what is eligible, if anything is.
SelectBestStream(offer, maxHeight) ==
    LET best[n \in 0..Len(offer)] ==
            IF n = 0 THEN NoFormat
            ELSE IF /\ Combined(offer[n]) /\ UnderCap(offer[n], maxHeight)
                    /\ best[n - 1] = NoFormat \/ Better(offer[n], offer[best[n - 1]])
            THEN n ELSE best[n - 1]
    IN best[Len(offer)]

\* The heights the metadata lists for the viewer.
AvailableCombinedQualities(offer) ==
    {FormatHeight(offer[i]) : i \in {j \in DOMAIN offer : Combined(offer[j])}} \ {0}

-----------------------------------------------------------------------------
\* The contract of the choice, in the words of selectBestStream's comment: the
\* ceiling is hard, the highest format at or below it wins, of those with the
\* lowest bitrate, and there is no choice only if there is no such format.
Chosen(i, offer, maxHeight) ==
    LET eligible == {j \in DOMAIN offer : Combined(offer[j]) /\ FormatHeight(offer[j]) \in 1..maxHeight}
        Above(j) == {k \in eligible : FormatHeight(offer[k]) > FormatHeight(offer[j])}
        Equal(j) == {k \in eligible : FormatHeight(offer[k]) = FormatHeight(offer[j])}
    IN IF i = NoFormat THEN eligible = {}
       ELSE i \in eligible /\ Above(i) = {} /\ \A k \in Equal(i) : offer[i].tbr <= offer[k].tbr
=============================================================================
