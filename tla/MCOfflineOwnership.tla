--------------------------- MODULE MCOfflineOwnership ---------------------------
(***************************************************************************)
(* Small instances of the ownership of one video: one or two tabs, a file  *)
(* of one or two chunks.                                                   *)
(***************************************************************************)
EXTENDS OfflineOwnership

CONSTANTS t1, t2

S(T, n, w, r, e, f) ==
    [tabs |-> T, chunks |-> n, waiting |-> w, reloads |-> r, failures |-> e, freezing |-> f]

\* A tab alone, with everything that can happen to it, one whose storage
\* fails, and two that meet over a file of one chunk.
MCScenarios ==
    { S({t1}, 2, 3, 2, 0, TRUE), S({t1}, 2, 2, 1, 3, FALSE), S({t1, t2}, 1, 1, 1, 0, FALSE),
      S({t1, t2}, 1, 0, 1, 1, FALSE) }

MCTwoTabs == { S({t1, t2}, 2, 1, 0, 0, FALSE) }
=============================================================================
