------------------------------ MODULE MCYtDlpRunner ------------------------------
(***************************************************************************)
(* Small instances of the runner over the gate.                            *)
(***************************************************************************)
EXTENDS YtDlpRunner

\* One slot and one place in the queue.
MCOptions == {[activeLimit |-> 1, queueMax |-> 1]}
=============================================================================
