-------------------------------- MODULE MCClient --------------------------------
(***************************************************************************)
(* The networking layer of the page and the player.  The player's requests *)
(* go through the layer, but share no state of it that its model keeps: a  *)
(* behaviour is one of one of the two, the other stays as it begins, where *)
(* nothing that is under fairness can happen.                              *)
(***************************************************************************)
EXTENDS ApiClient, VideoPlayer

\* Retry-After values within and above the budget of one unit.
MCAfter == 0 .. 2

VARIABLE part

clientVars == <<part, vars, playerVars>>

-----------------------------------------------------------------------------
ClientInit == part \in {"api", "player"} /\ Init /\ PlayerInit

ClientNext ==
    /\ UNCHANGED part
    /\ \/ part = "api" /\ Next /\ UNCHANGED playerVars
       \/ part = "player" /\ PlayerNext /\ UNCHANGED vars

ClientSpec == ClientInit /\ [][ClientNext]_clientVars /\ Fairness /\ PlayerFairness
=============================================================================
