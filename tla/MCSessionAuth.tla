------------------------------ MODULE MCSessionAuth ------------------------------
(***************************************************************************)
(* The instance TLC checks: login and logout with the promises of the      *)
(* store beside those of the routes.                                       *)
(***************************************************************************)
EXTENDS SessionAuth, SessionStoreProps
=============================================================================
