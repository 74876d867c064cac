----------------------------- MODULE MCBoardApi -----------------------------
(***************************************************************************)
(* Instances of BoardApi for TLC.                                          *)
(***************************************************************************)
EXTENDS BoardApi, TLC

\* Clients differ in nothing but their requests.
ClientSymmetry == Permutations(Client)
=============================================================================
