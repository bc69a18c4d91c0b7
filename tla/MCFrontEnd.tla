----------------------------- MODULE MCFrontEnd -----------------------------
(***************************************************************************)
(* Every model, operation and backend once, from every front end; and two  *)
(* calls of one facade, in turn or at once, for a managed switch, a Plus   *)
(* switch and the XML interface.                                           *)
(***************************************************************************)
EXTENDS FrontEnd, TLC

MCModels  == Key
MCSeveral == {"gsm7252ps", "gs110emx", "gs728tpp"}
MCShared  == {"get_ports", "delete_vlan"}
MCPins    == {NONE, "http"}
Alike     == Permutations(Task)
=============================================================================
