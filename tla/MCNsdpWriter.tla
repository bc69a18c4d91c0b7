---------------------------- MODULE MCNsdpWriter ----------------------------
(* Instances of NsdpWriter: the VLAN tables the switch starts with.        *)
EXTENDS NsdpWriter, TLC

CONSTANTS v1, v2, p1, p2, w1, w2

Default == v1 :> [member |-> Port, tagged |-> {}]

\* v2 as not created, and as the VLAN of a tagged uplink p2.
MCTables == {Default, Default @@ v2 :> [member |-> {p2}, tagged |-> {p2}]}

Clients == Permutations(Writer)
=============================================================================
