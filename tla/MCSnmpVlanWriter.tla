-------------------------- MODULE MCSnmpVlanWriter --------------------------
(* Instances of SnmpVlanWriter: the switches the writers are pointed at.   *)
EXTENDS SnmpVlanWriter, TLC

CONSTANTS v1, v2, v3, p1, p2, lag, w1, w2, n1, n2

Blank ==
    [vlans |-> Vlan, static |-> Vlan, name |-> [v \in Vlan |-> NoName],
     egress |-> [v \in Vlan |-> {}], untagged |-> [v \in Vlan |-> {}],
     pvid |-> [p \in Port |-> v1], mode |-> [p \in Port |-> "access"],
     access |-> [p \in Port |-> v1], native |-> [p \in Port |-> v1],
     allowed |-> [p \in Port |-> Vlan], generalU |-> [p \in Port |-> {v1}],
     generalT |-> [p \in Port |-> {}]]

AllPorts == [w \in Writer |-> Physical]

\* p1 in every mode, with every native VLAN and allowed list, and a general
\* port that is untagged in two VLANs; p2 a factory-default access port.
EveryPort ==
    {ApplySwitchport(
       [Blank EXCEPT !.mode[p1] = m, !.access[p1] = x, !.native[p1] = x,
                     !.allowed[p1] = V, !.generalU[p1] = U], Physical) :
       m \in Mode, x \in Vlan, V \in SUBSET Vlan, U \in {{v1}, {v1, v2}}}

\* The same, on a switch where VLAN v3 is still to be created.
RoomForVlan ==
    {ApplySwitchport([s EXCEPT !.vlans = Vlan \ {v3}, !.static = Vlan \ {v3},
                               !.egress[v3] = {}, !.untagged[v3] = {}], Physical) :
       s \in {t \in EveryPort : t.access[p1] # v3}}

SwitchportSeeds == EveryPort \cup RoomForVlan

(***************************************************************************)
(* Q-BRIDGE switches: the PortLists themselves, with a LAG in them.        *)
(***************************************************************************)
Members3 == {m \in [e : SUBSET Port, u : SUBSET Port] : m.u \subseteq m.e}

\* v1 as any PortLists can have it, v2 with a LAG and an untagged port.
QbridgeSeeds ==
    {[Blank EXCEPT !.egress = (v1 :> m.e @@ v2 :> {p2, lag}),
                   !.untagged = (v1 :> m.u @@ v2 :> {p2})] : m \in Members3}

\* As on the GS728TPP: the default VLAN has no row in the static table.
NoStaticRowSeeds == {[s EXCEPT !.static = {v2}] : s \in QbridgeSeeds}

QbridgeUplinkSeeds ==
    {[Blank EXCEPT !.vlans = V, !.static = V,
                   !.egress = (v1 :> {p1, p2, lag} @@ v2 :> {}),
                   !.untagged = (v1 :> {p1} @@ v2 :> {})] : V \in {{v1}, {v1, v2}}}
=============================================================================
