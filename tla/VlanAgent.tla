----------------------------- MODULE VlanAgent -----------------------------
(***************************************************************************)
(* The VLAN columns of a switch's SNMP agent, as the virtual switch keeps  *)
(* them (virtual/state.py, VirtualSwitchState) and as the library's        *)
(* writers meet them.                                                      *)
(*                                                                         *)
(* There are two families of agent.  On most models the Q-BRIDGE PortLists *)
(* are the configuration: a SET of a VLAN's egress or untagged PortList    *)
(* replaces it.  On a FASTPATH 12.x model (SwitchportModel) membership is  *)
(* derived, port by port, from the vendor switchport columns (mode, access *)
(* VLAN, native VLAN, allowed VLANs), and the PortLists are a mirror.      *)
(*                                                                         *)
(* The state is one record, and every column a SET may name has an         *)
(* operator that returns the record after the SET; a column that the agent *)
(* can refuse also has a predicate that says when it accepts.  A VLAN      *)
(* bitmap is the set of VLANs it names and a PortList the set of ports;    *)
(* Port includes the LAG pseudo-ports that a real PortList carries, and    *)
(* Physical is the ports whose ifType is that of an Ethernet port.         *)
(***************************************************************************)
CONSTANTS
    Port,             \* bridge ports with a bit in a PortList, LAGs included
    Physical,         \* the ports that are physical interfaces
    Vlan,             \* VLAN ids in use in the instance
    Name,             \* VLAN names
    NoName,           \* the empty name a row has right after createAndGo
    DefaultVlan,      \* _DEFAULT_VLAN, VLAN 1
    SwitchportModel,  \* snmp_vlan_write = "fastpath_switchport"
    AutoUntag,        \* an egress write makes the added ports untagged (S3300)
    CanCreateVlan,    \* snmp_can_create_vlan
    Seeds             \* the states the switch can be found in

Mode == {"access", "trunk", "general"}

AgentState ==
    [vlans     : SUBSET Vlan,          \* VLANs that exist
     static    : SUBSET Vlan,          \* those with a dot1qVlanStaticTable row
     name      : [Vlan -> Name],
     egress    : [Vlan -> SUBSET Port],
     untagged  : [Vlan -> SUBSET Port],
     pvid      : [Port -> Vlan],
     mode      : [Port -> Mode],
     access    : [Port -> Vlan],
     native    : [Port -> Vlan],
     allowed   : [Port -> SUBSET Vlan],
     generalU  : [Port -> SUBSET Vlan],
     generalT  : [Port -> SUBSET Vlan]]

(***************************************************************************)
(* What a port's switchport columns say it is a member of.                 *)
(***************************************************************************)
DerivedUntagged(s, p) ==
    CASE s.mode[p] = "access"  -> {s.access[p]}
      [] s.mode[p] = "trunk"   -> {s.native[p]}
      [] OTHER                 -> s.generalU[p]

DerivedTagged(s, p) ==
    CASE s.mode[p] = "access"  -> {}
      [] s.mode[p] = "trunk"   -> (s.allowed[p] \cap s.vlans) \ {s.native[p]}
      [] OTHER                 -> s.generalT[p] \ s.generalU[p]

DerivedPvid(s, p) ==
    CASE s.mode[p] = "access"  -> s.access[p]
      [] s.mode[p] = "trunk"   -> s.native[p]
      [] OTHER                 -> s.pvid[p]

\* Recompute the membership of the ports in P, in every VLAN that exists.
ApplySwitchport(s, P) ==
    [s EXCEPT
       !.egress = [v \in Vlan |->
           IF v \in s.vlans
           THEN (@[v] \ P) \cup {p \in P : v \in DerivedUntagged(s, p)
                                               \cup DerivedTagged(s, p)}
           ELSE @[v]],
       !.untagged = [v \in Vlan |->
           IF v \in s.vlans
           THEN (@[v] \ P) \cup {p \in P : v \in DerivedUntagged(s, p)}
           ELSE @[v]],
       !.pvid = [p \in Port |-> IF p \in P THEN DerivedPvid(s, p) ELSE @[p]]]

\* The configuration and the membership tables tell the same story about
\* every physical port.
Coherent(s) ==
    \A p \in Physical, v \in s.vlans :
        /\ p \in s.untagged[v] <=> v \in DerivedUntagged(s, p)
        /\ p \in s.egress[v] <=> v \in DerivedUntagged(s, p) \cup DerivedTagged(s, p)

\* A static row belongs to an existing VLAN, and a VLAN that does not exist
\* has no members.
WellFormed(s) ==
    /\ s \in AgentState
    /\ s.static \subseteq s.vlans
    /\ \A v \in Vlan \ s.vlans : s.egress[v] = {} /\ s.untagged[v] = {}

ASSUME VlanAgentAssumption ==
    /\ Physical \subseteq Port
    /\ NoName \in Name
    /\ DefaultVlan \in Vlan
    /\ {SwitchportModel, AutoUntag, CanCreateVlan} \subseteq BOOLEAN

ASSUME SeedsAssumption ==
    \A s \in Seeds :
        /\ WellFormed(s)
        /\ DefaultVlan \in s.vlans
        /\ \A v \in Vlan : s.untagged[v] \subseteq s.egress[v]
        /\ SwitchportModel => Coherent(s)

-----------------------------------------------------------------------------
(***************************************************************************)
(* The vendor switchport columns (2, 3, 4 and 6).                          *)
(***************************************************************************)
WriteMode(s, p, m)        == ApplySwitchport([s EXCEPT !.mode[p] = m], {p})
WriteAccessVlan(s, p, v)  == ApplySwitchport([s EXCEPT !.access[p] = v], {p})

\* Bug: the list is stored and the membership is not recomputed.
AllowedOnly(s, p, V)      == [s EXCEPT !.allowed[p] = V]
WriteAllowed(s, p, V)     == ApplySwitchport([s EXCEPT !.allowed[p] = V], {p})

NativeAccepted(s, v)      == v \in s.vlans
WriteNative(s, p, v)      == ApplySwitchport([s EXCEPT !.native[p] = v], {p})

(***************************************************************************)
(* The Q-BRIDGE columns.  A SET of the egress PortList on a switchport     *)
(* model is refused while any port is in access mode, and is otherwise     *)
(* folded back into the switchport columns of every port.  A SET on a row  *)
(* that does not exist is acknowledged and does nothing.                   *)
(***************************************************************************)
EgressAccepted(s, v) ==
    (SwitchportModel /\ v \in s.vlans) => \A p \in Physical : s.mode[p] # "access"

Toggle(V, v, on) == IF on THEN V \cup {v} ELSE V \ {v}

ReconcileQbridge(s, v, ports) ==
    LET In(m) == {p \in Physical : s.mode[p] = m}
    IN  ApplySwitchport(
          [s EXCEPT
             !.allowed  = [p \in Port |-> IF p \in In("trunk")
                                          THEN Toggle(@[p], v, p \in ports) ELSE @[p]],
             !.generalU = [p \in Port |-> IF p \in In("general")
                                          THEN Toggle(@[p], v, p \in ports) ELSE @[p]],
             !.generalT = [p \in Port |-> IF p \in In("general") \ ports
                                          THEN @[p] \ {v} ELSE @[p]]],
          Physical)

WriteEgress(s, v, ports) ==
    IF v \notin s.vlans THEN s
    ELSE IF SwitchportModel THEN ReconcileQbridge(s, v, ports)
    ELSE [s EXCEPT !.egress[v] = ports,
                   !.untagged[v] = IF AutoUntag THEN @ \cup (ports \ s.egress[v])
                                                ELSE @]

\* samePdu: the PDU has already written this VLAN's egress PortList.
WriteUntagged(s, v, ports, samePdu) ==
    IF v \notin s.vlans \/ SwitchportModel \/ (AutoUntag /\ samePdu) THEN s
    ELSE [s EXCEPT !.untagged[v] = ports]

\* One PDU that carries both PortLists.
WriteMembership(s, v, egress, untagged) ==
    WriteUntagged(WriteEgress(s, v, egress), v, untagged, TRUE)

WritePvid(s, p, v) == [s EXCEPT !.pvid[p] = v]

\* One PDU: dot1qVlanStaticRowStatus := createAndGo and the row's name.
CreateAccepted(s, v) == v \in s.vlans \/ CanCreateVlan

CreateRow(s, v, n) ==
    [s EXCEPT !.vlans = @ \cup {v},
              !.static = IF v \in s.vlans THEN @ ELSE @ \cup {v},
              !.name[v] = n]

\* Bug: the row goes, its PortLists stay.
DestroyRowOnly(s, v) == [s EXCEPT !.vlans = @ \ {v}, !.static = @ \ {v}]

\* dot1qVlanStaticRowStatus := destroy.  Nothing else that names the VLAN
\* (access, native, allowed, PVID) changes.
DestroyRow(s, v) ==
    [s EXCEPT !.vlans = @ \ {v}, !.static = @ \ {v}, !.name[v] = NoName,
              !.egress[v] = {}, !.untagged[v] = {}]

-----------------------------------------------------------------------------
(***************************************************************************)
(* The agent by itself: any manager may SET any column at any time.        *)
(***************************************************************************)
VARIABLE agent

AgentInit == agent \in Seeds

ManagerSetsMode == \E p \in Physical, m \in Mode : agent' = WriteMode(agent, p, m)

ManagerSetsAccessVlan ==
    \E p \in Physical, v \in Vlan : agent' = WriteAccessVlan(agent, p, v)

ManagerSetsNative ==
    \E p \in Physical, v \in Vlan :
        NativeAccepted(agent, v) /\ agent' = WriteNative(agent, p, v)

ManagerSetsAllowed ==
    \E p \in Physical, V \in SUBSET Vlan : agent' = WriteAllowed(agent, p, V)

ManagerSetsMembership ==
    \E v \in Vlan, e \in SUBSET Port, u \in SUBSET Port :
        EgressAccepted(agent, v) /\ agent' = WriteMembership(agent, v, e, u)

ManagerSetsUntagged ==
    \E v \in Vlan, u \in SUBSET Port : agent' = WriteUntagged(agent, v, u, FALSE)

ManagerSetsPvid == \E p \in Physical, v \in Vlan : agent' = WritePvid(agent, p, v)

ManagerCreatesVlan ==
    \E v \in Vlan, n \in Name :
        CreateAccepted(agent, v) /\ agent' = CreateRow(agent, v, n)

ManagerDestroysVlan == \E v \in Vlan : agent' = DestroyRow(agent, v)

AgentNext ==
    \/ ManagerSetsMode
    \/ ManagerSetsAccessVlan
    \/ ManagerSetsNative
    \/ ManagerSetsAllowed
    \/ ManagerSetsMembership
    \/ ManagerSetsUntagged
    \/ ManagerSetsPvid
    \/ ManagerCreatesVlan
    \/ ManagerDestroysVlan

AgentSpec == AgentInit /\ [][AgentNext]_agent

-----------------------------------------------------------------------------
(***************************************************************************)
(* Every SET of every column leaves the agent's record well formed.        *)
(***************************************************************************)
AgentTypeOK == WellFormed(agent)

(***************************************************************************)
(* The membership tables never drift from the switchport columns, whatever *)
(* mixture of vendor SETs, PortList SETs and row deletions reaches the     *)
(* agent (state.py _reconcile_qbridge_membership: keeping the columns in   *)
(* step "is what stops the mock drifting into a state no real switch can   *)
(* be in").                                                                *)
(***************************************************************************)
MembershipIsDerived == SwitchportModel => Coherent(agent)
=============================================================================
