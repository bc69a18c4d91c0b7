------------------------ MODULE SnmpVlanWriterProofs ------------------------
(***************************************************************************)
(* What TLAPS proves of VlanAgent and of SnmpVlanWriter, for every switch, *)
(* every number of clients, ports and VLANs, and every bound.              *)
(*                                                                         *)
(* First the agent: every SET keeps its record well formed and, on a       *)
(* switchport model, keeps the membership tables equal to what the         *)
(* switchport columns say.  Then the writers.                              *)
(***************************************************************************)
EXTENDS SnmpVlanWriter, TLAPS

-----------------------------------------------------------------------------
(***************************************************************************)
(* Every write of the agent keeps its record well formed.                  *)
(***************************************************************************)
LEMMA ApplyWellFormed ==
    ASSUME NEW s, WellFormed(s), NEW P \in SUBSET Port
    PROVE  WellFormed(ApplySwitchport(s, P))
<1> DEFINE t == ApplySwitchport(s, P)
<1>1. /\ t.vlans = s.vlans /\ t.static = s.static /\ t.name = s.name
      /\ t.mode = s.mode /\ t.access = s.access /\ t.native = s.native
      /\ t.allowed = s.allowed /\ t.generalU = s.generalU /\ t.generalT = s.generalT
  BY DEF ApplySwitchport, WellFormed, AgentState
<1>2. t.egress \in [Vlan -> SUBSET Port] /\ t.untagged \in [Vlan -> SUBSET Port]
  BY DEF ApplySwitchport, WellFormed, AgentState
<1>3. \A p \in Port : DerivedPvid(s, p) \in Vlan
  BY DEF DerivedPvid, WellFormed, AgentState, Mode
<1>4. t.pvid \in [Port -> Vlan]
  BY <1>3 DEF ApplySwitchport, WellFormed, AgentState
<1>5. t \in AgentState
  BY <1>1, <1>2, <1>4 DEF ApplySwitchport, WellFormed, AgentState
<1>6. \A v \in Vlan \ t.vlans : t.egress[v] = {} /\ t.untagged[v] = {}
  BY <1>1 DEF ApplySwitchport, WellFormed, AgentState
<1> QED BY <1>1, <1>5, <1>6 DEF WellFormed

LEMMA SwitchportWellFormed ==
    ASSUME NEW s, WellFormed(s), NEW p \in Port, NEW v \in Vlan,
           NEW m \in Mode, NEW V \in SUBSET Vlan
    PROVE  /\ WellFormed(WriteMode(s, p, m))
           /\ WellFormed(WriteAccessVlan(s, p, v))
           /\ WellFormed(WriteNative(s, p, v))
           /\ WellFormed(WriteAllowed(s, p, V))
<1>0. {p} \in SUBSET Port
  OBVIOUS
<1>1. WellFormed([s EXCEPT !.mode[p] = m])
  BY DEF WellFormed, AgentState
<1>2. WellFormed([s EXCEPT !.access[p] = v])
  BY DEF WellFormed, AgentState
<1>3. WellFormed([s EXCEPT !.native[p] = v])
  BY DEF WellFormed, AgentState
<1>4. WellFormed([s EXCEPT !.allowed[p] = V])
  BY DEF WellFormed, AgentState
<1> QED
  BY <1>0, <1>1, <1>2, <1>3, <1>4, ApplyWellFormed
     DEF WriteMode, WriteAccessVlan, WriteNative, WriteAllowed

LEMMA ReconcileWellFormed ==
    ASSUME NEW s, WellFormed(s), NEW v \in Vlan, NEW ports \in SUBSET Port
    PROVE  WellFormed(ReconcileQbridge(s, v, ports))
<1> DEFINE In(m) == {p \in Physical : s.mode[p] = m}
           al == [p \in Port |-> IF p \in In("trunk")
                                 THEN Toggle(s.allowed[p], v, p \in ports) ELSE s.allowed[p]]
           gu == [p \in Port |-> IF p \in In("general")
                                 THEN Toggle(s.generalU[p], v, p \in ports) ELSE s.generalU[p]]
           gt == [p \in Port |-> IF p \in In("general") \ ports
                                 THEN s.generalT[p] \ {v} ELSE s.generalT[p]]
           t  == [s EXCEPT !.allowed = al, !.generalU = gu, !.generalT = gt]
<1>1. /\ al \in [Port -> SUBSET Vlan]
      /\ gu \in [Port -> SUBSET Vlan]
      /\ gt \in [Port -> SUBSET Vlan]
  BY DEF WellFormed, AgentState, Toggle
<1>2. WellFormed(t)
  <2> HIDE DEF al, gu, gt
  <2> QED BY <1>1 DEF WellFormed, AgentState
<1>3. Physical \in SUBSET Port
  BY VlanAgentAssumption
<1>4. ReconcileQbridge(s, v, ports) = ApplySwitchport(t, Physical)
  BY DEF ReconcileQbridge
<1> QED
  <2> HIDE DEF t
  <2> QED BY <1>2, <1>3, <1>4, ApplyWellFormed

LEMMA QbridgeWellFormed ==
    ASSUME NEW s, WellFormed(s), NEW v \in Vlan,
           NEW e \in SUBSET Port, NEW u \in SUBSET Port, NEW samePdu \in BOOLEAN
    PROVE  /\ WellFormed(WriteEgress(s, v, e))
           /\ WellFormed(WriteUntagged(s, v, u, samePdu))
           /\ WellFormed(WriteMembership(s, v, e, u))
<1>1. ASSUME NEW r, WellFormed(r), NEW b \in BOOLEAN
      PROVE  WellFormed(WriteUntagged(r, v, u, b))
  BY <1>1 DEF WriteUntagged, WellFormed, AgentState
<1>2. WellFormed(WriteEgress(s, v, e))
  <2>1. CASE v \notin s.vlans
    BY <2>1 DEF WriteEgress
  <2>2. CASE v \in s.vlans /\ SwitchportModel
    BY <2>2, ReconcileWellFormed DEF WriteEgress
  <2>3. CASE v \in s.vlans /\ ~SwitchportModel
    <3> DEFINE x  == IF AutoUntag THEN s.untagged[v] \cup (e \ s.egress[v]) ELSE s.untagged[v]
               eg == [s.egress EXCEPT ![v] = e]
               un == [s.untagged EXCEPT ![v] = x]
    <3>1. x \in SUBSET Port
      BY DEF WellFormed, AgentState
    <3>2. WriteEgress(s, v, e) = [s EXCEPT !.egress = eg, !.untagged = un]
      BY <2>3 DEF WriteEgress, WellFormed, AgentState
    <3> HIDE DEF x
    <3>3. eg \in [Vlan -> SUBSET Port] /\ un \in [Vlan -> SUBSET Port]
      BY <3>1 DEF WellFormed, AgentState
    <3>4. \A a \in Vlan \ s.vlans : eg[a] = {} /\ un[a] = {}
      BY <2>3 DEF WellFormed, AgentState
    <3> HIDE DEF eg, un
    <3> QED BY <3>2, <3>3, <3>4 DEF WellFormed, AgentState
  <2> QED BY <2>1, <2>2, <2>3
<1> QED BY <1>1, <1>2 DEF WriteMembership

LEMMA RowWellFormed ==
    ASSUME NEW s, WellFormed(s), NEW v \in Vlan, NEW n \in Name
    PROVE  /\ WellFormed(CreateRow(s, v, n))
           /\ WellFormed(DestroyRow(s, v))
           /\ \A p \in Port : WellFormed(WritePvid(s, p, v))
<1>1. WellFormed(CreateRow(s, v, n))
  BY DEF CreateRow, WellFormed, AgentState
<1>2. WellFormed(DestroyRow(s, v))
  BY VlanAgentAssumption DEF DestroyRow, WellFormed, AgentState
<1>3. \A p \in Port : WellFormed(WritePvid(s, p, v))
  BY DEF WritePvid, WellFormed, AgentState
<1> QED BY <1>1, <1>2, <1>3

(***************************************************************************)
(* What any manager writes, in any order and mixture, leaves the agent's   *)
(* record well formed: a static row belongs to an existing VLAN, and a     *)
(* VLAN that does not exist has no members (state.py, apply_write).        *)
(***************************************************************************)
THEOREM AgentTypeCorrect == AgentSpec => []AgentTypeOK
<1>1. AgentInit => AgentTypeOK
  BY SeedsAssumption DEF AgentInit, AgentTypeOK
<1>2. ASSUME AgentTypeOK, [AgentNext]_agent
      PROVE  AgentTypeOK'
  <2> WellFormed(agent)
    BY <1>2 DEF AgentTypeOK
  <2> USE VlanAgentAssumption
  <2>1. CASE ManagerSetsMode
    <3>1. PICK p \in Physical, m \in Mode : agent' = WriteMode(agent, p, m)
      BY <2>1 DEF ManagerSetsMode
    <3> QED BY <3>1, SwitchportWellFormed DEF AgentTypeOK
  <2>2. CASE ManagerSetsAccessVlan
    <3>1. PICK p \in Physical, v \in Vlan : agent' = WriteAccessVlan(agent, p, v)
      BY <2>2 DEF ManagerSetsAccessVlan
    <3> QED BY <3>1, SwitchportWellFormed DEF AgentTypeOK, Mode
  <2>3. CASE ManagerSetsNative
    <3>1. PICK p \in Physical, v \in Vlan : agent' = WriteNative(agent, p, v)
      BY <2>3 DEF ManagerSetsNative
    <3> QED BY <3>1, SwitchportWellFormed DEF AgentTypeOK, Mode
  <2>4. CASE ManagerSetsAllowed
    <3>1. PICK p \in Physical, V \in SUBSET Vlan : agent' = WriteAllowed(agent, p, V)
      BY <2>4 DEF ManagerSetsAllowed
    <3> QED BY <3>1, SwitchportWellFormed DEF AgentTypeOK, Mode
  <2>5. CASE ManagerSetsMembership \/ ManagerSetsUntagged
    BY <2>5, QbridgeWellFormed
       DEF ManagerSetsMembership, ManagerSetsUntagged, AgentTypeOK
  <2>6. CASE ManagerSetsPvid
    BY <2>6, RowWellFormed DEF ManagerSetsPvid, AgentTypeOK
  <2>7. CASE ManagerCreatesVlan
    BY <2>7, RowWellFormed DEF ManagerCreatesVlan, AgentTypeOK
  <2>8. CASE ManagerDestroysVlan
    BY <2>8, RowWellFormed DEF ManagerDestroysVlan, AgentTypeOK
  <2>9. CASE UNCHANGED agent
    BY <2>9 DEF AgentTypeOK
  <2> QED
    BY <1>2, <2>1, <2>2, <2>3, <2>4, <2>5, <2>6, <2>7, <2>8, <2>9 DEF AgentNext
<1> QED BY <1>1, <1>2, PTL DEF AgentSpec

-----------------------------------------------------------------------------
(***************************************************************************)
(* The membership tables and the switchport columns.                       *)
(***************************************************************************)
\* The tables tell of port p what its columns say.
Agrees(s, p) ==
    \A v \in s.vlans :
        /\ p \in s.untagged[v] <=> v \in DerivedUntagged(s, p)
        /\ p \in s.egress[v] <=> v \in DerivedUntagged(s, p) \cup DerivedTagged(s, p)

LEMMA ApplyAgrees ==
    ASSUME NEW s, WellFormed(s), NEW P \in SUBSET Port,
           \A q \in Physical \ P : Agrees(s, q)
    PROVE  Coherent(ApplySwitchport(s, P))
<1> DEFINE t == ApplySwitchport(s, P)
<1>1. /\ t.vlans = s.vlans /\ t.mode = s.mode /\ t.access = s.access /\ t.native = s.native
      /\ t.allowed = s.allowed /\ t.generalU = s.generalU /\ t.generalT = s.generalT
  BY DEF ApplySwitchport, WellFormed, AgentState
<1>2. \A p : DerivedUntagged(t, p) = DerivedUntagged(s, p)
  <2> SUFFICES ASSUME NEW p, t.mode[p] \notin {"access", "trunk"}
               PROVE  DerivedUntagged(t, p) = DerivedUntagged(s, p)
    BY <1>1 DEF DerivedUntagged
  <2>1. /\ DerivedUntagged(t, p) = t.generalU[p]
        /\ DerivedUntagged(s, p) = s.generalU[p]
    BY <1>1 DEF DerivedUntagged
  <2> QED BY <1>1, <2>1
<1>3. \A p : DerivedTagged(t, p) = DerivedTagged(s, p)
  BY <1>1 DEF DerivedTagged
<1>4. \A v \in s.vlans :
        /\ t.egress[v] = (s.egress[v] \ P) \cup
              {p \in P : v \in DerivedUntagged(s, p) \cup DerivedTagged(s, p)}
        /\ t.untagged[v] = (s.untagged[v] \ P) \cup {p \in P : v \in DerivedUntagged(s, p)}
  BY DEF ApplySwitchport, WellFormed, AgentState
<1> HIDE DEF t
<1>5. ASSUME NEW p \in Physical, NEW v \in t.vlans
      PROVE  /\ p \in t.untagged[v] <=> v \in DerivedUntagged(t, p)
             /\ p \in t.egress[v] <=> v \in DerivedUntagged(t, p) \cup DerivedTagged(t, p)
  <2>1. CASE p \in P
    BY <1>1, <1>2, <1>3, <1>4, <1>5, <2>1
  <2>2. CASE p \notin P
    BY <1>1, <1>2, <1>3, <1>4, <1>5, <2>2 DEF Agrees
  <2> QED BY <2>1, <2>2
<1>6. Coherent(t)
  BY <1>5 DEF Coherent
<1> QED BY <1>6 DEF t

LEMMA SwitchportAgrees ==
    ASSUME NEW s, WellFormed(s), Coherent(s), NEW p \in Port, NEW v \in Vlan,
           NEW m \in Mode, NEW V \in SUBSET Vlan
    PROVE  /\ Coherent(WriteMode(s, p, m))
           /\ Coherent(WriteAccessVlan(s, p, v))
           /\ Coherent(WriteNative(s, p, v))
           /\ Coherent(WriteAllowed(s, p, V))
<1>1. ASSUME NEW t, WellFormed(t),
             /\ t.vlans = s.vlans /\ t.egress = s.egress /\ t.untagged = s.untagged
             /\ t.generalU = s.generalU /\ t.generalT = s.generalT,
             \A q \in Physical \ {p} :
                /\ t.mode[q] = s.mode[q] /\ t.access[q] = s.access[q]
                /\ t.native[q] = s.native[q] /\ t.allowed[q] = s.allowed[q]
      PROVE  Coherent(ApplySwitchport(t, {p}))
  <2>1. ASSUME NEW q \in Physical \ {p}
        PROVE  Agrees(t, q)
    <3>1. DerivedUntagged(t, q) = DerivedUntagged(s, q)
      <4>1. CASE s.mode[q] \in {"access", "trunk"}
        BY <1>1, <2>1, <4>1 DEF DerivedUntagged
      <4>2. CASE s.mode[q] \notin {"access", "trunk"}
        <5>1. DerivedUntagged(t, q) = t.generalU[q] /\ DerivedUntagged(s, q) = s.generalU[q]
          BY <1>1, <2>1, <4>2 DEF DerivedUntagged
        <5> QED BY <1>1, <5>1
      <4> QED BY <4>1, <4>2
    <3>2. DerivedTagged(t, q) = DerivedTagged(s, q)
      BY <1>1, <2>1 DEF DerivedTagged
    <3> QED BY <1>1, <2>1, <3>1, <3>2 DEF Agrees, Coherent
  <2> QED BY <1>1, <2>1, ApplyAgrees
<1>2. Coherent(WriteMode(s, p, m))
  <2> DEFINE t == [s EXCEPT !.mode[p] = m]
  <2>1. WellFormed(t)
    BY DEF WellFormed, AgentState
  <2>2. /\ t.vlans = s.vlans /\ t.egress = s.egress /\ t.untagged = s.untagged
        /\ t.generalU = s.generalU /\ t.generalT = s.generalT
        /\ \A q \in Physical \ {p} :
                /\ t.mode[q] = s.mode[q] /\ t.access[q] = s.access[q]
                /\ t.native[q] = s.native[q] /\ t.allowed[q] = s.allowed[q]
    BY DEF WellFormed, AgentState
  <2> HIDE DEF t
  <2>3. Coherent(ApplySwitchport(t, {p}))
    BY <1>1, <2>1, <2>2
  <2> QED BY <2>3 DEF WriteMode, t
<1>3. Coherent(WriteAccessVlan(s, p, v))
  <2> DEFINE t == [s EXCEPT !.access[p] = v]
  <2>1. WellFormed(t)
    BY DEF WellFormed, AgentState
  <2>2. /\ t.vlans = s.vlans /\ t.egress = s.egress /\ t.untagged = s.untagged
        /\ t.generalU = s.generalU /\ t.generalT = s.generalT
        /\ \A q \in Physical \ {p} :
                /\ t.mode[q] = s.mode[q] /\ t.access[q] = s.access[q]
                /\ t.native[q] = s.native[q] /\ t.allowed[q] = s.allowed[q]
    BY DEF WellFormed, AgentState
  <2> HIDE DEF t
  <2>3. Coherent(ApplySwitchport(t, {p}))
    BY <1>1, <2>1, <2>2
  <2> QED BY <2>3 DEF WriteAccessVlan, t
<1>4. Coherent(WriteNative(s, p, v))
  <2> DEFINE t == [s EXCEPT !.native[p] = v]
  <2>1. WellFormed(t)
    BY DEF WellFormed, AgentState
  <2>2. /\ t.vlans = s.vlans /\ t.egress = s.egress /\ t.untagged = s.untagged
        /\ t.generalU = s.generalU /\ t.generalT = s.generalT
        /\ \A q \in Physical \ {p} :
                /\ t.mode[q] = s.mode[q] /\ t.access[q] = s.access[q]
                /\ t.native[q] = s.native[q] /\ t.allowed[q] = s.allowed[q]
    BY DEF WellFormed, AgentState
  <2> HIDE DEF t
  <2>3. Coherent(ApplySwitchport(t, {p}))
    BY <1>1, <2>1, <2>2
  <2> QED BY <2>3 DEF WriteNative, t
<1>5. Coherent(WriteAllowed(s, p, V))
  <2> DEFINE t == [s EXCEPT !.allowed[p] = V]
  <2>1. WellFormed(t)
    BY DEF WellFormed, AgentState
  <2>2. /\ t.vlans = s.vlans /\ t.egress = s.egress /\ t.untagged = s.untagged
        /\ t.generalU = s.generalU /\ t.generalT = s.generalT
        /\ \A q \in Physical \ {p} :
                /\ t.mode[q] = s.mode[q] /\ t.access[q] = s.access[q]
                /\ t.native[q] = s.native[q] /\ t.allowed[q] = s.allowed[q]
    BY DEF WellFormed, AgentState
  <2> HIDE DEF t
  <2>3. Coherent(ApplySwitchport(t, {p}))
    BY <1>1, <2>1, <2>2
  <2> QED BY <2>3 DEF WriteAllowed, t
<1> QED BY <1>2, <1>3, <1>4, <1>5

LEMMA QbridgeAgrees ==
    ASSUME NEW s, WellFormed(s), Coherent(s), SwitchportModel, NEW v \in Vlan,
           NEW e \in SUBSET Port, NEW u \in SUBSET Port, NEW samePdu \in BOOLEAN
    PROVE  /\ Coherent(WriteEgress(s, v, e))
           /\ Coherent(WriteUntagged(s, v, u, samePdu))
           /\ Coherent(WriteMembership(s, v, e, u))
<1>1. \A t, b : WriteUntagged(t, v, u, b) = t
  BY DEF WriteUntagged
<1>2. Coherent(WriteEgress(s, v, e))
  <2>1. CASE v \notin s.vlans
    BY <2>1 DEF WriteEgress
  <2>2. CASE v \in s.vlans
    <3> DEFINE In(m) == {p \in Physical : s.mode[p] = m}
               al == [p \in Port |-> IF p \in In("trunk")
                                     THEN Toggle(s.allowed[p], v, p \in e) ELSE s.allowed[p]]
               gu == [p \in Port |-> IF p \in In("general")
                                     THEN Toggle(s.generalU[p], v, p \in e) ELSE s.generalU[p]]
               gt == [p \in Port |-> IF p \in In("general") \ e
                                     THEN s.generalT[p] \ {v} ELSE s.generalT[p]]
               t  == [s EXCEPT !.allowed = al, !.generalU = gu, !.generalT = gt]
    <3>1. WriteEgress(s, v, e) = ApplySwitchport(t, Physical)
      BY <2>2 DEF WriteEgress, ReconcileQbridge, WellFormed, AgentState
    <3>2. /\ al \in [Port -> SUBSET Vlan] /\ gu \in [Port -> SUBSET Vlan]
          /\ gt \in [Port -> SUBSET Vlan]
      BY DEF Toggle, WellFormed, AgentState
    <3> HIDE DEF al, gu, gt
    <3>3. WellFormed(t)
      BY <3>2 DEF WellFormed, AgentState
    <3> HIDE DEF t
    <3>4. Coherent(ApplySwitchport(t, Physical))
      BY <3>3, ApplyAgrees, VlanAgentAssumption
    <3> QED BY <3>1, <3>4
  <2> QED BY <2>1, <2>2
<1> QED BY <1>1, <1>2 DEF WriteMembership

LEMMA RowAgrees ==
    ASSUME NEW s, WellFormed(s), Coherent(s), NEW v \in Vlan, NEW n \in Name
    PROVE  /\ v \in s.vlans => Coherent(CreateRow(s, v, n))
           /\ Coherent(DestroyRow(s, v))
           /\ \A p \in Port : Coherent(WritePvid(s, p, v))
<1>1. ASSUME NEW t,
             /\ t.vlans \subseteq s.vlans
             /\ t.mode = s.mode /\ t.access = s.access /\ t.native = s.native
             /\ t.allowed = s.allowed /\ t.generalU = s.generalU /\ t.generalT = s.generalT,
             \A a \in t.vlans : t.egress[a] = s.egress[a] /\ t.untagged[a] = s.untagged[a]
      PROVE  Coherent(t)
  <2>1. ASSUME NEW p \in Physical, NEW a \in t.vlans
        PROVE  /\ a \in DerivedUntagged(t, p) <=> a \in DerivedUntagged(s, p)
               /\ a \in DerivedTagged(t, p) <=> a \in DerivedTagged(s, p)
    <3>1. CASE s.mode[p] \in {"access", "trunk"}
      BY <1>1, <2>1, <3>1 DEF DerivedUntagged, DerivedTagged
    <3>2. CASE s.mode[p] \notin {"access", "trunk"}
      <4>1. /\ DerivedUntagged(t, p) = t.generalU[p] /\ DerivedUntagged(s, p) = s.generalU[p]
            /\ DerivedTagged(t, p) = t.generalT[p] \ t.generalU[p]
            /\ DerivedTagged(s, p) = s.generalT[p] \ s.generalU[p]
        BY <1>1, <3>2 DEF DerivedUntagged, DerivedTagged
      <4> QED BY <1>1, <4>1
    <3> QED BY <3>1, <3>2
  <2>2. ASSUME NEW p \in Physical, NEW a \in t.vlans
        PROVE  /\ p \in t.untagged[a] <=> a \in DerivedUntagged(t, p)
               /\ p \in t.egress[a] <=> a \in DerivedUntagged(t, p) \cup DerivedTagged(t, p)
    <3>1. /\ p \in s.untagged[a] <=> a \in DerivedUntagged(s, p)
          /\ p \in s.egress[a] <=> a \in DerivedUntagged(s, p) \cup DerivedTagged(s, p)
      BY <1>1, <2>2 DEF Coherent
    <3> QED BY <1>1, <2>1, <3>1
  <2> QED BY <2>2 DEF Coherent
<1>2. ASSUME v \in s.vlans
      PROVE  Coherent(CreateRow(s, v, n))
  <2> DEFINE t == CreateRow(s, v, n)
  <2>1. /\ t.vlans \subseteq s.vlans
        /\ t.mode = s.mode /\ t.access = s.access /\ t.native = s.native
        /\ t.allowed = s.allowed /\ t.generalU = s.generalU /\ t.generalT = s.generalT
        /\ t.egress = s.egress /\ t.untagged = s.untagged
    BY <1>2 DEF CreateRow, WellFormed, AgentState
  <2> HIDE DEF t
  <2>2. Coherent(t)
    BY <1>1, <2>1
  <2> QED BY <2>2 DEF t
<1>3. Coherent(DestroyRow(s, v))
  <2> DEFINE t == DestroyRow(s, v)
  <2>1. /\ t.vlans \subseteq s.vlans
        /\ t.mode = s.mode /\ t.access = s.access /\ t.native = s.native
        /\ t.allowed = s.allowed /\ t.generalU = s.generalU /\ t.generalT = s.generalT
        /\ \A a \in t.vlans : t.egress[a] = s.egress[a] /\ t.untagged[a] = s.untagged[a]
    BY DEF DestroyRow, WellFormed, AgentState
  <2> HIDE DEF t
  <2>2. Coherent(t)
    BY <1>1, <2>1
  <2> QED BY <2>2 DEF t
<1>4. ASSUME NEW p \in Port
      PROVE  Coherent(WritePvid(s, p, v))
  <2> DEFINE t == WritePvid(s, p, v)
  <2>1. /\ t.vlans \subseteq s.vlans
        /\ t.mode = s.mode /\ t.access = s.access /\ t.native = s.native
        /\ t.allowed = s.allowed /\ t.generalU = s.generalU /\ t.generalT = s.generalT
        /\ t.egress = s.egress /\ t.untagged = s.untagged
    BY DEF WritePvid, WellFormed, AgentState
  <2> HIDE DEF t
  <2>2. Coherent(t)
    BY <1>1, <2>1
  <2> QED BY <2>2 DEF t
<1> QED BY <1>2, <1>3, <1>4

(***************************************************************************)
(* The membership tables of a switchport model never drift from its        *)
(* columns, whatever mixture of vendor SETs, PortList SETs, renames and    *)
(* deletions reaches it (state.py, _reconcile_qbridge_membership), as long *)
(* as no VLAN comes into being: a new row starts empty, although ports may *)
(* still name its VLAN.                                                    *)
(***************************************************************************)
THEOREM MembershipFollowsColumns ==
    AgentSpec /\ [][agent'.vlans \subseteq agent.vlans]_agent => []MembershipIsDerived
<1>1. AgentInit => MembershipIsDerived
  BY SeedsAssumption DEF AgentInit, MembershipIsDerived
<1>2. ASSUME AgentTypeOK, MembershipIsDerived, [AgentNext]_agent,
             [agent'.vlans \subseteq agent.vlans]_agent
      PROVE  MembershipIsDerived'
  <2> SUFFICES ASSUME SwitchportModel
               PROVE  Coherent(agent)'
    BY DEF MembershipIsDerived
  <2> WellFormed(agent) /\ Coherent(agent)
    BY <1>2 DEF AgentTypeOK, MembershipIsDerived
  <2> USE VlanAgentAssumption
  <2>1. CASE ManagerSetsMode
    <3>1. PICK p \in Physical, m \in Mode : agent' = WriteMode(agent, p, m)
      BY <2>1 DEF ManagerSetsMode
    <3> QED BY <3>1, SwitchportAgrees
  <2>2. CASE ManagerSetsAccessVlan
    <3>1. PICK p \in Physical, v \in Vlan : agent' = WriteAccessVlan(agent, p, v)
      BY <2>2 DEF ManagerSetsAccessVlan
    <3> QED BY <3>1, SwitchportAgrees DEF Mode
  <2>3. CASE ManagerSetsNative
    <3>1. PICK p \in Physical, v \in Vlan : agent' = WriteNative(agent, p, v)
      BY <2>3 DEF ManagerSetsNative
    <3> QED BY <3>1, SwitchportAgrees DEF Mode
  <2>4. CASE ManagerSetsAllowed
    <3>1. PICK p \in Physical, V \in SUBSET Vlan : agent' = WriteAllowed(agent, p, V)
      BY <2>4 DEF ManagerSetsAllowed
    <3> QED BY <3>1, SwitchportAgrees DEF Mode
  <2>5. CASE ManagerSetsMembership \/ ManagerSetsUntagged
    BY <2>5, QbridgeAgrees DEF ManagerSetsMembership, ManagerSetsUntagged
  <2>6. CASE ManagerSetsPvid
    BY <2>6, RowAgrees DEF ManagerSetsPvid
  <2>7. CASE ManagerCreatesVlan
    <3>1. PICK v \in Vlan, n \in Name : agent' = CreateRow(agent, v, n)
      BY <2>7 DEF ManagerCreatesVlan
    <3>2. v \in agent.vlans
      <4>1. agent \in AgentState
        BY DEF WellFormed
      <4>2. CreateRow(agent, v, n).vlans = agent.vlans \cup {v}
        BY <4>1 DEF CreateRow, AgentState
      <4>3. agent'.vlans \subseteq agent.vlans
        BY <1>2
      <4> QED BY <3>1, <4>2, <4>3
    <3> QED BY <3>1, <3>2, RowAgrees
  <2>8. CASE ManagerDestroysVlan
    BY <2>8, RowAgrees DEF ManagerDestroysVlan
  <2>9. CASE UNCHANGED agent
    BY <2>9
  <2> QED
    BY <1>2, <2>1, <2>2, <2>3, <2>4, <2>5, <2>6, <2>7, <2>8, <2>9 DEF AgentNext
<1> QED BY <1>1, <1>2, AgentTypeCorrect, PTL DEF AgentSpec

-----------------------------------------------------------------------------
(***************************************************************************)
(* The values the writers compute have their types.                        *)
(***************************************************************************)
LEMMA ViewTypes ==
    ASSUME NEW vw \in View, NEW v \in Vlan
    PROVE  /\ Present(vw) \subseteq Vlan
           /\ Members(vw, v) \subseteq Port
           /\ UntaggedPorts(vw, v) \subseteq Port
BY DEF View, Present, Members, UntaggedPorts

LEMMA NothingTypes ==
    NoView \in View /\ NoPlan \in Plan /\ NoBits \in Bits /\ NoCall \in Operation
<1>1. NoView \in View
  BY VlanAgentAssumption DEF NoView, View
<1>2. NoPlan \in Plan
  BY VlanAgentAssumption DEF NoPlan, Plan
<1>3. NoBits \in Bits
  BY DEF NoBits, Bits
<1>4. NoCall \in Operation
  <2>1. PICK p \in Physical : TRUE
    BY WriterAssumption
  <2>2. [kind |-> "pvid", vlan |-> DefaultVlan, port |-> p, mode |-> "tagged",
         name |-> NoName, force |-> FALSE] \in Operation
    BY VlanAgentAssumption DEF Operation, Kinds, VlanMode
  <2> QED BY <2>2 DEF NoCall
<1> QED BY <1>1, <1>2, <1>3, <1>4

LEMMA PlanType ==
    ASSUME NEW o \in Operation, NEW m, NEW A \in SUBSET Vlan,
           NEW t \in SUBSET Vlan, NEW u \in SUBSET Vlan, NEW X \in SUBSET Vlan
    PROVE  MakePlan(o, m, A, t, u, X) \in Plan
<1> DEFINE wt   == WantTagged(o, t)
           wu   == WantUntagged(o, u)
           home == IF wu = {} THEN DefaultVlan ELSE CHOOSE v \in wu : TRUE
<1>1. wt \in SUBSET Vlan /\ wu \in SUBSET Vlan
  BY DEF WantTagged, WantUntagged, Operation
<1>2. home \in Vlan
  <2> HIDE DEF wu
  <2> QED BY <1>1, VlanAgentAssumption
<1> HIDE DEF wt, wu, home
<1>3. MakePlan(o, m, A, t, u, X) =
        [made |-> TRUE, wasTagged |-> t, wasUntagged |-> u, tagged |-> wt, untagged |-> home,
         allowed |-> IF m = "trunk" THEN (A \cup (wt \cup {home})) \ (X \ (wt \cup {home}))
                                    ELSE wt \cup {home}]
  BY DEF MakePlan, wt, wu, home
<1> QED BY <1>1, <1>2, <1>3 DEF Plan

LEMMA CallTypes ==
    ASSUME NEW w \in Writer, NEW o \in Calls(w)
    PROVE  o \in Operation /\ o.force \in Forces \cup {FALSE}
<1>1. (CHOOSE p \in Physical : TRUE) \in Physical
  BY WriterAssumption
<1>2. PortsOf[w] \subseteq Physical
  BY WriterAssumption
<1> DEFINE Call(kind, port, mode, name, force) ==
             [kind : {kind} \cap Kind, vlan : Vlan, port : port, mode : mode,
              name : name, force : force]
           any == {CHOOSE p \in Physical : TRUE}
<1>3. ASSUME NEW kind, NEW P \in SUBSET Physical, NEW M \in SUBSET VlanMode,
             NEW N \in SUBSET Name, NEW F \in SUBSET BOOLEAN,
             o \in Call(kind, P, M, N, F)
      PROVE  o \in Operation /\ o.force \in F
  BY <1>3, WriterAssumption DEF Operation
<1>4. {"tagged"} \in SUBSET VlanMode /\ {NoName} \in SUBSET Name /\ any \in SUBSET Physical
      /\ {FALSE} \in SUBSET BOOLEAN /\ Forces \in SUBSET BOOLEAN
  BY <1>1, VlanAgentAssumption, WriterAssumption DEF VlanMode
<1>5. \/ o \in Call("membership", PortsOf[w], VlanMode, {NoName}, Forces)
      \/ o \in Call("pvid", PortsOf[w], {"tagged"}, {NoName}, Forces)
      \/ o \in Call("delete", any, {"tagged"}, {NoName}, Forces)
      \/ o \in Call("create", any, {"tagged"}, Name, {FALSE})
  BY DEF Calls
<1> HIDE DEF Call, any
<1> QED BY <1>2, <1>3, <1>4, <1>5

-----------------------------------------------------------------------------
(***************************************************************************)
(* The three ways in which a step moves a writer on keep the types.        *)
(***************************************************************************)
ControlOK ==
    /\ pc \in [Writer -> Pc]
    /\ phase \in [Writer -> {"before", "after"}]
    /\ tries \in [Writer -> 0..Retries]

LEMMA AdvanceTypes ==
    ASSUME ControlOK, NEW w \in Writer, NEW to \in Pc, Advance(w, to)
    PROVE  ControlOK'
BY WriterAssumption DEF ControlOK, Advance

LEMMA EndTypes ==
    ASSUME ControlOK, NEW w \in Writer, NEW how \in Ended, End(w, how),
           view \in [Writer -> View], bits \in [Writer -> Bits]
    PROVE  ControlOK' /\ view' \in [Writer -> View] /\ bits' \in [Writer -> Bits]
BY WriterAssumption, NothingTypes DEF ControlOK, End, Ended, Resting, Pc

LEMMA AgainTypes ==
    ASSUME ControlOK, NEW w \in Writer, tries[w] < Retries,
           tries' = [tries EXCEPT ![w] = @ + 1], UNCHANGED <<pc, phase>>
    PROVE  ControlOK'
BY WriterAssumption DEF ControlOK

LEMMA TransmitTypes ==
    ASSUME TypeOK, NEW w \in Writer, NEW at, NEW accepted \in BOOLEAN, NEW result,
           WellFormed(result), NEW next \in Pc,
           Transmit(w, at, accepted, result, next)
    PROVE  TypeOK'
<1> "failed" \in Ended
  BY DEF Ended
<1> ControlOK
  BY DEF TypeOK, ControlOK
<1>1. UNCHANGED <<op, seen, plan, started>>
  BY DEF Transmit
<1>2. AgentTypeOK' /\ lost' \in 0..MaxLoss
  BY WriterAssumption DEF Transmit, TypeOK, AgentTypeOK
<1>3. ControlOK' /\ view' \in [Writer -> View] /\ bits' \in [Writer -> Bits]
  <2>1. CASE Advance(w, next) /\ UNCHANGED <<view, bits>>
    BY <2>1, AdvanceTypes DEF TypeOK
  <2>2. CASE End(w, "failed")
    BY <2>2, EndTypes DEF TypeOK
  <2>3. CASE /\ tries[w] < Retries /\ tries' = [tries EXCEPT ![w] = @ + 1]
             /\ UNCHANGED <<pc, phase, view, bits>>
    BY <2>3, AgainTypes DEF TypeOK
  <2> QED BY <2>1, <2>2, <2>3 DEF Transmit
<1> QED BY <1>1, <1>2, <1>3 DEF TypeOK, ControlOK

-----------------------------------------------------------------------------
LEMMA VisibleTypes ==
    ASSUME NEW col \in [Vlan -> SUBSET Port], NEW rows \in SUBSET Vlan
    PROVE  Visible(col, rows) \in [Vlan -> SUBSET Port]
BY VlanAgentAssumption DEF Visible

\* A walk returns what the agent's columns hold.
LEMMA WalkTypes ==
    ASSUME TypeOK, NEW w \in Writer, NEW at, NEW next \in Pc, NEW result \in View,
           Walk(w, at, next, result)
    PROVE  TypeOK'
<1>1. ControlOK'
  BY AdvanceTypes DEF Walk, TypeOK, ControlOK
<1> QED BY <1>1 DEF Walk, TypeOK, ControlOK, AgentTypeOK

LEMMA ReadTypes ==
    ASSUME TypeOK, NEW w \in Writer, Read(w)
    PROVE  TypeOK'
<1> /\ agent \in AgentState /\ view[w] \in View /\ op[w] \in Operation
  BY DEF TypeOK, AgentTypeOK, WellFormed
<1> ControlOK
  BY DEF TypeOK, ControlOK
<1> "failed" \in Ended /\ "refused" \in Ended
  BY DEF Ended
<1>1. CASE GetVlans(w)
  <2>1. /\ Visible(agent.egress, agent.static) \in [Vlan -> SUBSET Port]
        /\ Visible(agent.untagged, agent.static) \in [Vlan -> SUBSET Port]
        /\ Visible(agent.egress, agent.vlans) \in [Vlan -> SUBSET Port]
        /\ Visible(agent.untagged, agent.vlans) \in [Vlan -> SUBSET Port]
    BY VisibleTypes DEF AgentState
  <2>2. CASE WalkName(w)
    <3>1. [view[w] EXCEPT !.rows = agent.static, !.name = agent.name] \in View
      BY DEF View, AgentState
    <3>2. "egress" \in Pc
      BY DEF Pc, Reads, Walks
    <3> QED BY <2>2, <3>1, <3>2, WalkTypes DEF WalkName
  <2>3. CASE WalkEgress(w)
    <3>1. [view[w] EXCEPT !.egress = Visible(agent.egress, agent.static)] \in View
      BY <2>1 DEF View
    <3>2. "untagged" \in Pc
      BY DEF Pc, Reads, Walks
    <3> QED BY <2>3, <3>1, <3>2, WalkTypes DEF WalkEgress
  <2>4. CASE WalkUntagged(w)
    <3>1. [view[w] EXCEPT !.untagged = Visible(agent.untagged, agent.static)] \in View
      BY <2>1 DEF View
    <3>2. "curEgress" \in Pc
      BY DEF Pc, Reads, Walks
    <3> QED BY <2>4, <3>1, <3>2, WalkTypes DEF WalkUntagged
  <2>5. CASE WalkCurrentEgress(w)
    <3>1. [view[w] EXCEPT !.current = agent.vlans,
                          !.curEgress = Visible(agent.egress, agent.vlans)] \in View
      BY <2>1 DEF View, AgentState
    <3>2. "curUntagged" \in Pc
      BY DEF Pc, Reads, Walks
    <3> QED BY <2>5, <3>1, <3>2, WalkTypes DEF WalkCurrentEgress
  <2>6. CASE WalkCurrentUntagged(w)
    <3>1. [view[w] EXCEPT !.curUntagged = Visible(agent.untagged, agent.vlans)] \in View
      BY <2>1 DEF View
    <3>2. (IF phase[w] = "before" THEN "decide" ELSE "verify") \in Pc
      BY DEF Pc
    <3> QED BY <2>6, <3>1, <3>2, WalkTypes DEF WalkCurrentUntagged
  <2> QED BY <1>1, <2>2, <2>3, <2>4, <2>5, <2>6 DEF GetVlans
<1>2. CASE GetMode(w)
  <2>1. ControlOK'
    BY <1>2, AdvanceTypes DEF GetMode, Pc, Reads
  <2>2. agent.mode[op[w].port] \in Mode
    BY VlanAgentAssumption, WriterAssumption DEF AgentState, Operation
  <2> QED BY <1>2, <2>1, <2>2 DEF GetMode, TypeOK, ControlOK, AgentTypeOK
<1>3. CASE GetAllowed(w)
  <2> DEFINE o  == op[w]
             t  == TaggedVlans(view[w], o.port)
             u  == UntaggedVlans(view[w], o.port)
             pl == MakePlan(o, seen[w], agent.allowed[o.port], t, u, Present(view[w]))
  <2>1. t \in SUBSET Vlan /\ u \in SUBSET Vlan /\ Present(view[w]) \in SUBSET Vlan
    BY DEF TaggedVlans, UntaggedVlans, Present, View
  <2>2. agent.allowed[o.port] \in SUBSET Vlan
    BY VlanAgentAssumption, WriterAssumption DEF AgentState, Operation
  <2>3. pl \in Plan
    BY <2>1, <2>2, PlanType
  <2> HIDE DEF t, u
  <2>4. CASE End(w, "refused") /\ UNCHANGED plan
    BY <1>3, <2>4, EndTypes DEF GetAllowed, TypeOK, ControlOK, AgentTypeOK
  <2>5. CASE /\ plan' = [plan EXCEPT ![w] = pl]
             /\ Advance(w, IF pl.tagged # {} THEN "setAllowed" ELSE "setAccess")
             /\ UNCHANGED <<view, bits>>
    <3> HIDE DEF pl
    <3>1. (IF pl.tagged # {} THEN "setAllowed" ELSE "setAccess") \in Pc
      BY DEF Pc, Sets
    <3>2. ControlOK'
      BY <2>5, <3>1, AdvanceTypes
    <3>3. plan' \in [Writer -> Plan]
      BY <2>3, <2>5 DEF TypeOK
    <3> QED BY <1>3, <2>5, <3>2, <3>3 DEF GetAllowed, TypeOK, ControlOK, AgentTypeOK
  <2> QED BY <1>3, <2>4, <2>5 DEF GetAllowed, t, u
<1>4. CASE RawEgress(w) \/ RawUntagged(w)
  <2>1. op[w].vlan \in Vlan /\ op[w].port \in Port
    BY VlanAgentAssumption, WriterAssumption DEF Operation
  <2>2. bits' \in [Writer -> Bits]
    <3>1. ASSUME NEW ports \in SUBSET Port, NEW on
          PROVE  SetPortBit(ports, op[w].port, on) \in SUBSET Port
      BY <2>1 DEF SetPortBit
    <3>2. ASSUME NEW ports \in SUBSET Port
          PROVE  /\ [bits EXCEPT ![w].egress = ports] \in [Writer -> Bits]
                 /\ [bits EXCEPT ![w].untagged = ports] \in [Writer -> Bits]
      BY DEF TypeOK, Bits
    <3>3. CASE RawEgress(w)
      <4> DEFINE raw == IF op[w].vlan \in agent.static THEN agent.egress[op[w].vlan]
                                                       ELSE Members(view[w], op[w].vlan)
      <4>1. raw \in SUBSET Port
        BY <2>1, ViewTypes DEF AgentState
      <4>2. bits' = [bits EXCEPT ![w].egress = SetPortBit(raw, op[w].port, InEgress(op[w]))]
        BY <3>3 DEF RawEgress
      <4> HIDE DEF raw
      <4> QED BY <3>1, <3>2, <4>1, <4>2
    <3>4. CASE RawUntagged(w)
      <4> DEFINE raw == IF op[w].vlan \in agent.static THEN agent.untagged[op[w].vlan]
                                                       ELSE UntaggedPorts(view[w], op[w].vlan)
      <4>1. raw \in SUBSET Port
        BY <2>1, ViewTypes DEF AgentState
      <4>2. bits' = [bits EXCEPT ![w].untagged = SetPortBit(raw, op[w].port, InUntagged(op[w]))]
        BY <3>4 DEF RawUntagged
      <4> HIDE DEF raw
      <4> QED BY <3>1, <3>2, <4>1, <4>2
    <3> QED BY <1>4, <3>3, <3>4
  <2>3. ControlOK'
    BY <1>4, AdvanceTypes DEF RawEgress, RawUntagged, Pc, Reads, Sets
  <2> QED BY <1>4, <2>2, <2>3 DEF RawEgress, RawUntagged, TypeOK, ControlOK, AgentTypeOK
<1>5. CASE ReadPvids(w)
  <2>1. ControlOK'
    BY <1>5, AdvanceTypes DEF ReadPvids, Pc, Sets
  <2> QED BY <1>5, <2>1 DEF ReadPvids, TypeOK, ControlOK, AgentTypeOK
<1>6. CASE LoseRead(w)
  <2>1. lost' \in 0..MaxLoss
    BY <1>6, WriterAssumption DEF LoseRead, TypeOK
  <2>2. ControlOK' /\ view' \in [Writer -> View] /\ bits' \in [Writer -> Bits]
    <3>1. CASE tries[w] < Retries
      BY <1>6, <3>1, AgainTypes DEF LoseRead, TypeOK
    <3>2. CASE ~(tries[w] < Retries)
      BY <1>6, <3>2, EndTypes DEF LoseRead, TypeOK
    <3> QED BY <3>1, <3>2
  <2> QED BY <1>6, <2>1, <2>2 DEF LoseRead, TypeOK, ControlOK, AgentTypeOK
<1> QED BY <1>1, <1>2, <1>3, <1>4, <1>5, <1>6 DEF Read

-----------------------------------------------------------------------------
LEMMA SetTypes ==
    ASSUME TypeOK, NEW w \in Writer, Set(w)
    PROVE  TypeOK'
<1> DEFINE o == op[w]
<1>1. /\ o \in Operation /\ plan[w] \in Plan /\ bits[w] \in Bits /\ WellFormed(agent)
  BY DEF TypeOK, AgentTypeOK
<1>2. o.vlan \in Vlan /\ o.port \in Port /\ o.name \in Name
  BY <1>1, VlanAgentAssumption, WriterAssumption DEF Operation
<1>3. /\ plan[w].untagged \in Vlan /\ plan[w].allowed \in SUBSET Vlan
      /\ bits[w].egress \in SUBSET Port /\ bits[w].untagged \in SUBSET Port
  BY <1>1 DEF Plan, Bits
<1>4. "access" \in Mode /\ "trunk" \in Mode
  BY DEF Mode
<1>5. {"setNative", "setTrunk", "setAccessMode", "setUntagged", "name", "verifyPvids"} \subseteq Pc
  BY DEF Pc, Reads, Walks, Sets
<1>6. CASE SetAllowed(w)
  <2>1. WellFormed(WriteAllowed(agent, o.port, plan[w].allowed))
    BY <1>1, <1>2, <1>3, <1>4, SwitchportWellFormed
  <2> QED BY <1>5, <1>6, <2>1, TransmitTypes DEF SetAllowed
<1>7. CASE SetNative(w)
  <2>1. WellFormed(WriteNative(agent, o.port, plan[w].untagged))
    BY <1>1, <1>2, <1>3, <1>4, SwitchportWellFormed
  <2>2. NativeAccepted(agent, plan[w].untagged) \in BOOLEAN
    BY DEF NativeAccepted
  <2> QED BY <1>5, <1>7, <2>1, <2>2, TransmitTypes DEF SetNative
<1>8. CASE SetTrunk(w)
  <2>1. WellFormed(WriteMode(agent, o.port, "trunk"))
    BY <1>1, <1>2, <1>3, <1>4, SwitchportWellFormed
  <2> QED BY <1>5, <1>8, <2>1, TransmitTypes DEF SetTrunk
<1>9. CASE SetAccess(w)
  <2>1. WellFormed(WriteAccessVlan(agent, o.port, plan[w].untagged))
    BY <1>1, <1>2, <1>3, <1>4, SwitchportWellFormed
  <2> QED BY <1>5, <1>9, <2>1, TransmitTypes DEF SetAccess
<1>10. CASE SetAccessMode(w)
  <2>1. WellFormed(WriteMode(agent, o.port, "access"))
    BY <1>1, <1>2, <1>3, <1>4, SwitchportWellFormed
  <2> QED BY <1>5, <1>10, <2>1, TransmitTypes DEF SetAccessMode
<1>11. EgressAccepted(agent, o.vlan) \in BOOLEAN
  BY DEF EgressAccepted
<1>12. CASE SetEgress(w)
  <2>1. WellFormed(WriteEgress(agent, o.vlan, bits[w].egress))
    BY <1>1, <1>2, <1>3, QbridgeWellFormed
  <2> QED BY <1>5, <1>11, <1>12, <2>1, TransmitTypes DEF SetEgress
<1>13. CASE SetUntagged(w)
  <2>1. WellFormed(WriteUntagged(agent, o.vlan, bits[w].untagged, FALSE))
    BY <1>1, <1>2, <1>3, QbridgeWellFormed
  <2> QED BY <1>5, <1>13, <2>1, TransmitTypes DEF SetUntagged
<1>14. CASE SetBoth(w)
  <2>1. WellFormed(WriteMembership(agent, o.vlan, bits[w].egress, bits[w].untagged))
    BY <1>1, <1>2, <1>3, QbridgeWellFormed
  <2> QED BY <1>5, <1>11, <1>14, <2>1, TransmitTypes DEF SetBoth
<1>15. CASE SetCreate(w)
  <2>1. WellFormed(CreateRow(agent, o.vlan, o.name))
    BY <1>1, <1>2, RowWellFormed
  <2>2. CreateAccepted(agent, o.vlan) \in BOOLEAN
    BY VlanAgentAssumption DEF CreateAccepted
  <2> QED BY <1>5, <1>15, <2>1, <2>2, TransmitTypes DEF SetCreate
<1>16. CASE SetDestroy(w)
  <2>1. WellFormed(DestroyRow(agent, o.vlan))
    BY <1>1, <1>2, RowWellFormed
  <2> QED BY <1>5, <1>16, <2>1, TransmitTypes DEF SetDestroy
<1>17. CASE SetPvid(w)
  <2>1. WellFormed(WritePvid(agent, o.port, o.vlan))
    BY <1>1, <1>2, RowWellFormed
  <2> QED BY <1>5, <1>17, <2>1, TransmitTypes DEF SetPvid
<1> QED
  BY <1>6, <1>7, <1>8, <1>9, <1>10, <1>12, <1>13, <1>14, <1>15, <1>16, <1>17 DEF Set

LEMMA StepTypes ==
    ASSUME TypeOK, [Next]_vars
    PROVE  TypeOK'
<1> ControlOK
  BY DEF TypeOK, ControlOK
<1>1. ASSUME NEW w \in Writer, Invoke(w) PROVE TypeOK'
  <2>1. PICK o \in Calls(w) :
          /\ op' = [op EXCEPT ![w] = o]
          /\ pc' = [pc EXCEPT ![w] = IF GuardRaises(o) THEN "refused" ELSE "name"]
    BY <1>1 DEF Invoke
  <2>2. o \in Operation
    BY <2>1, CallTypes
  <2>3. pc' \in [Writer -> Pc] /\ op' \in [Writer -> Operation]
    BY <2>1, <2>2 DEF TypeOK, Pc, Resting, Ended, Reads, Walks
  <2>4. plan' \in [Writer -> Plan] /\ started' \in 0..MaxOps
    BY <1>1, NothingTypes, WriterAssumption DEF Invoke, TypeOK
  <2> QED BY <1>1, <2>3, <2>4 DEF Invoke, TypeOK, AgentTypeOK
<1>2. ASSUME NEW w \in Writer, Decide(w) PROVE TypeOK'
  <2>1. ControlOK' /\ view' \in [Writer -> View] /\ bits' \in [Writer -> Bits]
    <3>1. CASE End(w, "refused")
      BY <3>1, EndTypes DEF TypeOK, Ended
    <3>2. CASE Advance(w, FirstRequest(op[w])) /\ UNCHANGED <<view, bits>>
      <4>1. FirstRequest(op[w]) \in Pc
        BY DEF TypeOK, Operation, Kinds, FirstRequest, Pc, Reads, Sets
      <4> QED BY <3>2, <4>1, AdvanceTypes DEF TypeOK
    <3> QED BY <1>2, <3>1, <3>2 DEF Decide
  <2> QED BY <1>2, <2>1 DEF Decide, TypeOK, ControlOK, AgentTypeOK
<1>3. ASSUME NEW w \in Writer, Verify(w) \/ VerifyPvids(w) PROVE TypeOK'
  <2>1. PICK how \in Ended : End(w, how)
    BY <1>3 DEF Verify, VerifyPvids, Ended
  <2>2. ControlOK' /\ view' \in [Writer -> View] /\ bits' \in [Writer -> Bits]
    BY <2>1, EndTypes DEF TypeOK
  <2> QED BY <1>3, <2>2 DEF Verify, VerifyPvids, TypeOK, ControlOK, AgentTypeOK
<1>4. CASE UNCHANGED vars
  BY <1>4 DEF vars, TypeOK, AgentTypeOK
<1> QED BY <1>1, <1>2, <1>3, <1>4, ReadTypes, SetTypes DEF Next, Step

(***************************************************************************)
(* Type correctness: in particular, whatever is written, lost or sent      *)
(* again, a static row belongs to an existing VLAN and a VLAN that does    *)
(* not exist has no members (state.py, apply_write), for every switch.     *)
(***************************************************************************)
THEOREM TypeCorrect == Spec => []TypeOK
<1>1. Init => TypeOK
  <2> SUFFICES ASSUME Init PROVE TypeOK
    OBVIOUS
  <2>1. AgentTypeOK
    BY SeedsAssumption DEF Init, AgentInit, AgentTypeOK
  <2>2. pc \in [Writer -> Pc] /\ seen \in [Writer -> Mode]
    BY DEF Init, Pc, Resting, Mode
  <2>3. /\ op \in [Writer -> Operation] /\ view \in [Writer -> View]
        /\ plan \in [Writer -> Plan] /\ bits \in [Writer -> Bits]
    BY NothingTypes DEF Init
  <2>4. /\ phase \in [Writer -> {"before", "after"}] /\ tries \in [Writer -> 0..Retries]
        /\ lost \in 0..MaxLoss /\ started \in 0..MaxOps
    BY WriterAssumption DEF Init
  <2> QED BY <2>1, <2>2, <2>3, <2>4 DEF TypeOK
<1>2. TypeOK /\ [Next]_vars => TypeOK'
  BY StepTypes
<1> QED BY <1>1, <1>2, PTL DEF Spec

-----------------------------------------------------------------------------
(***************************************************************************)
(* The switchport columns under the writers.                               *)
(***************************************************************************)
LEMMA TransmitAgent ==
    ASSUME NEW w, NEW at, NEW accepted, NEW result, NEW next,
           Transmit(w, at, accepted, result, next)
    PROVE  agent' = agent \/ agent' = result
BY DEF Transmit

LEMMA OnlySetsWrite ==
    ASSUME [Next]_vars
    PROVE  UNCHANGED agent \/ \E w \in Writer : Set(w)
<1>1. ASSUME NEW w \in Writer, Invoke(w) \/ Decide(w) \/ Verify(w) \/ VerifyPvids(w)
      PROVE  UNCHANGED agent
  BY <1>1 DEF Invoke, Decide, Verify, VerifyPvids
<1>2. ASSUME NEW w \in Writer, Read(w)
      PROVE  UNCHANGED agent
  BY <1>2 DEF Read, GetVlans, WalkName, WalkEgress, WalkUntagged, WalkCurrentEgress,
       WalkCurrentUntagged, Walk, GetMode, GetAllowed, RawEgress, RawUntagged, ReadPvids,
       LoseRead
<1> QED BY <1>1, <1>2 DEF Next, Step, vars

LEMMA SetAgrees ==
    ASSUME TypeOK, SwitchportModel, Coherent(agent), NEW w \in Writer, Set(w),
           agent'.vlans \subseteq agent.vlans
    PROVE  Coherent(agent)'
<1> DEFINE o == op[w]
<1>1. /\ o \in Operation /\ plan[w] \in Plan /\ bits[w] \in Bits /\ WellFormed(agent)
  BY DEF TypeOK, AgentTypeOK
<1>2. o.vlan \in Vlan /\ o.port \in Port /\ o.name \in Name
  BY <1>1, VlanAgentAssumption, WriterAssumption DEF Operation
<1>3. /\ plan[w].untagged \in Vlan /\ plan[w].allowed \in SUBSET Vlan
      /\ bits[w].egress \in SUBSET Port /\ bits[w].untagged \in SUBSET Port
  BY <1>1 DEF Plan, Bits
<1>4. "access" \in Mode /\ "trunk" \in Mode
  BY DEF Mode
<1>5. CASE SetAllowed(w)
  BY <1>1, <1>2, <1>3, <1>4, <1>5, TransmitAgent, SwitchportAgrees DEF SetAllowed
<1>6. CASE SetNative(w)
  BY <1>1, <1>2, <1>3, <1>4, <1>6, TransmitAgent, SwitchportAgrees DEF SetNative
<1>7. CASE SetTrunk(w)
  BY <1>1, <1>2, <1>3, <1>4, <1>7, TransmitAgent, SwitchportAgrees DEF SetTrunk
<1>8. CASE SetAccess(w)
  BY <1>1, <1>2, <1>3, <1>4, <1>8, TransmitAgent, SwitchportAgrees DEF SetAccess
<1>9. CASE SetAccessMode(w)
  BY <1>1, <1>2, <1>3, <1>4, <1>9, TransmitAgent, SwitchportAgrees DEF SetAccessMode
<1>10. CASE SetEgress(w)
  BY <1>1, <1>2, <1>3, <1>10, TransmitAgent, QbridgeAgrees DEF SetEgress
<1>11. CASE SetUntagged(w)
  BY <1>1, <1>2, <1>3, <1>11, TransmitAgent, QbridgeAgrees DEF SetUntagged
<1>12. CASE SetBoth(w)
  BY <1>1, <1>2, <1>3, <1>12, TransmitAgent, QbridgeAgrees DEF SetBoth
<1>13. CASE SetCreate(w)
  <2>1. agent' = agent \/ agent' = CreateRow(agent, o.vlan, o.name)
    BY <1>13, TransmitAgent DEF SetCreate
  <2>2. CASE agent' = CreateRow(agent, o.vlan, o.name)
    <3>1. o.vlan \in agent.vlans
      BY <1>1, <1>2, <2>2 DEF CreateRow, WellFormed, AgentState
    <3> QED BY <1>1, <1>2, <2>2, <3>1, RowAgrees
  <2> QED BY <2>1, <2>2
<1>14. CASE SetDestroy(w)
  BY <1>1, <1>2, <1>14, TransmitAgent, RowAgrees DEF SetDestroy
<1>15. CASE SetPvid(w)
  BY <1>1, <1>2, <1>15, TransmitAgent, RowAgrees DEF SetPvid
<1> QED
  BY <1>5, <1>6, <1>7, <1>8, <1>9, <1>10, <1>11, <1>12, <1>13, <1>14, <1>15 DEF Set

(***************************************************************************)
(* Whatever the writers send, lose and send again to a switchport model,   *)
(* in whatever order, the membership they and everybody else read back is  *)
(* what the columns say, as long as no VLAN comes into being               *)
(* (_set_switchport_membership, apply_write).                              *)
(***************************************************************************)
THEOREM WritersKeepMembershipDerived ==
    Spec /\ [][agent'.vlans \subseteq agent.vlans]_vars => []MembershipIsDerived
<1>1. Init => MembershipIsDerived
  BY SeedsAssumption DEF Init, AgentInit, MembershipIsDerived
<1>2. ASSUME TypeOK, MembershipIsDerived, [Next]_vars,
             [agent'.vlans \subseteq agent.vlans]_vars
      PROVE  MembershipIsDerived'
  <2> SUFFICES ASSUME SwitchportModel
               PROVE  Coherent(agent)'
    BY DEF MembershipIsDerived
  <2> Coherent(agent)
    BY <1>2 DEF MembershipIsDerived
  <2>1. CASE UNCHANGED agent
    BY <2>1
  <2>2. ASSUME NEW w \in Writer, Set(w)
        PROVE  Coherent(agent)'
    <3>1. agent'.vlans \subseteq agent.vlans
      BY <1>2 DEF vars
    <3> QED BY <1>2, <2>2, <3>1, SetAgrees
  <2>3. UNCHANGED agent \/ \E w \in Writer : Set(w)
    BY <1>2, OnlySetsWrite
  <2> QED BY <2>1, <2>2, <2>3
<1> QED BY <1>1, <1>2, TypeCorrect, PTL DEF Spec

-----------------------------------------------------------------------------
(***************************************************************************)
(* The protected ports.  Kept says what every SET of a guarded call leaves *)
(* alone, and it is enough for what the other calls have read to stay true.*)
(***************************************************************************)
Kept(s, t) ==
    \A p \in Protected :
        /\ SameBits(s, t, p)
        /\ \A v \in Vlan : p \in s.egress[v] => (v \in s.static <=> v \in t.static)

LEMMA KeptCallSafe ==
    ASSUME NEW s, NEW t, Kept(s, t), NEW at, NEW o \in Operation, NEW vw, NEW b,
           CallSafe(s, at, o, vw, b), t.egress \in [Vlan -> SUBSET Port]
    PROVE  CallSafe(t, at, o, vw, b)
<1>1. \A p \in Protected, v \in Vlan :
        /\ p \in s.egress[v] <=> p \in t.egress[v]
        /\ p \in s.untagged[v] <=> p \in t.untagged[v]
        /\ p \in s.egress[v] => (v \in s.static <=> v \in t.static)
  BY DEF Kept, SameBits
<1>2. o.vlan \in Vlan
  BY DEF Operation
<1>3. SawNothingFalse(t, vw)
  BY <1>1 DEF CallSafe, SawNothingFalse
<1>4. SawAll(t, at, vw)
  BY <1>1 DEF CallSafe, SawAll
<1>5. BitsKept(t, at, o, b)
  BY <1>1, <1>2 DEF CallSafe, BitsKept
<1>6. at = "setDestroy" => t.egress[o.vlan] \cap Protected = {}
  BY <1>1, <1>2 DEF CallSafe
<1> QED BY <1>3, <1>4, <1>5, <1>6 DEF CallSafe

LEMMA ApplyKept ==
    ASSUME NEW s, WellFormed(s), NEW p \in Port \ Protected
    PROVE  Kept(s, ApplySwitchport(s, {p}))
<1> DEFINE t == ApplySwitchport(s, {p})
<1>1. t.static = s.static
  BY DEF ApplySwitchport, WellFormed, AgentState
<1>2. ASSUME NEW q \in Protected
      PROVE  SameBits(s, t, q)
  <2>1. q \in Port /\ q # p
    BY <1>2, VlanAgentAssumption, WriterAssumption
  <2>2. s.pvid[q] = t.pvid[q]
    BY <2>1 DEF ApplySwitchport, WellFormed, AgentState
  <2>3. ASSUME NEW v \in Vlan
        PROVE  /\ q \in s.egress[v] <=> q \in t.egress[v]
               /\ q \in s.untagged[v] <=> q \in t.untagged[v]
    BY <2>1 DEF ApplySwitchport, WellFormed, AgentState
  <2> QED BY <2>2, <2>3 DEF SameBits
<1> HIDE DEF t
<1> QED BY <1>1, <1>2 DEF Kept, t

LEMMA SwitchportKept ==
    ASSUME NEW s, WellFormed(s), NEW p \in Port \ Protected, NEW v \in Vlan,
           NEW m \in Mode, NEW V \in SUBSET Vlan
    PROVE  /\ Kept(s, WriteMode(s, p, m))
           /\ Kept(s, WriteAccessVlan(s, p, v))
           /\ Kept(s, WriteNative(s, p, v))
           /\ Kept(s, WriteAllowed(s, p, V))
<1>1. ASSUME NEW r, WellFormed(r), r.pvid = s.pvid, r.egress = s.egress,
             r.untagged = s.untagged, r.static = s.static
      PROVE  Kept(s, ApplySwitchport(r, {p}))
  BY <1>1, ApplyKept DEF Kept, SameBits
<1>2. Kept(s, WriteMode(s, p, m))
  <2> DEFINE r == [s EXCEPT !.mode[p] = m]
  <2>1. /\ WellFormed(r) /\ r.pvid = s.pvid /\ r.egress = s.egress
        /\ r.untagged = s.untagged /\ r.static = s.static
    BY DEF WellFormed, AgentState
  <2> HIDE DEF r
  <2> QED BY <1>1, <2>1 DEF WriteMode, r
<1>3. Kept(s, WriteAccessVlan(s, p, v))
  <2> DEFINE r == [s EXCEPT !.access[p] = v]
  <2>1. /\ WellFormed(r) /\ r.pvid = s.pvid /\ r.egress = s.egress
        /\ r.untagged = s.untagged /\ r.static = s.static
    BY DEF WellFormed, AgentState
  <2> HIDE DEF r
  <2> QED BY <1>1, <2>1 DEF WriteAccessVlan, r
<1>4. Kept(s, WriteNative(s, p, v))
  <2> DEFINE r == [s EXCEPT !.native[p] = v]
  <2>1. /\ WellFormed(r) /\ r.pvid = s.pvid /\ r.egress = s.egress
        /\ r.untagged = s.untagged /\ r.static = s.static
    BY DEF WellFormed, AgentState
  <2> HIDE DEF r
  <2> QED BY <1>1, <2>1 DEF WriteNative, r
<1>5. Kept(s, WriteAllowed(s, p, V))
  <2> DEFINE r == [s EXCEPT !.allowed[p] = V]
  <2>1. /\ WellFormed(r) /\ r.pvid = s.pvid /\ r.egress = s.egress
        /\ r.untagged = s.untagged /\ r.static = s.static
    BY DEF WellFormed, AgentState
  <2> HIDE DEF r
  <2> QED BY <1>1, <2>1 DEF WriteAllowed, r
<1> QED BY <1>2, <1>3, <1>4, <1>5

\* PortLists that agree with the agent's about the protected ports.
LEMMA MembershipKept ==
    ASSUME NEW s, WellFormed(s), ~SwitchportModel, NEW v \in Vlan,
           NEW e \in SUBSET Port, NEW u \in SUBSET Port,
           \A p \in Protected : /\ p \in e <=> p \in s.egress[v]
                                /\ p \in u <=> p \in s.untagged[v]
    PROVE  /\ Kept(s, WriteEgress(s, v, e))
           /\ Kept(s, WriteUntagged(s, v, u, FALSE))
           /\ Kept(s, WriteMembership(s, v, e, u))
<1>1. ASSUME NEW r, WellFormed(r), Kept(s, r), NEW b \in BOOLEAN
      PROVE  Kept(s, WriteUntagged(r, v, u, b))
  <2> DEFINE t == [r EXCEPT !.untagged[v] = u]
  <2>1. /\ t.static = r.static /\ t.pvid = r.pvid /\ t.egress = r.egress
        /\ \A a \in Vlan : t.untagged[a] = IF a = v THEN u ELSE r.untagged[a]
    BY <1>1 DEF WellFormed, AgentState
  <2> HIDE DEF t
  <2>2. Kept(s, t)
    BY <1>1, <2>1 DEF Kept, SameBits
  <2> QED BY <1>1, <2>2 DEF WriteUntagged, t
<1>2. Kept(s, s)
  BY DEF Kept, SameBits
<1>3. Kept(s, WriteEgress(s, v, e))
  <2>1. CASE v \notin s.vlans
    BY <1>2, <2>1 DEF WriteEgress
  <2>2. CASE v \in s.vlans
    <3> DEFINE x  == IF AutoUntag THEN s.untagged[v] \cup (e \ s.egress[v]) ELSE s.untagged[v]
               eg == [s.egress EXCEPT ![v] = e]
               un == [s.untagged EXCEPT ![v] = x]
               t  == [s EXCEPT !.egress = eg, !.untagged = un]
    <3>1. WriteEgress(s, v, e) = t
      BY <2>2 DEF WriteEgress, WellFormed, AgentState
    <3>2. \A p \in Protected : p \in x <=> p \in s.untagged[v]
      BY DEF WellFormed, AgentState
    <3> HIDE DEF x
    <3>3. \A p \in Protected, a \in Vlan : /\ p \in eg[a] <=> p \in s.egress[a]
                                           /\ p \in un[a] <=> p \in s.untagged[a]
      BY <3>2 DEF WellFormed, AgentState
    <3> HIDE DEF eg, un
    <3>4. t.static = s.static /\ t.pvid = s.pvid /\ t.egress = eg /\ t.untagged = un
      BY DEF WellFormed, AgentState
    <3> HIDE DEF t
    <3> QED BY <3>1, <3>3, <3>4 DEF Kept, SameBits
  <2> QED BY <2>1, <2>2
<1>4. WellFormed(WriteEgress(s, v, e))
  BY QbridgeWellFormed
<1> QED BY <1>1, <1>2, <1>3, <1>4 DEF WriteMembership

LEMMA PvidKept ==
    ASSUME NEW s, WellFormed(s), NEW v \in Vlan, NEW p \in Port \ Protected
    PROVE  Kept(s, WritePvid(s, p, v))
<1> DEFINE t == WritePvid(s, p, v)
<1>1. /\ t.egress = s.egress /\ t.untagged = s.untagged /\ t.static = s.static
      /\ \A q \in Port \ {p} : t.pvid[q] = s.pvid[q]
  BY DEF WritePvid, WellFormed, AgentState
<1>2. Protected \subseteq Port \ {p}
  BY VlanAgentAssumption, WriterAssumption
<1> HIDE DEF t
<1> QED BY <1>1, <1>2 DEF Kept, SameBits, t

LEMMA RowKept ==
    ASSUME NEW s, WellFormed(s), NEW v \in Vlan, NEW n \in Name,
           \A q \in Protected, a \in Vlan : q \in s.untagged[a] => q \in s.egress[a]
    PROVE  /\ Kept(s, CreateRow(s, v, n))
           /\ s.egress[v] \cap Protected = {} => Kept(s, DestroyRow(s, v))
<1>1. Kept(s, CreateRow(s, v, n))
  <2> DEFINE t == CreateRow(s, v, n)
  <2>1. /\ t.egress = s.egress /\ t.untagged = s.untagged /\ t.pvid = s.pvid
        /\ t.static = IF v \in s.vlans THEN s.static ELSE s.static \cup {v}
    BY DEF CreateRow, WellFormed, AgentState
  <2>2. v \notin s.vlans => s.egress[v] = {}
    BY DEF WellFormed
  <2> HIDE DEF t
  <2> QED BY <2>1, <2>2 DEF Kept, SameBits, t
<1>2. ASSUME s.egress[v] \cap Protected = {}
      PROVE  Kept(s, DestroyRow(s, v))
  <2> DEFINE t == DestroyRow(s, v)
  <2>1. /\ t.pvid = s.pvid /\ t.static = s.static \ {v}
        /\ \A a \in Vlan : /\ t.egress[a] = IF a = v THEN {} ELSE s.egress[a]
                           /\ t.untagged[a] = IF a = v THEN {} ELSE s.untagged[a]
    BY DEF DestroyRow, WellFormed, AgentState
  <2> HIDE DEF t
  <2> QED BY <1>2, <2>1 DEF Kept, SameBits, t
<1> QED BY <1>1, <1>2

-----------------------------------------------------------------------------
(***************************************************************************)
(* What a call does to the agent.                                          *)
(***************************************************************************)
LEMMA KeptSelf == \A s : Kept(s, s)
BY DEF Kept, SameBits

LEMMA TransmitKept ==
    ASSUME NEW w, NEW at, NEW accepted, NEW result, NEW next,
           Transmit(w, at, accepted, result, next), Kept(agent, result)
    PROVE  Kept(agent, agent')
BY KeptSelf DEF Transmit

LEMMA SetKept ==
    ASSUME TypeOK, ProtectedInv, NEW w \in Writer, Set(w)
    PROVE  Kept(agent, agent')
<1> DEFINE o == op[w]
<1>1. /\ o \in Operation /\ plan[w] \in Plan /\ bits[w] \in Bits /\ WellFormed(agent)
      /\ CallSafe(agent, pc[w], o, view[w], bits[w])
  BY DEF TypeOK, AgentTypeOK, ProtectedInv
<1>2. o.vlan \in Vlan /\ o.port \in Port /\ o.name \in Name
  BY <1>1, VlanAgentAssumption, WriterAssumption DEF Operation
<1>3. /\ plan[w].untagged \in Vlan /\ plan[w].allowed \in SUBSET Vlan
      /\ bits[w].egress \in SUBSET Port /\ bits[w].untagged \in SUBSET Port
  BY <1>1 DEF Plan, Bits
<1>4. "access" \in Mode /\ "trunk" \in Mode
  BY DEF Mode
<1>5. pc[w] \in MovesPort => o.port \in Port \ Protected
  BY <1>1, <1>2 DEF CallSafe
<1>6. CASE SetAllowed(w) \/ SetNative(w) \/ SetTrunk(w) \/ SetAccess(w) \/ SetAccessMode(w)
  <2>1. pc[w] \in MovesPort
    BY <1>6 DEF SetAllowed, SetNative, SetTrunk, SetAccess, SetAccessMode, Transmit, MovesPort
  <2>2. /\ Kept(agent, WriteAllowed(agent, o.port, plan[w].allowed))
        /\ Kept(agent, WriteNative(agent, o.port, plan[w].untagged))
        /\ Kept(agent, WriteMode(agent, o.port, "trunk"))
        /\ Kept(agent, WriteAccessVlan(agent, o.port, plan[w].untagged))
        /\ Kept(agent, WriteMode(agent, o.port, "access"))
    BY <1>1, <1>3, <1>4, <1>5, <2>1, SwitchportKept
  <2> QED
    BY <1>6, <2>2, TransmitKept
       DEF SetAllowed, SetNative, SetTrunk, SetAccess, SetAccessMode
<1>7. CASE SetEgress(w) \/ SetBoth(w) \/ SetUntagged(w)
  <2>1. pc[w] \in AfterRaw
    BY <1>7 DEF SetEgress, SetBoth, SetUntagged, Transmit, AfterRaw
  <2>2. /\ ~SwitchportModel
        /\ \A p \in Protected : /\ p \in bits[w].egress <=> p \in agent.egress[o.vlan]
                                /\ p \in bits[w].untagged <=> p \in agent.untagged[o.vlan]
    BY <1>1, <2>1 DEF CallSafe, Qbridge, BitsKept
  <2>3. /\ Kept(agent, WriteEgress(agent, o.vlan, bits[w].egress))
        /\ Kept(agent, WriteUntagged(agent, o.vlan, bits[w].untagged, FALSE))
        /\ Kept(agent, WriteMembership(agent, o.vlan, bits[w].egress, bits[w].untagged))
    BY <1>1, <1>2, <1>3, <2>2, MembershipKept
  <2> QED BY <1>7, <2>3, TransmitKept DEF SetEgress, SetBoth, SetUntagged
<1>8. CASE SetCreate(w)
  <2>1. Kept(agent, CreateRow(agent, o.vlan, o.name))
    BY <1>1, <1>2, RowKept DEF ProtectedInv
  <2> QED BY <1>8, <2>1, TransmitKept DEF SetCreate
<1>9. CASE SetDestroy(w)
  <2>1. agent.egress[o.vlan] \cap Protected = {}
    BY <1>1, <1>9 DEF SetDestroy, Transmit, CallSafe
  <2>2. Kept(agent, DestroyRow(agent, o.vlan))
    BY <1>1, <1>2, <2>1, RowKept DEF ProtectedInv
  <2> QED BY <1>9, <2>2, TransmitKept DEF SetDestroy
<1>10. CASE SetPvid(w)
  <2>1. o.port \in Port \ Protected
    BY <1>5, <1>10 DEF SetPvid, Transmit, MovesPort
  <2>2. Kept(agent, WritePvid(agent, o.port, o.vlan))
    BY <1>1, <1>2, <2>1, PvidKept
  <2> QED BY <1>10, <2>2, TransmitKept DEF SetPvid
<1> QED BY <1>6, <1>7, <1>8, <1>9, <1>10 DEF Set

-----------------------------------------------------------------------------
(***************************************************************************)
(* A writer's own step leaves its call safe, in the state it leads to.     *)
(***************************************************************************)
Safe(w) == CallSafe(agent, pc[w], op[w], view[w], bits[w])

LEMMA EndSafe ==
    ASSUME TypeOK, NEW w \in Writer, NEW how \in Ended, End(w, how)
    PROVE  Safe(w)'
<1>1. pc'[w] = how /\ view'[w] = NoView /\ bits'[w] = NoBits
  BY DEF End, TypeOK
<1>2. /\ how \in Resting /\ how \notin MovesPort \cup AfterName /\ how # "setDestroy"
  BY DEF Ended, Resting, MovesPort, Qbridge, AfterRaw, AfterName, AfterEgress, AfterUntagged,
         AfterCurEgress, AfterCurUntagged
<1>3. SawNothingFalse(agent', NoView)
  BY DEF SawNothingFalse, NoView
<1>4. SawAll(agent', how, NoView)
  BY <1>2 DEF SawAll, AfterName, AfterEgress, AfterUntagged, AfterCurEgress
<1>5. BitsKept(agent', how, op'[w], NoBits)
  BY <1>2 DEF BitsKept, MovesPort, Qbridge
<1> HIDE DEF NoView, NoBits
<1> QED BY <1>1, <1>2, <1>3, <1>4, <1>5 DEF Safe, CallSafe, MovesPort

LEMMA AgainSafe ==
    ASSUME TypeOK, TypeOK', NEW w \in Writer, Safe(w), Kept(agent, agent'),
           UNCHANGED <<pc, op, view, bits>>
    PROVE  Safe(w)'
BY KeptCallSafe DEF Safe, TypeOK, AgentTypeOK, WellFormed, AgentState

\* A SET that is answered: the next one is already safe.
AfterSet == {"setNative", "setTrunk", "setAccessMode", "setUntagged", "name", "verifyPvids"}

LEMMA AnsweredSafe ==
    ASSUME TypeOK, TypeOK', NEW w \in Writer, Safe(w), Kept(agent, agent'),
           pc[w] \in Sets, NEW next \in AfterSet, Advance(w, next), UNCHANGED <<op, view, bits>>,
           next \in {"setNative", "setTrunk", "setAccessMode"} => pc[w] \in MovesPort,
           next = "setUntagged" => pc[w] = "setEgress"
    PROVE  Safe(w)'
<1>1. CallSafe(agent', pc[w], op[w], view[w], bits[w])
  BY KeptCallSafe DEF Safe, TypeOK, AgentTypeOK, WellFormed, AgentState
<1>2. pc'[w] = next /\ op'[w] = op[w] /\ view'[w] = view[w] /\ bits'[w] = bits[w]
  BY DEF Advance, TypeOK
<1>3. pc[w] \notin Resting /\ next \notin AfterName /\ next # "setDestroy" /\ next # "rawUntagged"
  BY DEF Sets, Resting, Ended, AfterSet, AfterName, AfterEgress, AfterUntagged,
         AfterCurEgress, AfterCurUntagged
<1>4. SawAll(agent', next, view[w])
  BY <1>3 DEF SawAll, AfterName, AfterEgress, AfterUntagged, AfterCurEgress
<1>5. next \in AfterRaw => pc[w] = "setEgress"
  BY DEF AfterSet, AfterRaw
<1>6. BitsKept(agent', next, op[w], bits[w])
  BY <1>1, <1>3, <1>5 DEF CallSafe, BitsKept, AfterRaw
<1>7. next \in MovesPort => pc[w] \in MovesPort
  BY DEF AfterSet, MovesPort, Qbridge, AfterRaw
<1>8. next \in Qbridge => pc[w] \in Qbridge
  BY <1>3, <1>5 DEF Qbridge, AfterRaw, AfterSet
<1> QED BY <1>1, <1>2, <1>3, <1>4, <1>6, <1>7, <1>8 DEF Safe, CallSafe

LEMMA TransmitSafe ==
    ASSUME TypeOK, TypeOK', NEW w \in Writer, Safe(w), Kept(agent, agent'),
           NEW at \in Sets, NEW accepted, NEW result, NEW next \in AfterSet,
           Transmit(w, at, accepted, result, next),
           next \in {"setNative", "setTrunk", "setAccessMode"} => at \in MovesPort,
           next = "setUntagged" => at = "setEgress"
    PROVE  Safe(w)'
<1>1. CASE Advance(w, next) /\ UNCHANGED <<view, bits>>
  BY <1>1, AnsweredSafe DEF Transmit
<1>2. CASE End(w, "failed")
  BY <1>2, EndSafe DEF Ended
<1>3. CASE UNCHANGED <<pc, view, bits>>
  BY <1>3, AgainSafe DEF Transmit
<1> QED BY <1>1, <1>2, <1>3 DEF Transmit

LEMMA SetSafe ==
    ASSUME TypeOK, TypeOK', ProtectedInv, NEW w \in Writer, Set(w)
    PROVE  Safe(w)'
<1>1. Kept(agent, agent') /\ Safe(w)
  BY SetKept DEF ProtectedInv, Safe
<1>2. /\ {"setAllowed", "setNative", "setTrunk", "setAccess", "setAccessMode", "setEgress",
          "setUntagged", "setBoth", "setCreate", "setDestroy", "setPvid"} \subseteq Sets
      /\ {"setNative", "setTrunk", "setAccessMode", "setUntagged", "name", "verifyPvids"}
            \subseteq AfterSet
      /\ {"setAllowed", "setNative", "setAccess"} \subseteq MovesPort
  BY DEF Sets, AfterSet, MovesPort
<1>3. CASE SetAllowed(w) \/ SetNative(w) \/ SetTrunk(w) \/ SetAccess(w) \/ SetAccessMode(w)
  BY <1>1, <1>2, <1>3, TransmitSafe
     DEF SetAllowed, SetNative, SetTrunk, SetAccess, SetAccessMode
<1>4. CASE SetEgress(w) \/ SetUntagged(w) \/ SetBoth(w)
  BY <1>1, <1>2, <1>4, TransmitSafe DEF SetEgress, SetUntagged, SetBoth
<1>5. CASE SetCreate(w) \/ SetDestroy(w) \/ SetPvid(w)
  BY <1>1, <1>2, <1>5, TransmitSafe DEF SetCreate, SetDestroy, SetPvid
<1> QED BY <1>3, <1>4, <1>5 DEF Set

\* A walk: what it returns is true of the protected ports, and complete.
LEMMA WalkSafe ==
    ASSUME TypeOK, ProtectedInv, NEW w \in Writer, GetVlans(w)
    PROVE  Safe(w)'
<1> DEFINE col == {"name", "egress", "untagged", "curEgress", "curUntagged"}
<1>1. Safe(w) /\ agent' = agent /\ op' = op /\ bits' = bits /\ pc[w] \in col
  BY DEF ProtectedInv, Safe, GetVlans, WalkName, WalkEgress, WalkUntagged, WalkCurrentEgress,
         WalkCurrentUntagged, Walk
<1>2. Protected \subseteq Physical /\ view[w] \in View /\ agent \in AgentState
  BY WriterAssumption DEF TypeOK, AgentTypeOK, WellFormed
<1>3. \A p \in Protected, v \in Vlan :
        /\ p \in agent.untagged[v] => p \in agent.egress[v]
        /\ p \in agent.egress[v] => v \in agent.vlans
  BY DEF ProtectedInv, TypeOK, AgentTypeOK, WellFormed
<1>4. pc'[w] \in {"egress", "untagged", "curEgress", "curUntagged", "decide", "verify"}
  BY DEF GetVlans, WalkName, WalkEgress, WalkUntagged, WalkCurrentEgress, WalkCurrentUntagged,
         Walk, Advance, TypeOK
<1>5. SawNothingFalse(agent, view'[w])
  <2>1. SawNothingFalse(agent, view[w])
    BY <1>1 DEF Safe, CallSafe
  <2>2. /\ view'[w].egress \in {view[w].egress, Visible(agent.egress, agent.static)}
        /\ view'[w].untagged \in {view[w].untagged, Visible(agent.untagged, agent.static)}
        /\ view'[w].curEgress \in {view[w].curEgress, Visible(agent.egress, agent.vlans)}
        /\ view'[w].curUntagged \in {view[w].curUntagged, Visible(agent.untagged, agent.vlans)}
    <3>1. CASE WalkName(w)
      <4>1. view'[w] = [view[w] EXCEPT !.rows = agent.static, !.name = agent.name]
        BY <3>1 DEF WalkName, Walk, TypeOK
      <4> QED BY <1>2, <4>1 DEF View
    <3>2. CASE WalkEgress(w)
      <4>1. view'[w] = [view[w] EXCEPT !.egress = Visible(agent.egress, agent.static)]
        BY <3>2 DEF WalkEgress, Walk, TypeOK
      <4> QED BY <1>2, <4>1 DEF View
    <3>3. CASE WalkUntagged(w)
      <4>1. view'[w] = [view[w] EXCEPT !.untagged = Visible(agent.untagged, agent.static)]
        BY <3>3 DEF WalkUntagged, Walk, TypeOK
      <4> QED BY <1>2, <4>1 DEF View
    <3>4. CASE WalkCurrentEgress(w)
      <4>1. view'[w] = [view[w] EXCEPT !.current = agent.vlans,
                                        !.curEgress = Visible(agent.egress, agent.vlans)]
        BY <3>4 DEF WalkCurrentEgress, Walk, TypeOK
      <4> QED BY <1>2, <4>1 DEF View
    <3>5. CASE WalkCurrentUntagged(w)
      <4>1. view'[w] = [view[w] EXCEPT !.curUntagged = Visible(agent.untagged, agent.vlans)]
        BY <3>5 DEF WalkCurrentUntagged, Walk, TypeOK
      <4> QED BY <1>2, <4>1 DEF View
    <3> QED BY <3>1, <3>2, <3>3, <3>4, <3>5 DEF GetVlans
  <2> QED BY <2>1, <2>2 DEF SawNothingFalse, Visible
<1>6. SawAll(agent, pc'[w], view'[w])
  <2>1. SawAll(agent, pc[w], view[w])
    BY <1>1 DEF Safe, CallSafe
  <2>2. CASE WalkName(w)
    <3>1. pc'[w] = "egress" /\ view'[w].rows = agent.static
      BY <1>2, <2>2 DEF WalkName, Walk, Advance, TypeOK, View
    <3> QED BY <3>1 DEF SawAll, AfterName, AfterEgress, AfterUntagged, AfterCurEgress,
                        AfterCurUntagged
  <2>3. CASE WalkEgress(w)
    <3>1. /\ pc[w] = "egress" /\ pc'[w] = "untagged" /\ view'[w].rows = view[w].rows
          /\ view'[w].egress = Visible(agent.egress, agent.static)
      BY <1>2, <2>3 DEF WalkEgress, Walk, Advance, TypeOK, View
    <3> QED BY <1>2, <2>1, <3>1 DEF SawAll, Visible, AfterName, AfterEgress, AfterUntagged,
                                    AfterCurEgress, AfterCurUntagged
  <2>4. CASE WalkUntagged(w)
    <3>1. /\ pc[w] = "untagged" /\ pc'[w] = "curEgress" /\ view'[w].rows = view[w].rows
          /\ view'[w].egress = view[w].egress
          /\ view'[w].untagged = Visible(agent.untagged, agent.static)
      BY <1>2, <2>4 DEF WalkUntagged, Walk, Advance, TypeOK, View
    <3> QED BY <1>2, <2>1, <3>1 DEF SawAll, Visible, AfterName, AfterEgress, AfterUntagged,
                                    AfterCurEgress, AfterCurUntagged
  <2>5. CASE WalkCurrentEgress(w)
    <3>1. /\ pc[w] = "curEgress" /\ pc'[w] = "curUntagged" /\ view'[w].rows = view[w].rows
          /\ view'[w].egress = view[w].egress /\ view'[w].untagged = view[w].untagged
          /\ view'[w].curEgress = Visible(agent.egress, agent.vlans)
      BY <1>2, <2>5 DEF WalkCurrentEgress, Walk, Advance, TypeOK, View
    <3> QED BY <1>2, <1>3, <2>1, <3>1 DEF SawAll, Visible, AfterName, AfterEgress,
                                          AfterUntagged, AfterCurEgress, AfterCurUntagged
  <2>6. CASE WalkCurrentUntagged(w)
    <3>1. /\ pc[w] = "curUntagged" /\ pc'[w] \in {"decide", "verify"}
          /\ view'[w].rows = view[w].rows
          /\ view'[w].egress = view[w].egress /\ view'[w].untagged = view[w].untagged
          /\ view'[w].curEgress = view[w].curEgress
          /\ view'[w].curUntagged = Visible(agent.untagged, agent.vlans)
      BY <1>2, <2>6 DEF WalkCurrentUntagged, Walk, Advance, TypeOK, View
    <3> QED BY <1>2, <1>3, <2>1, <3>1 DEF SawAll, Visible, AfterName, AfterEgress,
                                          AfterUntagged, AfterCurEgress, AfterCurUntagged
  <2> QED BY <2>2, <2>3, <2>4, <2>5, <2>6 DEF GetVlans
<1>7. BitsKept(agent, pc'[w], op[w], bits[w])
  BY <1>4 DEF BitsKept, AfterRaw
<1>8. pc'[w] \notin MovesPort /\ pc'[w] # "setDestroy"
  BY <1>4 DEF MovesPort, Qbridge, AfterRaw
<1>9. ~GuardRaises(op[w]) /\ ~op[w].force
  BY <1>1 DEF Safe, CallSafe, Resting, Ended
<1> QED BY <1>1, <1>5, <1>6, <1>7, <1>8, <1>9 DEF Safe, CallSafe, MovesPort

\* get_vlans sees every protected member of a VLAN: the clash check of
\* delete_vlan misses none, and _raw_bitmap falls back on the truth.
LEMMA MembersSeen ==
    ASSUME TypeOK, ProtectedInv, NEW w \in Writer, pc[w] \in AfterCurUntagged,
           NEW p \in Protected, NEW v \in Vlan
    PROVE  /\ p \in Members(view[w], v) <=> p \in agent.egress[v]
           /\ v \notin agent.static =>
                (p \in UntaggedPorts(view[w], v) <=> p \in agent.untagged[v])
<1>1. /\ SawNothingFalse(agent, view[w]) /\ SawAll(agent, pc[w], view[w])
      /\ p \in agent.untagged[v] => p \in agent.egress[v]
  BY DEF ProtectedInv, CallSafe
<1> QED
  BY <1>1 DEF SawNothingFalse, SawAll, AfterName, AfterEgress, AfterUntagged, AfterCurEgress,
              Members, UntaggedPorts

LEMMA DecideSafe ==
    ASSUME TypeOK, ProtectedInv, NEW w \in Writer, Decide(w)
    PROVE  Safe(w)'
<1> DEFINE o    == op[w]
           next == FirstRequest(o)
<1>1. CASE End(w, "refused")
  BY <1>1, EndSafe DEF Ended
<1>2. CASE ~PreconditionFails(w) /\ Advance(w, next) /\ UNCHANGED <<view, bits>>
  <2>1. /\ Safe(w) /\ pc[w] = "decide" /\ pc'[w] = next
        /\ UNCHANGED <<agent, op, view, bits>>
    BY <1>2 DEF Decide, Advance, TypeOK, ProtectedInv, Safe
  <2>2. ~GuardRaises(o) /\ ~o.force /\ o.kind \in Kinds /\ o.vlan \in Vlan
    BY <2>1 DEF Safe, CallSafe, Resting, Ended, TypeOK, Operation
  <2>3. /\ SawNothingFalse(agent, view[w]) /\ SawAll(agent, "decide", view[w])
    BY <2>1 DEF Safe, CallSafe
  <2>4. /\ next \in {"getMode", "rawEgress", "readPvids"} => o.port \notin Protected
        /\ next = "rawEgress" => ~SwitchportModel
        /\ next = "setDestroy" => o.kind = "delete"
        /\ next \in {"getMode", "rawEgress", "setCreate", "setDestroy", "readPvids"}
    BY <2>2 DEF FirstRequest, GuardRaises, Kinds
  <2>5. next = "setDestroy" => agent.egress[o.vlan] \cap Protected = {}
    BY <1>2, <2>1, <2>2, <2>4, MembersSeen DEF PreconditionFails, AfterCurUntagged
  <2> HIDE DEF next
  <2>6. SawAll(agent, next, view[w])
    BY <2>3, <2>4 DEF SawAll, AfterName, AfterEgress, AfterUntagged, AfterCurEgress,
                      AfterCurUntagged
  <2>7. BitsKept(agent, next, o, bits[w])
    BY <2>4 DEF BitsKept, AfterRaw
  <2>8. /\ next \in MovesPort => o.port \notin Protected
        /\ next \in Qbridge => ~SwitchportModel
    BY <2>4 DEF MovesPort, Qbridge, AfterRaw
  <2> QED BY <2>1, <2>2, <2>3, <2>5, <2>6, <2>7, <2>8 DEF Safe, CallSafe
<1> QED BY <1>1, <1>2 DEF Decide

LEMMA RawSafe ==
    ASSUME TypeOK, ProtectedInv, NEW w \in Writer, RawEgress(w) \/ RawUntagged(w)
    PROVE  Safe(w)'
<1> DEFINE o == op[w]
<1>1. /\ Safe(w) /\ pc[w] \in {"rawEgress", "rawUntagged"}
      /\ UNCHANGED <<agent, op, view>>
  BY DEF RawEgress, RawUntagged, ProtectedInv, Safe
<1>2. /\ ~GuardRaises(o) /\ ~o.force /\ o.port \notin Protected /\ ~SwitchportModel
      /\ SawNothingFalse(agent, view[w]) /\ SawAll(agent, pc[w], view[w])
      /\ BitsKept(agent, pc[w], o, bits[w])
  BY <1>1 DEF Safe, CallSafe, Resting, Ended, MovesPort, Qbridge
<1>3. o.vlan \in Vlan /\ bits[w] \in Bits
  BY DEF TypeOK, Operation
<1>4. CASE RawEgress(w)
  <2> DEFINE raw == IF o.vlan \in agent.static THEN agent.egress[o.vlan]
                                               ELSE Members(view[w], o.vlan)
  <2>1. pc'[w] = "rawUntagged" /\ pc[w] = "rawEgress"
    BY <1>4 DEF RawEgress, Advance, TypeOK
  <2>2. \A p \in Protected : p \in raw <=> p \in agent.egress[o.vlan]
    BY <1>3, <2>1, MembersSeen DEF AfterCurUntagged
  <2>3. bits'[w].egress = SetPortBit(raw, o.port, InEgress(o))
    BY <1>3, <1>4 DEF RawEgress, TypeOK, Bits
  <2> HIDE DEF raw
  <2>4. BitsKept(agent, "rawUntagged", o, bits'[w])
    BY <1>2, <2>2, <2>3 DEF BitsKept, SetPortBit, AfterRaw
  <2>5. SawAll(agent, "rawUntagged", view[w])
    BY <1>2, <2>1 DEF SawAll, AfterName, AfterEgress, AfterUntagged, AfterCurEgress,
                      AfterCurUntagged
  <2> QED BY <1>1, <1>2, <2>1, <2>4, <2>5 DEF Safe, CallSafe
<1>5. CASE RawUntagged(w)
  <2> DEFINE raw == IF o.vlan \in agent.static THEN agent.untagged[o.vlan]
                                               ELSE UntaggedPorts(view[w], o.vlan)
  <2>1. pc'[w] \in {"setEgress", "setBoth"} /\ pc[w] = "rawUntagged"
    BY <1>5 DEF RawUntagged, Advance, TypeOK
  <2>2. \A p \in Protected : p \in raw <=> p \in agent.untagged[o.vlan]
    BY <1>3, <2>1, MembersSeen DEF AfterCurUntagged
  <2>3. /\ bits'[w].untagged = SetPortBit(raw, o.port, InUntagged(o))
        /\ bits'[w].egress = bits[w].egress
    BY <1>3, <1>5 DEF RawUntagged, TypeOK, Bits
  <2> HIDE DEF raw
  <2>4. BitsKept(agent, pc'[w], o, bits'[w])
    BY <1>2, <2>1, <2>2, <2>3 DEF BitsKept, SetPortBit, AfterRaw
  <2>5. SawAll(agent, pc'[w], view[w])
    BY <2>1 DEF SawAll, AfterName, AfterEgress, AfterUntagged, AfterCurEgress,
                AfterCurUntagged
  <2> QED BY <1>1, <1>2, <2>1, <2>4, <2>5 DEF Safe, CallSafe
<1> QED BY <1>4, <1>5

LEMMA ReadSafe ==
    ASSUME TypeOK, TypeOK', ProtectedInv, NEW w \in Writer, Read(w)
    PROVE  Safe(w)'
<1>1. Safe(w)
  BY DEF ProtectedInv, Safe
<1>2. CASE GetMode(w) \/ ReadPvids(w)
  <2>1. /\ pc[w] \in {"getMode", "readPvids"} /\ pc'[w] \in {"getAllowed", "setPvid"}
        /\ UNCHANGED <<agent, op, view, bits>>
    BY <1>2 DEF GetMode, ReadPvids, Advance, TypeOK
  <2> QED
    BY <1>1, <2>1 DEF Safe, CallSafe, SawAll, BitsKept, Resting, Ended, MovesPort, Qbridge,
       AfterRaw, AfterName, AfterEgress, AfterUntagged, AfterCurEgress, AfterCurUntagged
<1>3. CASE GetAllowed(w)
  <2>1. CASE End(w, "refused")
    BY <2>1, EndSafe DEF Ended
  <2>2. CASE ~End(w, "refused")
    <3>1. /\ pc[w] = "getAllowed" /\ pc'[w] \in {"setAllowed", "setAccess"}
          /\ UNCHANGED <<agent, op, view, bits>>
      BY <1>3, <2>2 DEF GetAllowed, Advance, TypeOK
    <3> QED
      BY <1>1, <3>1 DEF Safe, CallSafe, SawAll, BitsKept, Resting, Ended, MovesPort, Qbridge,
         AfterRaw, AfterName, AfterEgress, AfterUntagged, AfterCurEgress, AfterCurUntagged
  <2> QED BY <2>1, <2>2
<1>4. CASE LoseRead(w)
  <2>1. CASE End(w, "failed")
    BY <2>1, EndSafe DEF Ended
  <2>2. CASE UNCHANGED <<pc, view, bits>>
    BY <1>1, <1>4, <2>2, AgainSafe, KeptSelf DEF LoseRead
  <2> QED BY <1>4, <2>1, <2>2 DEF LoseRead
<1> QED BY <1>2, <1>3, <1>4, WalkSafe, RawSafe DEF Read

-----------------------------------------------------------------------------
\* A step of one writer that keeps the protected ports and leaves its own
\* call safe keeps the invariant: the other calls stay safe.
LEMMA Framed ==
    ASSUME TypeOK, TypeOK', ProtectedInv, NEW w \in Writer, Kept(agent, agent'), Safe(w)',
           \A x \in Writer \ {w} : /\ pc'[x] = pc[x] /\ op'[x] = op[x]
                                   /\ view'[x] = view[x] /\ bits'[x] = bits[x]
    PROVE  ProtectedInv'
<1>1. ASSUME NEW x \in Writer \ {w}
      PROVE  CallSafe(agent', pc'[x], op'[x], view'[x], bits'[x])
  <2>1. CallSafe(agent, pc[x], op[x], view[x], bits[x]) /\ op[x] \in Operation
    BY DEF ProtectedInv, TypeOK
  <2>2. agent'.egress \in [Vlan -> SUBSET Port]
    BY DEF TypeOK, AgentTypeOK, WellFormed, AgentState
  <2> QED BY <2>1, <2>2, KeptCallSafe
<1>2. \A p \in Protected, v \in Vlan : p \in agent'.untagged[v] => p \in agent'.egress[v]
  BY DEF ProtectedInv, Kept, SameBits
<1> QED BY <1>1, <1>2 DEF ProtectedInv, Safe

LEMMA StepProtected ==
    ASSUME Forces \subseteq {FALSE}, TypeOK, TypeOK', ProtectedInv, [Next]_vars
    PROVE  ProtectedInv' /\ Kept(agent, agent')
<1>1. ASSUME NEW w \in Writer, Invoke(w)
      PROVE  ProtectedInv' /\ Kept(agent, agent')
  <2>1. UNCHANGED <<agent, view, bits>> /\ Safe(w)
    BY <1>1 DEF Invoke, ProtectedInv, Safe
  <2>2. PICK o \in Calls(w) :
          /\ op' = [op EXCEPT ![w] = o]
          /\ pc' = [pc EXCEPT ![w] = IF GuardRaises(o) THEN "refused" ELSE "name"]
    BY <1>1 DEF Invoke
  <2>3. o.force = FALSE
    BY <2>2, CallTypes
  <2>4. /\ pc'[w] \in {"refused", "name"} /\ op'[w] = o
        /\ pc'[w] = "name" => ~GuardRaises(o)
        /\ pc'[w] \notin MovesPort \cup AfterName /\ pc'[w] # "setDestroy"
    BY <2>2 DEF TypeOK, MovesPort, Qbridge, AfterRaw, AfterName, AfterEgress, AfterUntagged,
                AfterCurEgress, AfterCurUntagged
  <2>5. SawAll(agent, pc'[w], view[w])
    BY <2>4 DEF SawAll, AfterName, AfterEgress, AfterUntagged, AfterCurEgress
  <2>6. BitsKept(agent, pc'[w], o, bits[w])
    BY <2>4 DEF BitsKept, MovesPort, Qbridge
  <2>7. Safe(w)'
    BY <2>1, <2>3, <2>4, <2>5, <2>6 DEF Safe, CallSafe, Resting, Ended, MovesPort
  <2>8. \A x \in Writer \ {w} : pc'[x] = pc[x] /\ op'[x] = op[x]
    BY <2>2 DEF TypeOK
  <2> QED BY <2>1, <2>7, <2>8, KeptSelf, Framed
<1>2. ASSUME NEW w \in Writer, Step(w)
      PROVE  ProtectedInv' /\ Kept(agent, agent')
  <2>1. Safe(w)' /\ Kept(agent, agent')
    <3>1. CASE Read(w)
      <4>1. agent' = agent
        BY <3>1 DEF Read, GetVlans, WalkName, WalkEgress, WalkUntagged, WalkCurrentEgress,
           WalkCurrentUntagged, Walk, GetMode, GetAllowed, RawEgress, RawUntagged, ReadPvids,
           LoseRead
      <4> QED BY <3>1, <4>1, KeptSelf, ReadSafe
    <3>2. CASE Decide(w)
      BY <3>2, KeptSelf, DecideSafe DEF Decide
    <3>3. CASE Set(w)
      BY <3>3, SetKept, SetSafe
    <3>4. CASE Verify(w) \/ VerifyPvids(w)
      <4>1. PICK how \in Ended : End(w, how)
        BY <3>4 DEF Verify, VerifyPvids, Ended
      <4> QED BY <3>4, <4>1, EndSafe, KeptSelf DEF Verify, VerifyPvids
    <3> QED BY <1>2, <3>1, <3>2, <3>3, <3>4 DEF Step
  <2>2. \A x \in Writer \ {w} : /\ pc'[x] = pc[x] /\ op'[x] = op[x]
                                /\ view'[x] = view[x] /\ bits'[x] = bits[x]
    <3>1. CASE Read(w)
      BY <3>1 DEF Read, GetVlans, WalkName, WalkEgress, WalkUntagged, WalkCurrentEgress,
         WalkCurrentUntagged, Walk, GetMode, GetAllowed, RawEgress, RawUntagged, ReadPvids,
         LoseRead, Advance, End, TypeOK
    <3>2. CASE Decide(w) \/ Verify(w) \/ VerifyPvids(w)
      BY <3>2 DEF Decide, Verify, VerifyPvids, Advance, End, TypeOK
    <3>3. CASE Set(w)
      BY <3>3, ZenonT(30) DEF Set, SetAllowed, SetNative, SetTrunk, SetAccess, SetAccessMode,
         SetEgress, SetUntagged, SetBoth, SetCreate, SetDestroy, SetPvid, Transmit, Advance, End,
         TypeOK
    <3> QED BY <1>2, <3>1, <3>2, <3>3 DEF Step
  <2> QED BY <2>1, <2>2, Framed
<1>3. CASE UNCHANGED vars
  BY <1>3, KeptSelf DEF vars, ProtectedInv
<1> QED BY <1>1, <1>2, <1>3 DEF Next

LEMMA InitProtected == Init => ProtectedInv
<1> SUFFICES ASSUME Init PROVE ProtectedInv
  OBVIOUS
<1>1. \A p \in Protected, v \in Vlan : p \in agent.untagged[v] => p \in agent.egress[v]
  BY SeedsAssumption DEF Init, AgentInit
<1>2. ASSUME NEW w \in Writer
      PROVE  CallSafe(agent, "idle", NoCall, NoView, NoBits)
  <2>1. /\ "idle" \in Resting /\ "idle" \notin MovesPort \cup AfterName
    BY DEF Resting, MovesPort, Qbridge, AfterRaw, AfterName, AfterEgress, AfterUntagged,
           AfterCurEgress, AfterCurUntagged
  <2>2. SawNothingFalse(agent, NoView)
    BY DEF SawNothingFalse, NoView
  <2>3. SawAll(agent, "idle", NoView)
    BY <2>1 DEF SawAll, AfterName, AfterEgress, AfterUntagged, AfterCurEgress
  <2>4. BitsKept(agent, "idle", NoCall, NoBits)
    BY <2>1 DEF BitsKept, MovesPort, Qbridge
  <2> QED BY <2>1, <2>2, <2>3, <2>4 DEF CallSafe, MovesPort
<1> QED BY <1>1, <1>2 DEF Init, ProtectedInv

(***************************************************************************)
(* The invariant holds of every switch, however many clients share it.     *)
(***************************************************************************)
THEOREM ProtectedInvariant ==
    ASSUME Forces \subseteq {FALSE}
    PROVE  Spec => []ProtectedInv
<1>1. TypeOK /\ TypeOK' /\ ProtectedInv /\ [Next]_vars => ProtectedInv'
  BY StepProtected
<1> QED BY <1>1, InitProtected, TypeCorrect, PTL DEF Spec

(***************************************************************************)
(* Protected ports keep their VLANs and their PVIDs: the guard and the     *)
(* clash check hold against torn walks, lost and repeated SETs and other   *)
(* clients, as long as nobody passes force (snmp_write.py _guard and       *)
(* delete_vlan).                                                           *)
(***************************************************************************)
THEOREM ProtectedPortsKept ==
    ASSUME Forces \subseteq {FALSE}
    PROVE  Spec => ProtectedKept
<1>1. TypeOK /\ TypeOK' /\ ProtectedInv /\ [Next]_vars
        => [\A p \in Protected : SameBits(agent, agent', p)]_vars
  BY StepProtected DEF Kept
<1> QED BY <1>1, TypeCorrect, ProtectedInvariant, PTL DEF Spec, ProtectedKept

-----------------------------------------------------------------------------
(***************************************************************************)
(* What holds when one client at a time writes to the switch: what a       *)
(* membership call passes through on its way, whatever is lost or refused, *)
(* and what it has reached when it returns; for every switch, every number *)
(* of ports and VLANs, and every bound.                                    *)
(***************************************************************************)
\* One SnmpWriter.  (Two that interleave are what qbridge_race is about.)
Alone == \A w, x \in Writer : w = x

-----------------------------------------------------------------------------
(***************************************************************************)
(* The control points.                                                     *)
(***************************************************************************)
Switching == {"setAllowed", "setNative", "setTrunk", "setAccess", "setAccessMode"}
Reading   == Walks \cup {"verify"}

\* The points at which a call holds the five columns whole.
Heard == {"decide", "verify", "getMode", "getAllowed", "rawEgress", "rawUntagged"}

(***************************************************************************)
(* Which call is at which point, and what it has made by then.             *)
(***************************************************************************)
Course(s, at, ph, o, pl) ==
    /\ at \notin Resting => o.kind \in Kind
    /\ at \in {"getMode", "getAllowed"} \cup Switching =>
         SwitchportModel /\ o.kind = "membership" /\ o.vlan \in s.vlans
    /\ at \in Qbridge =>
         ~SwitchportModel /\ o.kind = "membership" /\ o.vlan \in s.vlans
    /\ at = "setCreate" => o.kind = "create"
    /\ at = "setDestroy" => o.kind = "delete"
    /\ at \in {"readPvids", "setPvid", "verifyPvids"} => o.kind = "pvid"
    /\ ph = "after" => at \in Reading /\ o.kind # "pvid"
    /\ at = "verify" => ph = "after"
    /\ pl.made => /\ SwitchportModel /\ o.kind = "membership"
                  /\ at \in Switching \cup {"ok", "failed", "diverged"} \/ ph = "after"
    /\ (SwitchportModel /\ o.kind = "membership" /\
         (at \in Switching \cup {"ok"} \/ ph = "after")) => pl.made

(***************************************************************************)
(* Nobody writes while the one client reads: what it has walked is true.   *)
(***************************************************************************)
ViewTrue(s, at, vw) ==
    /\ at \in Heard \cup {"curUntagged", "curEgress", "untagged", "egress"} =>
         vw.rows = s.static
    /\ at \in Heard \cup {"curUntagged", "curEgress", "untagged"} =>
         vw.egress = Visible(s.egress, s.static)
    /\ at \in Heard \cup {"curUntagged", "curEgress"} =>
         vw.untagged = Visible(s.untagged, s.static)
    /\ at \in Heard \cup {"curUntagged"} =>
         vw.current = s.vlans /\ vw.curEgress = Visible(s.egress, s.vlans)
    /\ at \in Heard =>
         vw.curUntagged = Visible(s.untagged, s.vlans)

(***************************************************************************)
(* What _plan_switchport_membership promises of its plan.                  *)
(***************************************************************************)
PlanFits(s, o, pl) ==
    LET wu == WantUntagged(o, pl.wasUntagged) IN
    /\ o.vlan \in s.vlans
    /\ pl.wasTagged \subseteq s.vlans /\ pl.wasUntagged \subseteq s.vlans
    /\ pl.wasTagged \cap pl.wasUntagged = {}
    /\ pl.tagged = WantTagged(o, pl.wasTagged)
    /\ wu = {pl.untagged} \/ (wu = {} /\ pl.untagged = DefaultVlan)
    /\ pl.untagged \notin pl.tagged
    /\ pl.allowed \cap s.vlans = (pl.tagged \cup {pl.untagged}) \cap s.vlans

Reached(s, p, pl) == UntaggedIn(s, p) = {pl.untagged} /\ TaggedIn(s, p) = pl.tagged

(***************************************************************************)
(* The PortLists a Q-BRIDGE call is about to write: the bit of its own     *)
(* port is what the caller asked for, and where every VLAN has a static    *)
(* row the other bits, LAGs included, are the switch's.                    *)
(***************************************************************************)
OwnBit(at, ph, o, b) ==
    (o.kind = "membership" /\ ~SwitchportModel) =>
        /\ at \in AfterRaw \cup {"rawUntagged"} \/ ph = "after" =>
             (o.port \in b.egress <=> InEgress(o))
        /\ at \in AfterRaw \/ ph = "after" => (o.port \in b.untagged <=> InUntagged(o))

OtherBits(s, at, o, b) ==
    s.static = s.vlans =>
        \A q \in Port \ {o.port} :
            /\ at \in AfterRaw \cup {"rawUntagged"} =>
                 (q \in b.egress <=> q \in s.egress[o.vlan])
            /\ at \in AfterRaw => (q \in b.untagged <=> q \in s.untagged[o.vlan])

Honoured(s, o) ==
    /\ o.vlan \in s.vlans
    /\ o.port \in s.egress[o.vlan] <=> InEgress(o)
    /\ o.port \in s.untagged[o.vlan] <=> InUntagged(o)

ClientFits(s, at, ph, o, vw, pl, b) ==
    /\ Course(s, at, ph, o, pl)
    /\ ViewTrue(s, at, vw)
    /\ pl.made => PlanFits(s, o, pl) /\ (at = "ok" => Reached(s, o.port, pl))
    /\ OwnBit(at, ph, o, b)
    /\ OtherBits(s, at, o, b)
    /\ (at = "ok" /\ o.kind = "membership" /\ ~SwitchportModel) => Honoured(s, o)

OneClientInv ==
    \A w \in Writer :
        ClientFits(agent, pc[w], phase[w], op[w], view[w], plan[w], bits[w])

(***************************************************************************)
(* Between what the port was and what it is to be: the port's membership   *)
(* under a plan, at each PDU, before it reaches the agent and after.       *)
(***************************************************************************)
AsFound(s, p, pl) ==
    UntaggedIn(s, p) = pl.wasUntagged /\ TaggedIn(s, p) = pl.wasTagged

AsWanted(s, p, pl) ==
    /\ UntaggedIn(s, p) = {pl.untagged} \cap s.vlans
    /\ TaggedIn(s, p) = pl.tagged \cap s.vlans

Narrowed(s, p, pl) ==
    s.allowed[p] \cap s.vlans = (pl.tagged \cup {pl.untagged}) \cap s.vlans

Underway(s, at, p, pl) ==
    /\ at \in {"setAllowed", "setNative", "setTrunk"} /\ s.mode[p] # "trunk" =>
         AsFound(s, p, pl)
    /\ at = "setAllowed" /\ s.mode[p] = "trunk" =>
         /\ UntaggedIn(s, p) = pl.wasUntagged
         /\ TaggedIn(s, p) = pl.wasTagged \/ Narrowed(s, p, pl)
    /\ at \in {"setNative", "setTrunk"} => Narrowed(s, p, pl)
    /\ at = "setNative" /\ s.mode[p] = "trunk" =>
         UntaggedIn(s, p) = pl.wasUntagged \/ s.native[p] = pl.untagged
    /\ at = "setTrunk" => s.native[p] = pl.untagged
    /\ at \in {"setAccess", "setAccessMode"} =>
         pl.tagged = {} /\ (s.mode[p] # "access" => AsFound(s, p, pl))
    /\ at = "setAccess" /\ s.mode[p] = "access" =>
         UntaggedIn(s, p) = pl.wasUntagged \/ s.access[p] = pl.untagged
    /\ at = "setAccessMode" => s.access[p] = pl.untagged
    /\ at \in Reading => AsWanted(s, p, pl)

NoMore(s, p, pl) ==
    MemberOf(s, p) \subseteq
        pl.wasTagged \cup pl.wasUntagged \cup pl.tagged \cup {pl.untagged}

NoLess(s, p, pl) ==
    /\ pl.wasTagged \cap pl.tagged \subseteq TaggedIn(s, p)
    /\ pl.wasUntagged \cap {pl.untagged} \subseteq UntaggedIn(s, p)

OnTheWay(s, at, p, pl) ==
    NoMore(s, p, pl) /\ NoLess(s, p, pl) /\ Underway(s, at, p, pl)

PassageInv ==
    \A w \in Writer : plan[w].made => OnTheWay(agent, pc[w], op[w].port, plan[w])

(***************************************************************************)
(* What a call of one client knows of the switch while nothing is lost.    *)
(***************************************************************************)
QuietFits(s, at, ph, o, b) ==
    /\ at \notin {"failed", "diverged"}
    /\ at = "verifyPvids" => s.pvid[o.port] = o.vlan
    /\ at = "setUntagged" => s.egress[o.vlan] = b.egress
    /\ at = "setBoth" => ~SplitWrites
    /\ ph = "after" /\ o.kind = "delete" => o.vlan \notin s.vlans
    /\ ph = "after" /\ o.kind = "membership" /\ ~SwitchportModel =>
         /\ o.vlan \in s.vlans
         /\ s.egress[o.vlan] = b.egress /\ s.untagged[o.vlan] = b.untagged

QuietInv ==
    (lost = 0 /\ DefaultVlan \in agent.vlans) =>
        \A w \in Writer : QuietFits(agent, pc[w], phase[w], op[w], bits[w])


-----------------------------------------------------------------------------
(***************************************************************************)
(* What the columns decode to.                                             *)
(***************************************************************************)
LEMMA ViewTells ==
    ASSUME NEW s, WellFormed(s), NEW at \in Heard, NEW vw, ViewTrue(s, at, vw),
           NEW p \in Physical
    PROVE  /\ Present(vw) = s.vlans
           /\ \A v \in Vlan : /\ Members(vw, v) = s.egress[v] \cap Physical
                              /\ UntaggedPorts(vw, v) = s.untagged[v] \cap Physical
           /\ TaggedVlans(vw, p) = TaggedIn(s, p)
           /\ UntaggedVlans(vw, p) = UntaggedIn(s, p)
<1>1. /\ vw.rows = s.static /\ vw.current = s.vlans
      /\ vw.egress = Visible(s.egress, s.static)
      /\ vw.untagged = Visible(s.untagged, s.static)
      /\ vw.curEgress = Visible(s.egress, s.vlans)
      /\ vw.curUntagged = Visible(s.untagged, s.vlans)
  BY DEF ViewTrue
<1>2. s.static \subseteq s.vlans /\ s.vlans \subseteq Vlan
  BY DEF WellFormed, AgentState
<1>3. Present(vw) = s.vlans
  BY <1>1, <1>2 DEF Present
<1>4. ASSUME NEW v \in Vlan
      PROVE  /\ Members(vw, v) = s.egress[v] \cap Physical
             /\ UntaggedPorts(vw, v) = s.untagged[v] \cap Physical
  <2>1. CASE v \in s.static
    BY <1>1, <1>4, <2>1 DEF Members, UntaggedPorts, Visible
  <2>2. CASE v \notin s.static /\ v \in s.vlans
    BY <1>1, <1>4, <2>2 DEF Members, UntaggedPorts, Visible
  <2>3. CASE v \notin s.static /\ v \notin s.vlans
    <3>1. s.egress[v] = {} /\ s.untagged[v] = {}
      BY <1>4, <2>3 DEF WellFormed
    <3> QED BY <1>1, <1>4, <2>3, <3>1 DEF Members, UntaggedPorts, Visible
  <2> QED BY <2>1, <2>2, <2>3
<1>5. \A v \in s.vlans : /\ p \in TaggedPorts(vw, v) <=> p \in s.egress[v] \ s.untagged[v]
                         /\ p \in UntaggedPorts(vw, v) <=> p \in s.untagged[v]
  BY <1>2, <1>4 DEF TaggedPorts
<1>6. /\ TaggedVlans(vw, p) = TaggedIn(s, p)
      /\ UntaggedVlans(vw, p) = UntaggedIn(s, p)
  BY <1>3, <1>5 DEF TaggedVlans, UntaggedVlans, TaggedIn, UntaggedIn
<1> QED BY <1>3, <1>4, <1>6

(***************************************************************************)
(* _plan_switchport_membership: from what the port is in, to what it is to *)
(* be in, and the allowed list that says so.                               *)
(***************************************************************************)
LEMMA PlanMade ==
    ASSUME NEW s, WellFormed(s), NEW o, o.vlan \in s.vlans, NEW m, NEW A \in SUBSET Vlan,
           NEW p, DefaultVlan \in Vlan,
           ~Refused(WantTagged(o, TaggedIn(s, p)), WantUntagged(o, UntaggedIn(s, p)))
    PROVE  LET pl == MakePlan(o, m, A, TaggedIn(s, p), UntaggedIn(s, p), s.vlans)
           IN  pl.made /\ PlanFits(s, o, pl) /\ AsFound(s, p, pl)
<1> DEFINE t    == TaggedIn(s, p)
           u    == UntaggedIn(s, p)
           wt   == WantTagged(o, t)
           wu   == WantUntagged(o, u)
           home == IF wu = {} THEN DefaultVlan ELSE CHOOSE v \in wu : TRUE
           al   == IF m = "trunk" THEN (A \cup (wt \cup {home})) \ (s.vlans \ (wt \cup {home}))
                                  ELSE wt \cup {home}
           pl   == MakePlan(o, m, A, t, u, s.vlans)
<1>1. t \subseteq s.vlans /\ u \subseteq s.vlans /\ t \cap u = {}
  BY DEF TaggedIn, UntaggedIn
<1> HIDE DEF t, u
<1>2. /\ \A a, b \in wu : a = b
      /\ wu = {} => DefaultVlan \notin wt
  BY DEF Refused, t, u
<1>3. wt \cap wu = {}
  BY <1>1 DEF WantTagged, WantUntagged
<1> HIDE DEF wt, wu
<1>4. wu = {home} \/ (wu = {} /\ home = DefaultVlan)
  BY <1>2
<1>5. home \notin wt
  BY <1>2, <1>3, <1>4
<1> HIDE DEF home
<1>6. al \cap s.vlans = (wt \cup {home}) \cap s.vlans
  OBVIOUS
<1> HIDE DEF al
<1>7. pl = [made |-> TRUE, wasTagged |-> t, wasUntagged |-> u, tagged |-> wt,
            untagged |-> home, allowed |-> al]
  BY DEF MakePlan, wt, wu, home, al
<1>8. /\ pl.made = TRUE /\ pl.wasTagged = t /\ pl.wasUntagged = u /\ pl.tagged = wt
      /\ pl.untagged = home /\ pl.allowed = al
  BY <1>7
<1> HIDE DEF pl
<1>9. PlanFits(s, o, pl)
  BY <1>1, <1>4, <1>5, <1>6, <1>8 DEF PlanFits, wt, wu
<1>10. AsFound(s, p, pl)
  BY <1>8 DEF AsFound, t, u
<1> QED BY <1>8, <1>9, <1>10 DEF pl, t, u

LEMMA PlanKept ==
    ASSUME NEW s, NEW t, t.vlans = s.vlans, NEW o, NEW pl, PlanFits(s, o, pl)
    PROVE  PlanFits(t, o, pl)
BY DEF PlanFits

-----------------------------------------------------------------------------
(***************************************************************************)
(* How a call goes on, and how it ends.                                    *)
(***************************************************************************)
\* The last column but one is in: the walk is over, or the next column is next.
LEMMA WalksOn ==
    ASSUME NEW s, NEW at \in Walks, NEW ph, NEW o, NEW vw, NEW pl, NEW b, NEW vw2,
           ClientFits(s, at, ph, o, vw, pl, b),
           NEW next \in Walks \cup {"decide", "verify"},
           next = "decide" => ph # "after", next = "verify" => ph = "after",
           ViewTrue(s, next, vw2)
    PROVE  ClientFits(s, next, ph, o, vw2, pl, b)
<1> USE DEF ClientFits
<1>1. Course(s, next, ph, o, pl)
  BY DEF Course, Walks, Reading, Switching, Qbridge, AfterRaw, Resting, Ended
<1>2. OwnBit(next, ph, o, b)
  BY DEF OwnBit, Walks, AfterRaw
<1>3. OtherBits(s, next, o, b)
  BY DEF OtherBits, Walks, AfterRaw
<1> QED BY <1>1, <1>2, <1>3 DEF Walks

LEMMA EndsFit ==
    ASSUME NEW s, NEW at, NEW ph, NEW o, NEW vw, NEW pl, NEW b,
           ClientFits(s, at, ph, o, vw, pl, b),
           NEW t, NEW how \in Ended, NEW vw2, NEW b2,
           pl.made => PlanFits(t, o, pl) /\ how # "refused",
           how = "ok" =>
             /\ pl.made => Reached(t, o.port, pl)
             /\ (o.kind = "membership" /\ SwitchportModel) => pl.made
             /\ (o.kind = "membership" /\ ~SwitchportModel) => Honoured(t, o)
    PROVE  ClientFits(t, how, "before", o, vw2, pl, b2)
<1>1. Course(t, how, "before", o, pl)
  BY DEF ClientFits, Course, Walks, Reading, Switching, Qbridge, AfterRaw, Resting, Ended
<1>2. ViewTrue(t, how, vw2)
  BY DEF ViewTrue, Heard, Ended
<1>3. OwnBit(how, "before", o, b2) /\ OtherBits(t, how, o, b2)
  BY DEF OwnBit, OtherBits, Ended, AfterRaw
<1> QED BY <1>1, <1>2, <1>3, VlanAgentAssumption DEF ClientFits

LEMMA InitFits == Init => OneClientInv
<1> SUFFICES ASSUME Init, NEW w \in Writer
             PROVE  ClientFits(agent, pc[w], phase[w], op[w], view[w], plan[w], bits[w])
  BY DEF OneClientInv
<1>1. pc[w] = "idle" /\ phase[w] = "before" /\ plan[w] = NoPlan
  BY DEF Init
<1>2. plan[w].made = FALSE
  BY <1>1 DEF NoPlan
<1>3. Course(agent, pc[w], phase[w], op[w], plan[w])
  BY <1>1, <1>2 DEF Course, Reading, Walks, Switching, Qbridge, AfterRaw, Resting
<1>4. ViewTrue(agent, pc[w], view[w])
  BY <1>1 DEF ViewTrue, Heard
<1>5. /\ OwnBit(pc[w], phase[w], op[w], bits[w])
      /\ OtherBits(agent, pc[w], op[w], bits[w])
  BY <1>1 DEF OwnBit, OtherBits, AfterRaw
<1> QED BY <1>1, <1>2, <1>3, <1>4, <1>5 DEF ClientFits

LEMMA InvokeFits ==
    ASSUME TypeOK, OneClientInv, NEW w \in Writer, Invoke(w)
    PROVE  ClientFits(agent', pc'[w], phase'[w], op'[w], view'[w], plan'[w], bits'[w])
<1>1. PICK o \in Calls(w) :
        /\ op' = [op EXCEPT ![w] = o]
        /\ pc' = [pc EXCEPT ![w] = IF GuardRaises(o) THEN "refused" ELSE "name"]
  BY DEF Invoke
<1>2. o.kind \in Kind
  <2> DEFINE Call(kind, port, mode, name, force) ==
               [kind : {kind} \cap Kind, vlan : Vlan, port : port, mode : mode,
                name : name, force : force]
             any == {CHOOSE p \in Physical : TRUE}
  <2>1. ASSUME NEW kind, NEW P, NEW M, NEW N, NEW F, o \in Call(kind, P, M, N, F)
        PROVE  o.kind \in Kind
    BY <2>1
  <2>2. \/ o \in Call("membership", PortsOf[w], VlanMode, {NoName}, Forces)
        \/ o \in Call("pvid", PortsOf[w], {"tagged"}, {NoName}, Forces)
        \/ o \in Call("delete", any, {"tagged"}, {NoName}, Forces)
        \/ o \in Call("create", any, {"tagged"}, Name, {FALSE})
    BY DEF Calls
  <2> HIDE DEF Call, any
  <2> QED BY <2>1, <2>2
<1>3. /\ op'[w] = o /\ pc'[w] \in {"refused", "name"} /\ plan'[w] = NoPlan
      /\ UNCHANGED <<agent, phase, view, bits>>
  BY <1>1 DEF Invoke, TypeOK
<1>4. plan'[w].made = FALSE
  BY <1>3 DEF NoPlan
<1>5. phase[w] # "after"
  <2>1. Course(agent, pc[w], phase[w], op[w], plan[w]) /\ pc[w] \in Resting
    BY DEF OneClientInv, ClientFits, Invoke
  <2> QED BY <2>1 DEF Course, Reading, Walks, Resting, Ended
<1>6. Course(agent', pc'[w], phase'[w], op'[w], plan'[w])
  BY <1>2, <1>3, <1>4, <1>5 DEF Course, Reading, Walks, Switching, Qbridge, AfterRaw, Resting, Ended
<1>7. ViewTrue(agent', pc'[w], view'[w])
  BY <1>3 DEF ViewTrue, Heard
<1>8. /\ OwnBit(pc'[w], phase'[w], op'[w], bits'[w])
      /\ OtherBits(agent', pc'[w], op'[w], bits'[w])
  BY <1>3, <1>5 DEF OwnBit, OtherBits, AfterRaw
<1> QED BY <1>3, <1>4, <1>6, <1>7, <1>8 DEF ClientFits

\* A call that raises, whether or not its plan was made.
LEMMA RaisesFit ==
    ASSUME TypeOK, OneClientInv, NEW w \in Writer, NEW how \in {"refused", "failed", "diverged"},
           End(w, how), UNCHANGED <<op, plan>>, agent'.vlans = agent.vlans \/ ~plan[w].made,
           how = "refused" => ~plan[w].made
    PROVE  ClientFits(agent', pc'[w], phase'[w], op'[w], view'[w], plan'[w], bits'[w])
<1>1. /\ pc'[w] = how /\ phase'[w] = "before"
  BY DEF End, TypeOK
<1>2. ClientFits(agent, pc[w], phase[w], op[w], view[w], plan[w], bits[w])
  BY DEF OneClientInv
<1>3. plan[w].made => PlanFits(agent', op[w], plan[w])
  BY <1>2, PlanKept DEF ClientFits
<1> QED BY <1>1, <1>2, <1>3, EndsFit DEF Ended

LEMMA GetVlansFits ==
    ASSUME TypeOK, OneClientInv, NEW w \in Writer, GetVlans(w)
    PROVE  ClientFits(agent', pc'[w], phase'[w], op'[w], view'[w], plan'[w], bits'[w])
<1>1. /\ ClientFits(agent, pc[w], phase[w], op[w], view[w], plan[w], bits[w])
      /\ ViewTrue(agent, pc[w], view[w]) /\ view[w] \in View
      /\ phase[w] \in {"before", "after"}
  BY DEF OneClientInv, ClientFits, TypeOK
<1>2. ASSUME NEW at \in Walks, NEW next \in Walks \cup {"decide", "verify"}, NEW vw,
             next # "name", Walk(w, at, next, vw), ViewTrue(agent, next, vw),
             next = "decide" => phase[w] # "after", next = "verify" => phase[w] = "after"
      PROVE  ClientFits(agent', pc'[w], phase'[w], op'[w], view'[w], plan'[w], bits'[w])
  <2>1. /\ pc[w] = at /\ pc'[w] = next /\ view'[w] = vw /\ phase'[w] = phase[w]
        /\ UNCHANGED <<agent, op, plan, bits>>
    BY <1>2 DEF Walk, Advance, TypeOK
  <2> QED BY <1>1, <1>2, <2>1, WalksOn
<1>3. CASE WalkName(w)
  <2> DEFINE vw == [view[w] EXCEPT !.rows = agent.static, !.name = agent.name]
  <2>1. vw.rows = agent.static
    BY <1>1 DEF View
  <2>2. ViewTrue(agent, "egress", vw)
    BY <2>1 DEF ViewTrue, Heard
  <2> HIDE DEF vw
  <2>3. Walk(w, "name", "egress", vw)
    BY <1>3 DEF WalkName, vw
  <2> QED BY <1>2, <2>2, <2>3 DEF Walks
<1>4. CASE WalkEgress(w)
  <2> DEFINE vw == [view[w] EXCEPT !.egress = Visible(agent.egress, agent.static)]
  <2>1. vw.rows = view[w].rows /\ vw.egress = Visible(agent.egress, agent.static)
    BY <1>1 DEF View
  <2>2. pc[w] = "egress"
    BY <1>4 DEF WalkEgress, Walk
  <2>3. ViewTrue(agent, "untagged", vw)
    BY <1>1, <2>1, <2>2 DEF ViewTrue, Heard
  <2> HIDE DEF vw
  <2>4. Walk(w, "egress", "untagged", vw)
    BY <1>4 DEF WalkEgress, vw
  <2> QED BY <1>2, <2>3, <2>4 DEF Walks
<1>5. CASE WalkUntagged(w)
  <2> DEFINE vw == [view[w] EXCEPT !.untagged = Visible(agent.untagged, agent.static)]
  <2>1. /\ vw.rows = view[w].rows /\ vw.egress = view[w].egress
        /\ vw.untagged = Visible(agent.untagged, agent.static)
    BY <1>1 DEF View
  <2>2. pc[w] = "untagged"
    BY <1>5 DEF WalkUntagged, Walk
  <2>3. ViewTrue(agent, "curEgress", vw)
    BY <1>1, <2>1, <2>2 DEF ViewTrue, Heard
  <2> HIDE DEF vw
  <2>4. Walk(w, "untagged", "curEgress", vw)
    BY <1>5 DEF WalkUntagged, vw
  <2> QED BY <1>2, <2>3, <2>4 DEF Walks
<1>6. CASE WalkCurrentEgress(w)
  <2> DEFINE vw == [view[w] EXCEPT !.current = agent.vlans,
                                   !.curEgress = Visible(agent.egress, agent.vlans)]
  <2>1. /\ vw.rows = view[w].rows /\ vw.egress = view[w].egress
        /\ vw.untagged = view[w].untagged
        /\ vw.current = agent.vlans /\ vw.curEgress = Visible(agent.egress, agent.vlans)
    BY <1>1 DEF View
  <2>2. pc[w] = "curEgress"
    BY <1>6 DEF WalkCurrentEgress, Walk
  <2>3. ViewTrue(agent, "curUntagged", vw)
    BY <1>1, <2>1, <2>2 DEF ViewTrue, Heard
  <2> HIDE DEF vw
  <2>4. Walk(w, "curEgress", "curUntagged", vw)
    BY <1>6 DEF WalkCurrentEgress, vw
  <2> QED BY <1>2, <2>3, <2>4 DEF Walks
<1>7. CASE WalkCurrentUntagged(w)
  <2> DEFINE vw   == [view[w] EXCEPT !.curUntagged = Visible(agent.untagged, agent.vlans)]
             next == IF phase[w] = "before" THEN "decide" ELSE "verify"
  <2>1. /\ vw.rows = view[w].rows /\ vw.egress = view[w].egress
        /\ vw.untagged = view[w].untagged /\ vw.current = view[w].current
        /\ vw.curEgress = view[w].curEgress
        /\ vw.curUntagged = Visible(agent.untagged, agent.vlans)
    BY <1>1 DEF View
  <2>2. pc[w] = "curUntagged"
    BY <1>7 DEF WalkCurrentUntagged, Walk
  <2>3. next \in {"decide", "verify"} /\ (next = "decide" => phase[w] # "after")
        /\ (next = "verify" => phase[w] = "after")
    BY <1>1
  <2>4. Walk(w, "curUntagged", next, vw)
    BY <1>7 DEF WalkCurrentUntagged
  <2> HIDE DEF vw, next
  <2>5. ViewTrue(agent, next, vw)
    BY <1>1, <2>1, <2>2, <2>3 DEF ViewTrue, Heard
  <2> QED BY <1>2, <2>3, <2>4, <2>5 DEF Walks
<1> QED BY <1>3, <1>4, <1>5, <1>6, <1>7 DEF GetVlans

LEMMA LoseReadFits ==
    ASSUME TypeOK, OneClientInv, NEW w \in Writer, LoseRead(w)
    PROVE  ClientFits(agent', pc'[w], phase'[w], op'[w], view'[w], plan'[w], bits'[w])
<1>1. UNCHANGED <<agent, op, plan>>
  BY DEF LoseRead
<1>2. CASE tries[w] < Retries
  <2>1. UNCHANGED <<pc, phase, view, bits>>
    BY <1>2 DEF LoseRead
  <2> QED BY <1>1, <2>1 DEF OneClientInv
<1>3. CASE End(w, "failed")
  BY <1>1, <1>3, RaisesFit
<1> QED BY <1>2, <1>3 DEF LoseRead

LEMMA DecideFits ==
    ASSUME TypeOK, OneClientInv, NEW w \in Writer, Decide(w)
    PROVE  ClientFits(agent', pc'[w], phase'[w], op'[w], view'[w], plan'[w], bits'[w])
<1> DEFINE o == op[w]
<1>1. /\ ClientFits(agent, pc[w], phase[w], o, view[w], plan[w], bits[w])
      /\ pc[w] = "decide" /\ UNCHANGED <<agent, op, plan>>
      /\ WellFormed(agent) /\ o \in Operation
  BY DEF OneClientInv, TypeOK, AgentTypeOK, Decide
<1>2. ~plan[w].made /\ phase[w] # "after" /\ o.kind \in Kind
  BY <1>1 DEF ClientFits, Course, Switching, Reading, Walks, Resting, Ended
<1>3. CASE End(w, "refused")
  BY <1>1, <1>2, <1>3, RaisesFit
<1>4. CASE /\ ~PreconditionFails(w) /\ Advance(w, FirstRequest(o)) /\ UNCHANGED <<view, bits>>
  <2>1. /\ pc'[w] = FirstRequest(o) /\ phase'[w] = phase[w]
        /\ UNCHANGED <<agent, op, plan, view, bits>>
    <3>1. FirstRequest(o) # "name"
      BY <1>1 DEF FirstRequest, Operation, Kinds
    <3> QED BY <1>1, <1>4, <3>1 DEF Advance, TypeOK
  <2>2. o.port \in Physical /\ "decide" \in Heard
    BY <1>1 DEF Operation, Heard
  <2>3. Present(view[w]) = agent.vlans
    BY <1>1, <2>2, ViewTells DEF ClientFits
  <2>4. o.kind = "create" \/ o.vlan \in agent.vlans
    BY <1>4, <2>3 DEF PreconditionFails
  <2>5. \/ FirstRequest(o) = "getMode" /\ o.kind = "membership" /\ SwitchportModel
        \/ FirstRequest(o) = "rawEgress" /\ o.kind = "membership" /\ ~SwitchportModel
        \/ FirstRequest(o) = "setCreate" /\ o.kind = "create"
        \/ FirstRequest(o) = "setDestroy" /\ o.kind = "delete"
        \/ FirstRequest(o) = "readPvids" /\ o.kind = "pvid"
    BY <1>1 DEF FirstRequest, Operation, Kinds
  <2> DEFINE next == FirstRequest(o)
  <2> HIDE DEF next
  <2>6. \/ next = "getMode" /\ o.kind = "membership" /\ SwitchportModel
        \/ next = "rawEgress" /\ o.kind = "membership" /\ ~SwitchportModel
        \/ next = "setCreate" /\ o.kind = "create"
        \/ next = "setDestroy" /\ o.kind = "delete"
        \/ next = "readPvids" /\ o.kind = "pvid"
    BY <2>5 DEF next
  <2>7. Course(agent, next, phase[w], o, plan[w])
    BY <1>2, <2>4, <2>6 DEF Course, Switching, Qbridge, AfterRaw, Resting, Ended
  <2>8. ViewTrue(agent, next, view[w])
    BY <1>1, <2>6 DEF ClientFits, ViewTrue, Heard
  <2>9. OwnBit(next, phase[w], o, bits[w]) /\ OtherBits(agent, next, o, bits[w])
    BY <1>2, <2>6 DEF OwnBit, OtherBits, AfterRaw
  <2>10. next # "ok" /\ pc'[w] = next
    BY <2>1, <2>6 DEF next
  <2> QED BY <1>2, <2>1, <2>7, <2>8, <2>9, <2>10 DEF ClientFits
<1> QED BY <1>3, <1>4 DEF Decide

LEMMA GetModeFits ==
    ASSUME TypeOK, OneClientInv, NEW w \in Writer, GetMode(w)
    PROVE  ClientFits(agent', pc'[w], phase'[w], op'[w], view'[w], plan'[w], bits'[w])
<1>1. /\ ClientFits(agent, pc[w], phase[w], op[w], view[w], plan[w], bits[w])
      /\ pc[w] = "getMode" /\ pc'[w] = "getAllowed" /\ phase'[w] = phase[w]
      /\ UNCHANGED <<agent, op, view, plan, bits>>
  BY DEF OneClientInv, TypeOK, GetMode, Advance
<1>2. Course(agent, "getAllowed", phase[w], op[w], plan[w])
  BY <1>1 DEF ClientFits, Course, Switching, Reading, Walks, Qbridge, AfterRaw, Resting, Ended
<1>3. ViewTrue(agent, "getAllowed", view[w])
  BY <1>1 DEF ClientFits, ViewTrue, Heard
<1>4. /\ OwnBit("getAllowed", phase[w], op[w], bits[w])
      /\ OtherBits(agent, "getAllowed", op[w], bits[w])
  BY <1>1 DEF ClientFits, OwnBit, OtherBits, AfterRaw
<1> QED BY <1>1, <1>2, <1>3, <1>4 DEF ClientFits

\* The plan, when there is one, and what it was made from.
LEMMA GetAllowedPlans ==
    ASSUME TypeOK, OneClientInv, NEW w \in Writer, GetAllowed(w)
    PROVE  /\ UNCHANGED <<agent, op>> /\ ~plan[w].made
           /\ \/ End(w, "refused") /\ UNCHANGED plan
              \/ /\ plan'[w].made /\ PlanFits(agent, op[w], plan'[w])
                 /\ AsFound(agent, op[w].port, plan'[w])
                 /\ pc'[w] = IF plan'[w].tagged # {} THEN "setAllowed" ELSE "setAccess"
                 /\ phase'[w] = phase[w] /\ UNCHANGED <<view, bits>>
<1> DEFINE o  == op[w]
           t  == TaggedVlans(view[w], o.port)
           u  == UntaggedVlans(view[w], o.port)
           pl == MakePlan(o, seen[w], agent.allowed[o.port], t, u, Present(view[w]))
<1>1. /\ ClientFits(agent, pc[w], phase[w], o, view[w], plan[w], bits[w])
      /\ pc[w] = "getAllowed" /\ UNCHANGED <<agent, op>>
      /\ WellFormed(agent) /\ o \in Operation
  BY DEF OneClientInv, TypeOK, AgentTypeOK, GetAllowed
<1>2. ~plan[w].made /\ phase[w] # "after" /\ o.vlan \in agent.vlans
  BY <1>1 DEF ClientFits, Course, Switching, Reading, Walks
<1>3. o.port \in Physical /\ "getAllowed" \in Heard /\ ViewTrue(agent, "getAllowed", view[w])
  BY <1>1 DEF ClientFits, Operation, Heard
<1>4. /\ t = TaggedIn(agent, o.port) /\ u = UntaggedIn(agent, o.port)
      /\ Present(view[w]) = agent.vlans
  BY <1>1, <1>3, ViewTells
<1>5. agent.allowed[o.port] \in SUBSET Vlan
  BY <1>1, <1>3, VlanAgentAssumption DEF WellFormed, AgentState
<1> HIDE DEF t, u
<1>6. ~Refused(WantTagged(o, t), WantUntagged(o, u)) =>
        pl.made /\ PlanFits(agent, o, pl) /\ AsFound(agent, o.port, pl)
  BY <1>1, <1>2, <1>4, <1>5, PlanMade, VlanAgentAssumption
<1> HIDE DEF pl
<1>7. CASE End(w, "refused") /\ UNCHANGED plan
  BY <1>1, <1>2, <1>7
<1>8. CASE /\ ~Refused(WantTagged(o, t), WantUntagged(o, u))
           /\ plan' = [plan EXCEPT ![w] = pl]
           /\ Advance(w, IF pl.tagged # {} THEN "setAllowed" ELSE "setAccess")
           /\ UNCHANGED <<view, bits>>
  <2>1. plan'[w] = pl
    BY <1>8 DEF TypeOK
  <2>2. /\ pc'[w] = IF pl.tagged # {} THEN "setAllowed" ELSE "setAccess"
        /\ phase'[w] = phase[w]
    BY <1>8 DEF Advance, TypeOK
  <2> QED BY <1>1, <1>2, <1>6, <1>8, <2>1, <2>2
<1> QED BY <1>7, <1>8 DEF GetAllowed, t, u, pl

LEMMA GetAllowedFits ==
    ASSUME TypeOK, OneClientInv, NEW w \in Writer, GetAllowed(w)
    PROVE  ClientFits(agent', pc'[w], phase'[w], op'[w], view'[w], plan'[w], bits'[w])
<1>1. /\ ClientFits(agent, pc[w], phase[w], op[w], view[w], plan[w], bits[w])
      /\ pc[w] = "getAllowed"
  BY DEF OneClientInv, GetAllowed
<1>2. UNCHANGED <<agent, op>> /\ ~plan[w].made
  BY GetAllowedPlans
<1>3. CASE End(w, "refused") /\ UNCHANGED plan
  BY <1>2, <1>3, RaisesFit
<1>4. CASE /\ plan'[w].made /\ PlanFits(agent, op[w], plan'[w])
           /\ pc'[w] = IF plan'[w].tagged # {} THEN "setAllowed" ELSE "setAccess"
           /\ phase'[w] = phase[w] /\ UNCHANGED <<view, bits>>
  <2>1. pc'[w] \in {"setAllowed", "setAccess"}
    BY <1>4
  <2>2. Course(agent, pc'[w], phase[w], op[w], plan'[w])
    BY <1>1, <1>4, <2>1
       DEF ClientFits, Course, Switching, Reading, Walks, Qbridge, AfterRaw, Resting, Ended
  <2>3. ViewTrue(agent, pc'[w], view[w])
    BY <2>1 DEF ViewTrue, Heard
  <2>4. OwnBit(pc'[w], phase[w], op[w], bits[w]) /\ OtherBits(agent, pc'[w], op[w], bits[w])
    BY <1>1, <2>1 DEF ClientFits, OwnBit, OtherBits, AfterRaw
  <2> QED BY <1>2, <1>4, <2>1, <2>2, <2>3, <2>4 DEF ClientFits
<1> QED BY <1>3, <1>4, GetAllowedPlans

LEMMA RawFits ==
    ASSUME TypeOK, OneClientInv, NEW w \in Writer, RawEgress(w) \/ RawUntagged(w)
    PROVE  ClientFits(agent', pc'[w], phase'[w], op'[w], view'[w], plan'[w], bits'[w])
<1> DEFINE o == op[w]
<1>1. /\ ClientFits(agent, pc[w], phase[w], o, view[w], plan[w], bits[w])
      /\ pc[w] \in {"rawEgress", "rawUntagged"} /\ UNCHANGED <<agent, op, view, plan>>
      /\ bits[w] \in Bits
  BY DEF OneClientInv, TypeOK, RawEgress, RawUntagged
<1>2. /\ ~plan[w].made /\ phase[w] # "after" /\ o.kind = "membership" /\ o.kind \in Kind
      /\ ~SwitchportModel /\ o.vlan \in agent.vlans
  BY <1>1 DEF ClientFits, Course, Switching, Reading, Walks, Qbridge, Resting, Ended
<1>3. ASSUME NEW next \in AfterRaw \cup {"rawUntagged"}, pc'[w] = next, phase'[w] = phase[w],
             ViewTrue(agent, next, view[w]),
             OwnBit(next, phase[w], o, bits'[w]), OtherBits(agent, next, o, bits'[w])
      PROVE  ClientFits(agent', pc'[w], phase'[w], op'[w], view'[w], plan'[w], bits'[w])
  <2>1. Course(agent, next, phase[w], o, plan[w])
    BY <1>2, <1>3 DEF Course, Switching, Qbridge, AfterRaw, Resting, Ended
  <2>2. next # "ok"
    BY <1>3 DEF AfterRaw
  <2> QED BY <1>1, <1>2, <1>3, <2>1, <2>2 DEF ClientFits
<1>4. ASSUME NEW ports, NEW on \in BOOLEAN
      PROVE  /\ o.port \in SetPortBit(ports, o.port, on) <=> on
             /\ \A q \in Port \ {o.port} : q \in SetPortBit(ports, o.port, on) <=> q \in ports
  BY DEF SetPortBit
<1>5. InEgress(o) \in BOOLEAN /\ InUntagged(o) \in BOOLEAN
  BY DEF InEgress, InUntagged
<1>6. CASE RawEgress(w)
  <2> DEFINE raw == IF o.vlan \in agent.static THEN agent.egress[o.vlan]
                                               ELSE Members(view[w], o.vlan)
             e   == SetPortBit(raw, o.port, InEgress(o))
  <2>1. bits' = [bits EXCEPT ![w].egress = e] /\ pc'[w] = "rawUntagged" /\ phase'[w] = phase[w]
    BY <1>6 DEF RawEgress, Advance, TypeOK
  <2>2. agent.static = agent.vlans => raw = agent.egress[o.vlan]
    BY <1>2
  <2> HIDE DEF raw
  <2>3. /\ o.port \in e <=> InEgress(o)
        /\ agent.static = agent.vlans =>
             \A q \in Port \ {o.port} : q \in e <=> q \in agent.egress[o.vlan]
    BY <1>4, <1>5, <2>2
  <2> HIDE DEF e
  <2>4. bits'[w].egress = e
    BY <1>1, <2>1 DEF TypeOK, Bits
  <2>5. /\ OwnBit("rawUntagged", phase[w], o, bits'[w])
        /\ OtherBits(agent, "rawUntagged", o, bits'[w])
    BY <1>2, <2>3, <2>4 DEF OwnBit, OtherBits, AfterRaw
  <2>6. ViewTrue(agent, "rawUntagged", view[w])
    BY <1>1, <1>6 DEF ClientFits, RawEgress, ViewTrue, Heard
  <2> QED BY <1>3, <2>1, <2>5, <2>6
<1>7. CASE RawUntagged(w)
  <2> DEFINE raw  == IF o.vlan \in agent.static THEN agent.untagged[o.vlan]
                                                ELSE UntaggedPorts(view[w], o.vlan)
             u    == SetPortBit(raw, o.port, InUntagged(o))
             next == IF SplitWrites THEN "setEgress" ELSE "setBoth"
  <2>1. /\ bits' = [bits EXCEPT ![w].untagged = u] /\ pc'[w] = next /\ phase'[w] = phase[w]
        /\ pc[w] = "rawUntagged"
    BY <1>7 DEF RawUntagged, Advance, TypeOK
  <2>2. agent.static = agent.vlans => raw = agent.untagged[o.vlan]
    BY <1>2
  <2> HIDE DEF raw
  <2>3. /\ o.port \in u <=> InUntagged(o)
        /\ agent.static = agent.vlans =>
             \A q \in Port \ {o.port} : q \in u <=> q \in agent.untagged[o.vlan]
    BY <1>4, <1>5, <2>2
  <2> HIDE DEF u
  <2>4. bits'[w].untagged = u /\ bits'[w].egress = bits[w].egress
    BY <1>1, <2>1 DEF TypeOK, Bits
  <2>5. next \in {"setEgress", "setBoth"}
    OBVIOUS
  <2> HIDE DEF next
  <2>6. OwnBit(next, phase[w], o, bits'[w])
    BY <1>1, <1>2, <2>1, <2>3, <2>4, <2>5 DEF ClientFits, OwnBit, AfterRaw
  <2>7. OtherBits(agent, next, o, bits'[w])
    BY <1>1, <1>2, <2>1, <2>3, <2>4, <2>5 DEF ClientFits, OtherBits, AfterRaw
  <2>8. ViewTrue(agent, next, view[w])
    BY <2>5 DEF ViewTrue, Heard
  <2> QED BY <1>3, <2>1, <2>5, <2>6, <2>7, <2>8 DEF AfterRaw
<1> QED BY <1>6, <1>7

LEMMA ReadPvidsFits ==
    ASSUME TypeOK, OneClientInv, NEW w \in Writer, ReadPvids(w)
    PROVE  ClientFits(agent', pc'[w], phase'[w], op'[w], view'[w], plan'[w], bits'[w])
<1>1. /\ ClientFits(agent, pc[w], phase[w], op[w], view[w], plan[w], bits[w])
      /\ pc[w] = "readPvids" /\ pc'[w] = "setPvid" /\ phase'[w] = phase[w]
      /\ UNCHANGED <<agent, op, view, plan, bits>>
  BY DEF OneClientInv, TypeOK, ReadPvids, Advance
<1>2. Course(agent, "setPvid", phase[w], op[w], plan[w])
  BY <1>1 DEF ClientFits, Course, Switching, Reading, Walks, Qbridge, AfterRaw, Resting, Ended
<1>3. ViewTrue(agent, "setPvid", view[w])
  BY DEF ViewTrue, Heard
<1>4. OwnBit("setPvid", phase[w], op[w], bits[w]) /\ OtherBits(agent, "setPvid", op[w], bits[w])
  BY <1>1 DEF ClientFits, OwnBit, OtherBits, AfterRaw
<1> QED BY <1>1, <1>2, <1>3, <1>4 DEF ClientFits

\* What an answer that verifies says of the switch.
LEMMA VerifiedMeans ==
    ASSUME TypeOK, OneClientInv, NEW w \in Writer, pc[w] = "verify", Verified(w),
           op[w].kind = "membership"
    PROVE  IF SwitchportModel THEN plan[w].made /\ Reached(agent, op[w].port, plan[w])
                              ELSE Honoured(agent, op[w])
<1> DEFINE o == op[w]
<1>1. /\ ClientFits(agent, pc[w], phase[w], o, view[w], plan[w], bits[w])
      /\ WellFormed(agent) /\ o.port \in Physical /\ o.vlan \in Vlan
      /\ bits[w].egress \subseteq Port /\ bits[w].untagged \subseteq Port
  BY DEF OneClientInv, TypeOK, AgentTypeOK, Operation, Bits
<1>2. phase[w] = "after" /\ (SwitchportModel => plan[w].made)
  BY <1>1 DEF ClientFits, Course
<1>3. "verify" \in Heard /\ ViewTrue(agent, "verify", view[w])
  BY <1>1 DEF ClientFits, Heard
<1>4. /\ Present(view[w]) = agent.vlans
      /\ Members(view[w], o.vlan) = agent.egress[o.vlan] \cap Physical
      /\ UntaggedPorts(view[w], o.vlan) = agent.untagged[o.vlan] \cap Physical
      /\ TaggedVlans(view[w], o.port) = TaggedIn(agent, o.port)
      /\ UntaggedVlans(view[w], o.port) = UntaggedIn(agent, o.port)
  BY <1>1, <1>3, ViewTells
<1>5. CASE SwitchportModel
  <2>1. ~Diverges(plan[w], view[w], o.vlan, o.port)
    BY <1>5 DEF Verified
  <2> QED BY <1>2, <1>4, <1>5, <2>1 DEF Diverges, Reached
<1>6. CASE ~SwitchportModel
  <2>1. /\ o.vlan \in Present(view[w])
        /\ Members(view[w], o.vlan) = bits[w].egress \cap Physical
        /\ UntaggedPorts(view[w], o.vlan) = bits[w].untagged \cap Physical
    BY <1>6 DEF Verified
  <2>2. /\ o.port \in bits[w].egress <=> InEgress(o)
        /\ o.port \in bits[w].untagged <=> InUntagged(o)
    BY <1>1, <1>2, <1>6 DEF ClientFits, OwnBit
  <2>3. Honoured(agent, o)
    BY <1>1, <1>4, <2>1, <2>2 DEF Honoured
  <2> QED BY <1>6, <2>3
<1> QED BY <1>5, <1>6

LEMMA VerifyFits ==
    ASSUME TypeOK, OneClientInv, NEW w \in Writer, Verify(w) \/ VerifyPvids(w)
    PROVE  ClientFits(agent', pc'[w], phase'[w], op'[w], view'[w], plan'[w], bits'[w])
<1>1. /\ ClientFits(agent, pc[w], phase[w], op[w], view[w], plan[w], bits[w])
      /\ UNCHANGED <<agent, op, plan>>
  BY DEF OneClientInv, Verify, VerifyPvids
<1>2. CASE End(w, "diverged")
  BY <1>1, <1>2, RaisesFit
<1>3. CASE End(w, "ok") /\ ((pc[w] = "verify" /\ Verified(w)) \/ pc[w] = "verifyPvids")
  <2>1. /\ pc'[w] = "ok" /\ phase'[w] = "before"
    BY <1>3 DEF End, TypeOK
  <2>2. op[w].kind = "membership" => pc[w] = "verify" /\ Verified(w)
    BY <1>1, <1>3 DEF ClientFits, Course
  <2>3. plan[w].made => op[w].kind = "membership" /\ SwitchportModel
    BY <1>1 DEF ClientFits, Course
  <2>4. op[w].kind = "membership" =>
          IF SwitchportModel THEN plan[w].made /\ Reached(agent, op[w].port, plan[w])
                             ELSE Honoured(agent, op[w])
    BY <2>2, VerifiedMeans
  <2>5. plan[w].made => PlanFits(agent, op[w], plan[w]) /\ Reached(agent, op[w].port, plan[w])
    BY <1>1, <2>3, <2>4 DEF ClientFits
  <2>6. "ok" \in Ended
    BY DEF Ended
  <2>7. /\ (op[w].kind = "membership" /\ SwitchportModel) => plan[w].made
        /\ (op[w].kind = "membership" /\ ~SwitchportModel) => Honoured(agent, op[w])
    BY <2>4
  <2>8. ClientFits(agent, "ok", "before", op[w], view'[w], plan[w], bits'[w])
    BY <1>1, <2>5, <2>6, <2>7, EndsFit
  <2> QED BY <1>1, <2>1, <2>8
<1> QED BY <1>2, <1>3 DEF Verify, VerifyPvids

-----------------------------------------------------------------------------
(***************************************************************************)
(* What each SET leaves alone.                                             *)
(***************************************************************************)
\* From s to t only port p's membership changes, and no VLAN comes or goes.
OnlyPort(s, t, p) ==
    /\ t.vlans = s.vlans /\ t.static = s.static
    /\ \A q \in Port \ {p}, v \in Vlan :
         /\ q \in t.egress[v] <=> q \in s.egress[v]
         /\ q \in t.untagged[v] <=> q \in s.untagged[v]

\* t's columns for port p are s's, but for the one that was written.
Columns(s, t, p, mode, access, native, allowed) ==
    /\ t.mode[p] = mode /\ t.access[p] = access /\ t.native[p] = native
    /\ t.allowed[p] = allowed
    /\ t.generalU[p] = s.generalU[p] /\ t.generalT[p] = s.generalT[p]

LEMMA ApplyFrame ==
    ASSUME NEW s, WellFormed(s), NEW p \in Port
    PROVE  LET t == ApplySwitchport(s, {p})
           IN  OnlyPort(s, t, p)
               /\ Columns(s, t, p, s.mode[p], s.access[p], s.native[p], s.allowed[p])
<1> DEFINE t == ApplySwitchport(s, {p})
<1>1. /\ t.vlans = s.vlans /\ t.static = s.static
      /\ t.mode = s.mode /\ t.access = s.access /\ t.native = s.native
      /\ t.allowed = s.allowed /\ t.generalU = s.generalU /\ t.generalT = s.generalT
  BY DEF ApplySwitchport, WellFormed, AgentState
<1>2. \A q \in Port \ {p}, v \in Vlan :
         /\ q \in t.egress[v] <=> q \in s.egress[v]
         /\ q \in t.untagged[v] <=> q \in s.untagged[v]
  BY DEF ApplySwitchport, WellFormed, AgentState
<1> HIDE DEF t
<1> QED BY <1>1, <1>2 DEF OnlyPort, Columns, t

LEMMA SwitchportFrame ==
    ASSUME NEW s, WellFormed(s), NEW p \in Port, NEW v \in Vlan,
           NEW m \in Mode, NEW V \in SUBSET Vlan
    PROVE  /\ OnlyPort(s, WriteMode(s, p, m), p)
           /\ Columns(s, WriteMode(s, p, m), p, m, s.access[p], s.native[p], s.allowed[p])
           /\ OnlyPort(s, WriteAccessVlan(s, p, v), p)
           /\ Columns(s, WriteAccessVlan(s, p, v), p, s.mode[p], v, s.native[p], s.allowed[p])
           /\ OnlyPort(s, WriteNative(s, p, v), p)
           /\ Columns(s, WriteNative(s, p, v), p, s.mode[p], s.access[p], v, s.allowed[p])
           /\ OnlyPort(s, WriteAllowed(s, p, V), p)
           /\ Columns(s, WriteAllowed(s, p, V), p, s.mode[p], s.access[p], s.native[p], V)
<1>1. ASSUME NEW r, WellFormed(r), NEW mode, NEW access, NEW native, NEW allowed,
             r.vlans = s.vlans, r.static = s.static, r.egress = s.egress,
             r.untagged = s.untagged,
             Columns(s, r, p, mode, access, native, allowed)
      PROVE  /\ OnlyPort(s, ApplySwitchport(r, {p}), p)
             /\ Columns(s, ApplySwitchport(r, {p}), p, mode, access, native, allowed)
  <2> DEFINE t == ApplySwitchport(r, {p})
  <2>1. /\ OnlyPort(r, t, p)
        /\ Columns(r, t, p, r.mode[p], r.access[p], r.native[p], r.allowed[p])
    BY <1>1, ApplyFrame
  <2> HIDE DEF t
  <2>2. OnlyPort(s, t, p) /\ Columns(s, t, p, mode, access, native, allowed)
    BY <1>1, <2>1 DEF OnlyPort, Columns
  <2> QED BY <2>2 DEF t
<1>2. /\ OnlyPort(s, WriteMode(s, p, m), p)
      /\ Columns(s, WriteMode(s, p, m), p, m, s.access[p], s.native[p], s.allowed[p])
  <2> DEFINE r == [s EXCEPT !.mode[p] = m]
  <2>1. /\ WellFormed(r) /\ r.vlans = s.vlans /\ r.static = s.static /\ r.egress = s.egress
        /\ r.untagged = s.untagged
        /\ Columns(s, r, p, m, s.access[p], s.native[p], s.allowed[p])
    BY DEF WellFormed, AgentState, Columns
  <2> HIDE DEF r
  <2>2. WriteMode(s, p, m) = ApplySwitchport(r, {p})
    BY DEF WriteMode, r
  <2> QED BY <1>1, <2>1, <2>2
<1>3. /\ OnlyPort(s, WriteAccessVlan(s, p, v), p)
      /\ Columns(s, WriteAccessVlan(s, p, v), p, s.mode[p], v, s.native[p], s.allowed[p])
  <2> DEFINE r == [s EXCEPT !.access[p] = v]
  <2>1. /\ WellFormed(r) /\ r.vlans = s.vlans /\ r.static = s.static /\ r.egress = s.egress
        /\ r.untagged = s.untagged
        /\ Columns(s, r, p, s.mode[p], v, s.native[p], s.allowed[p])
    BY DEF WellFormed, AgentState, Columns
  <2> HIDE DEF r
  <2>2. WriteAccessVlan(s, p, v) = ApplySwitchport(r, {p})
    BY DEF WriteAccessVlan, r
  <2> QED BY <1>1, <2>1, <2>2
<1>4. /\ OnlyPort(s, WriteNative(s, p, v), p)
      /\ Columns(s, WriteNative(s, p, v), p, s.mode[p], s.access[p], v, s.allowed[p])
  <2> DEFINE r == [s EXCEPT !.native[p] = v]
  <2>1. /\ WellFormed(r) /\ r.vlans = s.vlans /\ r.static = s.static /\ r.egress = s.egress
        /\ r.untagged = s.untagged
        /\ Columns(s, r, p, s.mode[p], s.access[p], v, s.allowed[p])
    BY DEF WellFormed, AgentState, Columns
  <2> HIDE DEF r
  <2>2. WriteNative(s, p, v) = ApplySwitchport(r, {p})
    BY DEF WriteNative, r
  <2> QED BY <1>1, <2>1, <2>2
<1>5. /\ OnlyPort(s, WriteAllowed(s, p, V), p)
      /\ Columns(s, WriteAllowed(s, p, V), p, s.mode[p], s.access[p], s.native[p], V)
  <2> DEFINE r == [s EXCEPT !.allowed[p] = V]
  <2>1. /\ WellFormed(r) /\ r.vlans = s.vlans /\ r.static = s.static /\ r.egress = s.egress
        /\ r.untagged = s.untagged
        /\ Columns(s, r, p, s.mode[p], s.access[p], s.native[p], V)
    BY DEF WellFormed, AgentState, Columns
  <2> HIDE DEF r
  <2>2. WriteAllowed(s, p, V) = ApplySwitchport(r, {p})
    BY DEF WriteAllowed, r
  <2> QED BY <1>1, <2>1, <2>2
<1> QED BY <1>2, <1>3, <1>4, <1>5

\* The PortList of v becomes e; an egress write may untag what it adds.
LEMMA EgressWritten ==
    ASSUME NEW s, WellFormed(s), ~SwitchportModel, NEW v \in Vlan, NEW e \in SUBSET Port,
           NEW t, t = WriteEgress(s, v, e)
    PROVE  /\ t.vlans = s.vlans /\ t.static = s.static
           /\ t.egress = IF v \in s.vlans THEN [s.egress EXCEPT ![v] = e] ELSE s.egress
           /\ t.untagged = IF v \in s.vlans /\ AutoUntag
                           THEN [s.untagged EXCEPT ![v] = s.untagged[v] \cup (e \ s.egress[v])]
                           ELSE s.untagged
<1> DEFINE x  == IF AutoUntag THEN s.untagged[v] \cup (e \ s.egress[v]) ELSE s.untagged[v]
           eg == [s.egress EXCEPT ![v] = e]
           un == [s.untagged EXCEPT ![v] = x]
<1>1. CASE v \notin s.vlans
  BY <1>1 DEF WriteEgress
<1>2. CASE v \in s.vlans
  <2>1. t = [s EXCEPT !.egress = eg, !.untagged = un]
    BY <1>2 DEF WriteEgress, WellFormed, AgentState
  <2>2. ~AutoUntag => un = s.untagged
    BY DEF WellFormed, AgentState
  <2>3. AutoUntag => un = [s.untagged EXCEPT ![v] = s.untagged[v] \cup (e \ s.egress[v])]
    OBVIOUS
  <2> HIDE DEF un, x
  <2>4. t.vlans = s.vlans /\ t.static = s.static /\ t.egress = eg /\ t.untagged = un
    BY <2>1 DEF WellFormed, AgentState
  <2> QED BY <1>2, <2>2, <2>3, <2>4
<1> QED BY <1>1, <1>2

LEMMA UntaggedWritten ==
    ASSUME NEW s, WellFormed(s), ~SwitchportModel, NEW v \in Vlan, NEW u \in SUBSET Port,
           NEW same \in BOOLEAN, NEW t, t = WriteUntagged(s, v, u, same)
    PROVE  /\ t.vlans = s.vlans /\ t.static = s.static /\ t.egress = s.egress
           /\ t.untagged = IF v \in s.vlans /\ ~(AutoUntag /\ same)
                           THEN [s.untagged EXCEPT ![v] = u] ELSE s.untagged
BY DEF WriteUntagged, WellFormed, AgentState

-----------------------------------------------------------------------------
(***************************************************************************)
(* The SETs.                                                               *)
(***************************************************************************)
\* A SET of a membership call has been carried out: it is sent again, or the
\* next one is, or the verification begins.
LEMMA MembershipGoesOn ==
    ASSUME NEW s, NEW at, NEW ph, NEW o, NEW vw, NEW pl, NEW b,
           ClientFits(s, at, ph, o, vw, pl, b),
           NEW t, t.vlans = s.vlans, NEW to,
           \/ at \in Switching /\ to \in Switching \cup {"name"}
           \/ at \in AfterRaw /\ to \in AfterRaw \cup {"name"},
           to \in AfterRaw => OtherBits(t, to, o, b)
    PROVE  ClientFits(t, to, IF to = "name" THEN "after" ELSE ph, o, vw, pl, b)
<1> DEFINE ph2 == IF to = "name" THEN "after" ELSE ph
<1>1. /\ o.kind = "membership" /\ o.kind \in Kind /\ ph # "after" /\ o.vlan \in t.vlans
      /\ at \in Switching => SwitchportModel /\ pl.made
      /\ at \in AfterRaw => ~SwitchportModel /\ ~pl.made
  BY DEF ClientFits, Course, Switching, Qbridge, AfterRaw, Reading, Walks, Resting, Ended
<1>2. Course(t, to, ph2, o, pl)
  BY <1>1 DEF Course, Switching, Qbridge, AfterRaw, Reading, Walks, Resting, Ended
<1>3. ViewTrue(t, to, vw)
  BY DEF ViewTrue, Heard, Switching, AfterRaw
<1>4. OwnBit(to, ph2, o, b)
  BY <1>1 DEF ClientFits, OwnBit, Switching, AfterRaw
<1>5. OtherBits(t, to, o, b)
  BY DEF OtherBits, Switching, AfterRaw
<1>6. to # "ok"
  BY DEF Switching, AfterRaw
<1>7. pl.made => PlanFits(t, o, pl)
  BY PlanKept DEF ClientFits
<1> QED BY <1>2, <1>3, <1>4, <1>5, <1>6, <1>7 DEF ClientFits

LEMMA OtherGoesOn ==
    ASSUME NEW s, NEW at \in {"setCreate", "setDestroy", "setPvid"},
           NEW ph, NEW o, NEW vw, NEW pl, NEW b,
           ClientFits(s, at, ph, o, vw, pl, b),
           NEW t, NEW to \in {at, "name", "verifyPvids"},
           to = "verifyPvids" => at = "setPvid", to = "name" => at # "setPvid"
    PROVE  ClientFits(t, to, IF to = "name" THEN "after" ELSE ph, o, vw, pl, b)
<1> DEFINE ph2 == IF to = "name" THEN "after" ELSE ph
<1>1. /\ o.kind # "membership" /\ o.kind \in Kind /\ ph # "after" /\ ~pl.made
      /\ (o.kind = "pvid" <=> at = "setPvid")
      /\ at = "setCreate" => o.kind = "create"
      /\ at = "setDestroy" => o.kind = "delete"
  BY DEF ClientFits, Course, Switching, Reading, Walks, Resting, Ended
<1>2. Course(t, to, ph2, o, pl)
  BY <1>1 DEF Course, Switching, Qbridge, AfterRaw, Reading, Walks, Resting, Ended
<1>3. ViewTrue(t, to, vw)
  BY <1>1 DEF ViewTrue, Heard
<1>4. OwnBit(to, ph2, o, b) /\ OtherBits(t, to, o, b)
  BY <1>1 DEF OwnBit, OtherBits, AfterRaw
<1> QED BY <1>1, <1>2, <1>3, <1>4 DEF ClientFits

\* Where one PDU leaves its call, if it is sent again and if it is answered.
LEMMA TransmitFits ==
    ASSUME TypeOK, OneClientInv, NEW w \in Writer, NEW at, NEW accepted \in BOOLEAN,
           NEW result, NEW next, Transmit(w, at, accepted, result, next),
           ~plan[w].made \/ result.vlans = agent.vlans,
           accepted =>
             /\ ClientFits(result, at, phase[w], op[w], view[w], plan[w], bits[w])
             /\ ClientFits(result, next, IF next = "name" THEN "after" ELSE phase[w],
                           op[w], view[w], plan[w], bits[w])
    PROVE  ClientFits(agent', pc'[w], phase'[w], op'[w], view'[w], plan'[w], bits'[w])
<1>1. /\ ClientFits(agent, at, phase[w], op[w], view[w], plan[w], bits[w])
      /\ UNCHANGED <<op, plan>> /\ pc[w] = at
  BY DEF OneClientInv, Transmit
<1>2. CASE accepted /\ agent' = result /\ Advance(w, next) /\ UNCHANGED <<view, bits>>
  <2>1. pc'[w] = next /\ phase'[w] = IF next = "name" THEN "after" ELSE phase[w]
    BY <1>2 DEF Advance, TypeOK
  <2> QED BY <1>1, <1>2, <2>1
<1>3. CASE ~accepted /\ End(w, "failed") /\ UNCHANGED agent
  BY <1>1, <1>3, RaisesFit
<1>4. CASE /\ agent' \in {agent} \cup (IF accepted THEN {result} ELSE {})
           /\ UNCHANGED <<pc, phase, view, bits>>
  BY <1>1, <1>4
<1>5. CASE /\ agent' \in {agent} \cup (IF accepted THEN {result} ELSE {})
           /\ End(w, "failed")
  <2>1. agent'.vlans = agent.vlans \/ ~plan[w].made
    BY <1>5
  <2> QED BY <1>1, <1>5, <2>1, RaisesFit
<1> QED BY <1>2, <1>3, <1>4, <1>5 DEF Transmit

\* s, after a SET of one PortList that the call prepared, or of both.
ListWrite(s, t, o, b) ==
    \/ t = WriteEgress(s, o.vlan, b.egress)
    \/ t = WriteUntagged(s, o.vlan, b.untagged, FALSE)
    \/ t = WriteMembership(s, o.vlan, b.egress, b.untagged)

\* It touches no other VLAN, and no VLAN comes or goes.
LEMMA ListWriteFrame ==
    ASSUME NEW s, WellFormed(s), ~SwitchportModel, NEW o, o.vlan \in Vlan,
           NEW b \in Bits, NEW t, ListWrite(s, t, o, b)
    PROVE  /\ t.vlans = s.vlans /\ t.static = s.static
           /\ \A x \in Vlan \ {o.vlan} : t.egress[x] = s.egress[x] /\ t.untagged[x] = s.untagged[x]
<1> DEFINE v == o.vlan
           r == WriteEgress(s, v, b.egress)
           Same(x, y) == /\ y.vlans = x.vlans /\ y.static = x.static
                         /\ \A a \in Vlan \ {v} :
                              y.egress[a] = x.egress[a] /\ y.untagged[a] = x.untagged[a]
<1>1. v \in Vlan /\ b.egress \in SUBSET Port /\ b.untagged \in SUBSET Port
  BY DEF Bits
<1>2. WellFormed(r) /\ Same(s, r)
  <2>1. WellFormed(r)
    BY <1>1, QbridgeWellFormed
  <2>2. /\ r.vlans = s.vlans /\ r.static = s.static
        /\ r.egress = IF v \in s.vlans THEN [s.egress EXCEPT ![v] = b.egress] ELSE s.egress
        /\ r.untagged = IF v \in s.vlans /\ AutoUntag
                        THEN [s.untagged EXCEPT ![v] = s.untagged[v] \cup (b.egress \ s.egress[v])]
                        ELSE s.untagged
    BY <1>1, EgressWritten
  <2>3. s.egress \in [Vlan -> SUBSET Port] /\ s.untagged \in [Vlan -> SUBSET Port]
    BY DEF WellFormed, AgentState
  <2> QED BY <2>1, <2>2, <2>3
<1>3. ASSUME NEW x, WellFormed(x), NEW same \in BOOLEAN, t = WriteUntagged(x, v, b.untagged, same)
      PROVE  Same(x, t)
  <2>1. /\ t.vlans = x.vlans /\ t.static = x.static /\ t.egress = x.egress
        /\ t.untagged = IF v \in x.vlans /\ ~(AutoUntag /\ same)
                        THEN [x.untagged EXCEPT ![v] = b.untagged] ELSE x.untagged
    BY <1>1, <1>3, UntaggedWritten
  <2>2. x.untagged \in [Vlan -> SUBSET Port]
    BY <1>3 DEF WellFormed, AgentState
  <2> QED BY <2>1, <2>2
<1> HIDE DEF r
<1>4. CASE t = r
  BY <1>2, <1>4
<1>5. CASE t = WriteUntagged(s, v, b.untagged, FALSE)
  BY <1>3, <1>5
<1>6. CASE t = WriteUntagged(r, v, b.untagged, TRUE)
  BY <1>2, <1>3, <1>6
<1> QED BY <1>4, <1>5, <1>6 DEF ListWrite, WriteMembership, r

\* The record a membership SET leaves keeps the other ports' bits.
LEMMA ListsKeepOthers ==
    ASSUME NEW s, WellFormed(s), ~SwitchportModel, NEW o, o.vlan \in s.vlans,
           NEW b \in Bits, NEW at \in AfterRaw, OtherBits(s, at, o, b),
           NEW t, NEW to \in AfterRaw, ListWrite(s, t, o, b)
    PROVE  t.vlans = s.vlans /\ t.static = s.static /\ OtherBits(t, to, o, b)
<1> DEFINE v == o.vlan
           r == WriteEgress(s, v, b.egress)
<1>1. v \in Vlan /\ b.egress \in SUBSET Port /\ b.untagged \in SUBSET Port
  BY DEF WellFormed, AgentState, Bits
<1>2. s.egress \in [Vlan -> SUBSET Port] /\ s.untagged \in [Vlan -> SUBSET Port]
  BY DEF WellFormed, AgentState
<1>3. s.static = s.vlans => \A q \in Port \ {o.port} :
        /\ q \in b.egress <=> q \in s.egress[v]
        /\ q \in b.untagged <=> q \in s.untagged[v]
  BY DEF OtherBits
<1>4. /\ r.vlans = s.vlans /\ r.static = s.static /\ r.egress = [s.egress EXCEPT ![v] = b.egress]
      /\ r.untagged = IF AutoUntag
                      THEN [s.untagged EXCEPT ![v] = s.untagged[v] \cup (b.egress \ s.egress[v])]
                      ELSE s.untagged
  BY <1>1, EgressWritten
<1>5. WellFormed(r)
  BY <1>1, QbridgeWellFormed
<1> DEFINE Agree(x) == s.static = s.vlans => \A q \in Port \ {o.port} :
                         /\ q \in b.egress <=> q \in x.egress[v]
                         /\ q \in b.untagged <=> q \in x.untagged[v]
<1>6. Agree(r)
  <2>1. r.egress[v] = b.egress
    BY <1>1, <1>2, <1>4
  <2>2. r.untagged[v] = IF AutoUntag THEN s.untagged[v] \cup (b.egress \ s.egress[v])
                                     ELSE s.untagged[v]
    BY <1>1, <1>2, <1>4
  <2> QED BY <1>3, <2>1, <2>2
<1>7. ASSUME NEW x, WellFormed(x), x.vlans = s.vlans, x.static = s.static, Agree(x),
             NEW same \in BOOLEAN, t = WriteUntagged(x, v, b.untagged, same)
      PROVE  t.vlans = s.vlans /\ t.static = s.static /\ Agree(t)
  <2>1. /\ t.vlans = x.vlans /\ t.static = x.static /\ t.egress = x.egress
        /\ t.untagged = IF v \in x.vlans /\ ~(AutoUntag /\ same)
                        THEN [x.untagged EXCEPT ![v] = b.untagged] ELSE x.untagged
    BY <1>1, <1>7, UntaggedWritten
  <2>2. x.untagged \in [Vlan -> SUBSET Port]
    BY <1>7 DEF WellFormed, AgentState
  <2>3. t.untagged[v] = b.untagged \/ t.untagged[v] = x.untagged[v]
    BY <1>1, <2>1, <2>2
  <2> QED BY <1>7, <2>1, <2>3
<1> HIDE DEF r
<1>8. t.vlans = s.vlans /\ t.static = s.static /\ Agree(t)
  <2>1. CASE t = r
    BY <1>4, <1>6, <2>1
  <2>2. CASE t = WriteUntagged(s, v, b.untagged, FALSE)
    <3>1. Agree(s)
      BY <1>3
    <3> HIDE DEF Agree
    <3> QED BY <1>7, <2>2, <3>1
  <2>3. CASE t = WriteMembership(s, v, b.egress, b.untagged)
    <3>1. t = WriteUntagged(r, v, b.untagged, TRUE)
      BY <2>3 DEF WriteMembership, r
    <3> HIDE DEF Agree
    <3> QED BY <1>4, <1>5, <1>6, <1>7, <3>1
  <2> QED BY <2>1, <2>2, <2>3 DEF ListWrite, r
<1> QED BY <1>8 DEF OtherBits

LEMMA SetFits ==
    ASSUME TypeOK, OneClientInv, NEW w \in Writer, Set(w)
    PROVE  ClientFits(agent', pc'[w], phase'[w], op'[w], view'[w], plan'[w], bits'[w])
<1> DEFINE o == op[w]
           s == agent
           Fits(t, to) == ClientFits(t, to, IF to = "name" THEN "after" ELSE phase[w],
                                     o, view[w], plan[w], bits[w])
<1>1. /\ ClientFits(s, pc[w], phase[w], o, view[w], plan[w], bits[w])
      /\ o \in Operation /\ plan[w] \in Plan /\ bits[w] \in Bits /\ WellFormed(s)
  BY DEF OneClientInv, TypeOK, AgentTypeOK
<1>2. o.vlan \in Vlan /\ o.port \in Port /\ o.name \in Name
  BY <1>1, VlanAgentAssumption, WriterAssumption DEF Operation
<1>3. plan[w].untagged \in Vlan /\ plan[w].allowed \in SUBSET Vlan
  BY <1>1 DEF Plan
<1>4. "access" \in Mode /\ "trunk" \in Mode
  BY DEF Mode
<1> HIDE DEF o, s
<1> DEFINE Goal == ClientFits(agent', pc'[w], phase'[w], op'[w], view'[w], plan'[w], bits'[w])
<1>5. ASSUME NEW at \in Switching, NEW t, OnlyPort(s, t, o.port), pc[w] = at,
             NEW to \in Switching \cup {"name"}
      PROVE  t.vlans = s.vlans /\ Fits(t, at) /\ Fits(t, to)
  <2>1. t.vlans = s.vlans
    BY <1>5 DEF OnlyPort
  <2>2. at \notin AfterRaw /\ to \notin AfterRaw
    BY <1>5 DEF Switching, AfterRaw
  <2>3. Fits(t, at) /\ Fits(t, to)
    BY <1>1, <1>5, <2>1, <2>2, MembershipGoesOn
  <2> QED BY <2>1, <2>3
<1>6. ASSUME NEW at \in Switching, NEW accepted \in BOOLEAN, NEW t, OnlyPort(s, t, o.port),
             NEW next \in Switching \cup {"name"}, Transmit(w, at, accepted, t, next)
      PROVE  Goal
  <2>1. pc[w] = at /\ at # "name"
    BY <1>6 DEF Transmit, Switching
  <2>2. t.vlans = s.vlans /\ Fits(t, at) /\ Fits(t, next)
    BY <1>5, <1>6, <2>1
  <2>3. ClientFits(t, at, phase[w], op[w], view[w], plan[w], bits[w])
    BY <2>1, <2>2 DEF o
  <2> QED BY <1>6, <2>2, <2>3, TransmitFits DEF o, s
<1>7. ASSUME NEW at \in AfterRaw, NEW accepted \in BOOLEAN, NEW t,
             NEW next \in {"setUntagged", "name"}, Transmit(w, at, accepted, t, next),
             ListWrite(s, t, o, bits[w])
      PROVE  Goal
  <2>1. pc[w] = at /\ at # "name" /\ "setUntagged" \in AfterRaw /\ "name" \notin AfterRaw
    BY <1>7 DEF Transmit, AfterRaw
  <2>2. ~SwitchportModel /\ o.vlan \in s.vlans /\ OtherBits(s, at, o, bits[w])
    BY <1>1, <2>1 DEF ClientFits, Course, Qbridge
  <2>3. \A to \in AfterRaw : t.vlans = s.vlans /\ OtherBits(t, to, o, bits[w])
    BY <1>1, <1>7, <2>2, ListsKeepOthers
  <2>4. Fits(t, at)
    BY <1>1, <1>7, <2>1, <2>3, MembershipGoesOn
  <2>5. Fits(t, next)
    BY <1>1, <1>7, <2>1, <2>3, MembershipGoesOn
  <2>6. ClientFits(t, at, phase[w], op[w], view[w], plan[w], bits[w])
    BY <2>1, <2>4 DEF o
  <2> QED BY <1>7, <2>3, <2>5, <2>6, TransmitFits DEF o, s
<1>8. ASSUME NEW at \in {"setCreate", "setDestroy", "setPvid"}, NEW accepted \in BOOLEAN, NEW t,
             NEW next, next = IF at = "setPvid" THEN "verifyPvids" ELSE "name",
             Transmit(w, at, accepted, t, next)
      PROVE  Goal
  <2>1. pc[w] = at /\ at # "name"
    BY <1>8 DEF Transmit
  <2>2. ~plan[w].made
    BY <1>1, <2>1 DEF ClientFits, Course, Switching, Reading, Walks
  <2>3. Fits(t, at)
    BY <1>1, <2>1, OtherGoesOn
  <2>4. Fits(t, next)
    BY <1>1, <1>8, <2>1, OtherGoesOn
  <2>5. ClientFits(t, at, phase[w], op[w], view[w], plan[w], bits[w])
    BY <2>1, <2>3 DEF o
  <2> QED BY <1>8, <2>2, <2>4, <2>5, TransmitFits DEF o
<1> HIDE DEF Fits
<1>9. CASE SetAllowed(w)
  <2> DEFINE t == WriteAllowed(s, o.port, plan[w].allowed)
             accepted == TRUE
  <2>1. OnlyPort(s, t, o.port)
    BY <1>1, <1>2, <1>3, <1>4, SwitchportFrame
  <2>2. accepted \in BOOLEAN
    BY DEF NativeAccepted
  <2>3. Transmit(w, "setAllowed", accepted, t, "setNative")
    BY <1>9 DEF SetAllowed, o, s
  <2>4. "setAllowed" \in Switching /\ "setNative" \in Switching \cup {"name"}
    BY DEF Switching
  <2> HIDE DEF t, accepted
  <2> QED BY <1>6, <2>1, <2>2, <2>3, <2>4
<1>10. CASE SetNative(w)
  <2> DEFINE t == WriteNative(s, o.port, plan[w].untagged)
             accepted == NativeAccepted(s, plan[w].untagged)
  <2>1. OnlyPort(s, t, o.port)
    BY <1>1, <1>2, <1>3, <1>4, SwitchportFrame
  <2>2. accepted \in BOOLEAN
    BY DEF NativeAccepted
  <2>3. Transmit(w, "setNative", accepted, t, "setTrunk")
    BY <1>10 DEF SetNative, o, s
  <2>4. "setNative" \in Switching /\ "setTrunk" \in Switching \cup {"name"}
    BY DEF Switching
  <2> HIDE DEF t, accepted
  <2> QED BY <1>6, <2>1, <2>2, <2>3, <2>4
<1>11. CASE SetTrunk(w)
  <2> DEFINE t == WriteMode(s, o.port, "trunk")
             accepted == TRUE
  <2>1. OnlyPort(s, t, o.port)
    BY <1>1, <1>2, <1>3, <1>4, SwitchportFrame
  <2>2. accepted \in BOOLEAN
    BY DEF NativeAccepted
  <2>3. Transmit(w, "setTrunk", accepted, t, "name")
    BY <1>11 DEF SetTrunk, o, s
  <2>4. "setTrunk" \in Switching /\ "name" \in Switching \cup {"name"}
    BY DEF Switching
  <2> HIDE DEF t, accepted
  <2> QED BY <1>6, <2>1, <2>2, <2>3, <2>4
<1>12. CASE SetAccess(w)
  <2> DEFINE t == WriteAccessVlan(s, o.port, plan[w].untagged)
             accepted == TRUE
  <2>1. OnlyPort(s, t, o.port)
    BY <1>1, <1>2, <1>3, <1>4, SwitchportFrame
  <2>2. accepted \in BOOLEAN
    BY DEF NativeAccepted
  <2>3. Transmit(w, "setAccess", accepted, t, "setAccessMode")
    BY <1>12 DEF SetAccess, o, s
  <2>4. "setAccess" \in Switching /\ "setAccessMode" \in Switching \cup {"name"}
    BY DEF Switching
  <2> HIDE DEF t, accepted
  <2> QED BY <1>6, <2>1, <2>2, <2>3, <2>4
<1>13. CASE SetAccessMode(w)
  <2> DEFINE t == WriteMode(s, o.port, "access")
             accepted == TRUE
  <2>1. OnlyPort(s, t, o.port)
    BY <1>1, <1>2, <1>3, <1>4, SwitchportFrame
  <2>2. accepted \in BOOLEAN
    BY DEF NativeAccepted
  <2>3. Transmit(w, "setAccessMode", accepted, t, "name")
    BY <1>13 DEF SetAccessMode, o, s
  <2>4. "setAccessMode" \in Switching /\ "name" \in Switching \cup {"name"}
    BY DEF Switching
  <2> HIDE DEF t, accepted
  <2> QED BY <1>6, <2>1, <2>2, <2>3, <2>4
<1>14. EgressAccepted(s, o.vlan) \in BOOLEAN
  BY DEF EgressAccepted
<1>15. CASE SetEgress(w)
  <2> DEFINE t == WriteEgress(s, o.vlan, bits[w].egress)
             accepted == EgressAccepted(s, o.vlan)
  <2>1. accepted \in BOOLEAN
    BY <1>14
  <2>2. Transmit(w, "setEgress", accepted, t, "setUntagged")
    BY <1>15 DEF SetEgress, o, s
  <2>3. "setEgress" \in AfterRaw /\ "setUntagged" \in {"setUntagged", "name"}
    BY DEF AfterRaw
  <2>4. ListWrite(s, t, o, bits[w])
    BY DEF ListWrite
  <2> HIDE DEF t, accepted
  <2> QED BY <1>7, <2>1, <2>2, <2>3, <2>4
<1>16. CASE SetUntagged(w)
  <2> DEFINE t == WriteUntagged(s, o.vlan, bits[w].untagged, FALSE)
             accepted == TRUE
  <2>1. accepted \in BOOLEAN
    BY <1>14
  <2>2. Transmit(w, "setUntagged", accepted, t, "name")
    BY <1>16 DEF SetUntagged, o, s
  <2>3. "setUntagged" \in AfterRaw /\ "name" \in {"setUntagged", "name"}
    BY DEF AfterRaw
  <2>4. ListWrite(s, t, o, bits[w])
    BY DEF ListWrite
  <2> HIDE DEF t, accepted
  <2> QED BY <1>7, <2>1, <2>2, <2>3, <2>4
<1>17. CASE SetBoth(w)
  <2> DEFINE t == WriteMembership(s, o.vlan, bits[w].egress, bits[w].untagged)
             accepted == EgressAccepted(s, o.vlan)
  <2>1. accepted \in BOOLEAN
    BY <1>14
  <2>2. Transmit(w, "setBoth", accepted, t, "name")
    BY <1>17 DEF SetBoth, o, s
  <2>3. "setBoth" \in AfterRaw /\ "name" \in {"setUntagged", "name"}
    BY DEF AfterRaw
  <2>4. ListWrite(s, t, o, bits[w])
    BY DEF ListWrite
  <2> HIDE DEF t, accepted
  <2> QED BY <1>7, <2>1, <2>2, <2>3, <2>4
<1>18. CASE SetCreate(w)
  <2> DEFINE t == CreateRow(s, o.vlan, o.name)
             accepted == CreateAccepted(s, o.vlan)
  <2>1. accepted \in BOOLEAN
    BY VlanAgentAssumption DEF CreateAccepted
  <2>2. Transmit(w, "setCreate", accepted, t, "name")
    BY <1>18 DEF SetCreate, o, s
  <2> HIDE DEF accepted, t
  <2> QED BY <1>8, <2>1, <2>2
<1>19. CASE SetDestroy(w)
  <2> DEFINE t == DestroyRow(s, o.vlan)
             accepted == TRUE
  <2>1. accepted \in BOOLEAN
    BY VlanAgentAssumption DEF CreateAccepted
  <2>2. Transmit(w, "setDestroy", accepted, t, "name")
    BY <1>19 DEF SetDestroy, o, s
  <2> HIDE DEF accepted, t
  <2> QED BY <1>8, <2>1, <2>2
<1>20. CASE SetPvid(w)
  <2> DEFINE t == WritePvid(s, o.port, o.vlan)
             accepted == TRUE
  <2>1. accepted \in BOOLEAN
    BY VlanAgentAssumption DEF CreateAccepted
  <2>2. Transmit(w, "setPvid", accepted, t, "verifyPvids")
    BY <1>20 DEF SetPvid, o, s
  <2> HIDE DEF accepted, t
  <2> QED BY <1>8, <2>1, <2>2
<1> QED
  BY <1>9, <1>10, <1>11, <1>12, <1>13, <1>15, <1>16, <1>17, <1>18, <1>19, <1>20 DEF Set

(***************************************************************************)
(* With one client, what a call has walked is true, its plan fits the      *)
(* switch it was made for, the octets it writes are the switch's but for   *)
(* its own port, and what it has verified is so.                           *)
(***************************************************************************)
LEMMA OneClientStep ==
    ASSUME Alone, TypeOK, OneClientInv, [Next]_vars
    PROVE  OneClientInv'
<1>1. ASSUME NEW w \in Writer, Invoke(w) \/ Step(w)
      PROVE  OneClientInv'
  <2>1. ClientFits(agent', pc'[w], phase'[w], op'[w], view'[w], plan'[w], bits'[w])
    BY <1>1, InvokeFits, GetVlansFits, LoseReadFits, DecideFits, GetModeFits, GetAllowedFits,
       RawFits, ReadPvidsFits, VerifyFits, SetFits DEF Step, Read
  <2>2. \A x \in Writer : x = w
    BY DEF Alone
  <2> QED BY <2>1, <2>2 DEF OneClientInv
<1>2. CASE UNCHANGED vars
  BY <1>2 DEF vars, OneClientInv
<1> QED BY <1>1, <1>2 DEF Next

THEOREM OneClientInvariant ==
    ASSUME Alone
    PROVE  Spec => []OneClientInv
<1>1. TypeOK /\ OneClientInv /\ [Next]_vars => OneClientInv'
  BY OneClientStep
<1> QED BY <1>1, InitFits, TypeCorrect, PTL DEF Spec

(***************************************************************************)
(* What set_vlan_membership returns on, with one client at a time and      *)
(* whatever is lost: on a switchport model the port is in the VLANs it was *)
(* in, but for what the call asks (_plan_switchport_membership and         *)
(* _switchport_divergence agree on what that is).                          *)
(***************************************************************************)
THEOREM OtherVlansKeptProved ==
    ASSUME Alone
    PROVE  Spec => []OtherVlansKept
<1>1. OneClientInv => OtherVlansKept
  <2> SUFFICES ASSUME OneClientInv, NEW w \in Writer, pc[w] = "ok", plan[w].made
               PROVE  LET v   == op[w].vlan
                          p   == op[w].port
                          was == plan[w].wasUntagged
                      IN  /\ TaggedIn(agent, p) \ {v} = plan[w].wasTagged \ {v}
                          /\ v \in TaggedIn(agent, p) <=> op[w].mode = "tagged"
                          /\ UntaggedIn(agent, p) =
                               IF op[w].mode = "untagged" THEN {v}
                               ELSE IF was \ {v} # {} THEN was \ {v} ELSE {DefaultVlan}
    BY DEF OtherVlansKept
  <2> DEFINE o  == op[w]
             pl == plan[w]
  <2>1. PlanFits(agent, o, pl) /\ Reached(agent, o.port, pl)
    BY DEF OneClientInv, ClientFits
  <2> HIDE DEF o, pl
  <2>2. TaggedIn(agent, o.port) = WantTagged(o, pl.wasTagged)
    BY <2>1 DEF PlanFits, Reached
  <2>3. /\ TaggedIn(agent, o.port) \ {o.vlan} = pl.wasTagged \ {o.vlan}
        /\ o.vlan \in TaggedIn(agent, o.port) <=> o.mode = "tagged"
    BY <2>2 DEF WantTagged
  <2>4. LET wu == WantUntagged(o, pl.wasUntagged) IN
        UntaggedIn(agent, o.port) = IF wu # {} THEN wu ELSE {DefaultVlan}
    BY <2>1 DEF PlanFits, Reached
  <2>5. UntaggedIn(agent, o.port) =
          IF o.mode = "untagged" THEN {o.vlan}
          ELSE IF pl.wasUntagged \ {o.vlan} # {} THEN pl.wasUntagged \ {o.vlan} ELSE {DefaultVlan}
    BY <2>4 DEF WantUntagged
  <2> QED BY <2>3, <2>5 DEF o, pl
<1> QED BY <1>1, OneClientInvariant, PTL

(***************************************************************************)
(* On a Q-BRIDGE model the port's membership of the VLAN is what the call  *)
(* asked for, whichever way the PortLists are written and whatever an      *)
(* egress write does to the untagged list (_set_vlan_membership,           *)
(* _verify_vlan).                                                          *)
(***************************************************************************)
THEOREM RequestHonouredProved ==
    ASSUME Alone, ~SwitchportModel
    PROVE  Spec => []RequestHonoured
<1>1. TypeOK /\ OneClientInv => RequestHonoured
  <2> SUFFICES ASSUME TypeOK, OneClientInv, NEW w \in Writer,
                      pc[w] = "ok", op[w].kind = "membership"
               PROVE  LET in(V) == op[w].vlan \in V IN
                      CASE op[w].mode = "tagged"   -> in(TaggedIn(agent, op[w].port))
                        [] op[w].mode = "untagged" -> in(UntaggedIn(agent, op[w].port))
                        [] op[w].mode = "excluded" -> ~in(MemberOf(agent, op[w].port))
    BY DEF RequestHonoured
  <2> DEFINE o == op[w]
  <2>1. Honoured(agent, o) /\ o.mode \in VlanMode
    BY DEF OneClientInv, ClientFits, TypeOK, Operation
  <2> HIDE DEF o
  <2>2. /\ o.vlan \in TaggedIn(agent, o.port) <=> InEgress(o) /\ ~InUntagged(o)
        /\ o.vlan \in UntaggedIn(agent, o.port) <=> InUntagged(o)
    BY <2>1 DEF Honoured, TaggedIn, UntaggedIn
  <2>3. CASE o.mode = "tagged"
    <3>1. o.vlan \in TaggedIn(agent, o.port)
      BY <2>2, <2>3 DEF InEgress, InUntagged
    <3> QED BY <2>3, <3>1 DEF o
  <2>4. CASE o.mode = "untagged"
    <3>1. o.vlan \in UntaggedIn(agent, o.port)
      BY <2>2, <2>4 DEF InUntagged
    <3> QED BY <2>4, <3>1 DEF o
  <2>5. CASE o.mode = "excluded"
    <3>1. o.vlan \notin MemberOf(agent, o.port)
      BY <2>2, <2>5 DEF InEgress, InUntagged, MemberOf
    <3> QED BY <2>5, <3>1 DEF o
  <2> QED BY <2>1, <2>3, <2>4, <2>5 DEF VlanMode
<1> QED BY <1>1, OneClientInvariant, TypeCorrect, PTL

-----------------------------------------------------------------------------
(***************************************************************************)
(* Where every VLAN has a static row, every VLAN keeps one.                *)
(***************************************************************************)
EveryRow == agent.static = agent.vlans

LEMMA RowsKept ==
    ASSUME NEW s, WellFormed(s), s.static = s.vlans, NEW v \in Vlan, NEW n
    PROVE  /\ CreateRow(s, v, n).static = CreateRow(s, v, n).vlans
           /\ DestroyRow(s, v).static = DestroyRow(s, v).vlans
<1>1. CreateRow(s, v, n).static = CreateRow(s, v, n).vlans
  <2> DEFINE t == CreateRow(s, v, n)
  <2>1. /\ t.vlans = s.vlans \cup {v}
        /\ t.static = IF v \in s.vlans THEN s.static ELSE s.static \cup {v}
    BY DEF CreateRow, WellFormed, AgentState
  <2> HIDE DEF t
  <2>2. t.static = t.vlans
    BY <2>1
  <2> QED BY <2>2 DEF t
<1>2. DestroyRow(s, v).static = DestroyRow(s, v).vlans
  BY DEF DestroyRow, WellFormed, AgentState
<1> QED BY <1>1, <1>2

LEMMA EveryRowKept ==
    ASSUME TypeOK, ~SwitchportModel, EveryRow, OneClientInv, [Next]_vars
    PROVE  EveryRow'
<1> DEFINE s == agent
<1>1. ASSUME NEW w \in Writer, Set(w)
      PROVE  EveryRow'
  <2> DEFINE o == op[w]
  <2>1. /\ WellFormed(s) /\ o.vlan \in Vlan /\ bits[w] \in Bits
    BY DEF TypeOK, AgentTypeOK, Operation
  <2>2. pc[w] \notin Switching
    BY DEF OneClientInv, ClientFits, Course
  <2>4. CASE SetEgress(w) \/ SetUntagged(w) \/ SetBoth(w)
    <3>1. agent' = s \/ ListWrite(s, agent', o, bits[w])
      BY <2>4, TransmitAgent DEF SetEgress, SetUntagged, SetBoth, ListWrite
    <3>2. ~SwitchportModel /\ o.vlan \in Vlan
      BY <2>1
    <3> HIDE DEF o, s
    <3>3. PICK x : x = agent'
      OBVIOUS
    <3>4. x.vlans = s.vlans /\ x.static = s.static
      BY <2>1, <3>1, <3>2, <3>3, ListWriteFrame
    <3> QED BY <3>3, <3>4 DEF EveryRow, s
  <2>5. CASE SetCreate(w)
    <3>1. agent' = s \/ agent' = CreateRow(s, o.vlan, o.name)
      BY <2>5, TransmitAgent DEF SetCreate
    <3> QED BY <2>1, <3>1, RowsKept DEF EveryRow
  <2>6. CASE SetDestroy(w)
    <3>1. agent' = s \/ agent' = DestroyRow(s, o.vlan)
      BY <2>6, TransmitAgent DEF SetDestroy
    <3> QED BY <2>1, <3>1, RowsKept DEF EveryRow
  <2>7. CASE SetPvid(w)
    <3>1. agent' = s \/ agent' = WritePvid(s, o.port, o.vlan)
      BY <2>7, TransmitAgent DEF SetPvid
    <3> QED BY <2>1, <3>1 DEF EveryRow, WritePvid, WellFormed, AgentState
  <2>8. ~(SetAllowed(w) \/ SetNative(w) \/ SetTrunk(w) \/ SetAccess(w) \/ SetAccessMode(w))
    BY <2>2 DEF SetAllowed, SetNative, SetTrunk, SetAccess, SetAccessMode, Transmit, Switching
  <2> QED BY <1>1, <2>4, <2>5, <2>6, <2>7, <2>8 DEF Set
<1> QED BY <1>1, OnlySetsWrite DEF EveryRow

LEMMA SetMoves ==
    ASSUME TypeOK, OneClientInv, SwitchportModel \/ EveryRow, NEW w \in Writer, Set(w),
           NEW p \in Port, NEW v \in Vlan, Moved(p, v)
    PROVE  /\ op[w].kind = "membership" /\ op[w].port = p
           /\ SwitchportModel \/ op[w].vlan = v
<1> DEFINE o == op[w]
           s == agent
<1>1. /\ ClientFits(s, pc[w], phase[w], o, view[w], plan[w], bits[w])
      /\ o \in Operation /\ plan[w] \in Plan /\ bits[w] \in Bits /\ WellFormed(s)
  BY DEF OneClientInv, TypeOK, AgentTypeOK
<1>2. o.vlan \in Vlan /\ o.port \in Port /\ o.name \in Name
  BY <1>1, VlanAgentAssumption, WriterAssumption DEF Operation
<1>3. plan[w].untagged \in Vlan /\ plan[w].allowed \in SUBSET Vlan
  BY <1>1 DEF Plan
<1>4. "access" \in Mode /\ "trunk" \in Mode
  BY DEF Mode
<1>5. /\ v \in s.vlans /\ v \in agent'.vlans
      /\ \/ ~(p \in s.egress[v] <=> p \in agent'.egress[v])
         \/ ~(p \in s.untagged[v] <=> p \in agent'.untagged[v])
  BY DEF Moved
<1>6. ASSUME NEW at \in Switching, pc[w] = at, OnlyPort(s, agent', o.port)
      PROVE  o.kind = "membership" /\ o.port = p /\ SwitchportModel
  <2>1. o.kind = "membership" /\ SwitchportModel
    BY <1>1, <1>6 DEF ClientFits, Course
  <2> HIDE DEF o, s
  <2> QED BY <1>5, <1>6, <2>1 DEF OnlyPort
<1>7. ASSUME NEW at \in AfterRaw, pc[w] = at, ListWrite(s, agent', o, bits[w])
      PROVE  o.kind = "membership" /\ o.port = p /\ o.vlan = v
  <2>1. o.kind = "membership" /\ ~SwitchportModel /\ o.vlan \in s.vlans
        /\ OtherBits(s, at, o, bits[w])
    BY <1>1, <1>7 DEF ClientFits, Course, Qbridge
  <2>2. s.static = s.vlans
    BY <2>1 DEF EveryRow
  <2>3. "setUntagged" \in AfterRaw
    BY DEF AfterRaw
  <2> DEFINE t == agent'
  <2>4. t.vlans = s.vlans /\ t.static = s.static /\ OtherBits(t, "setUntagged", o, bits[w])
    <3> HIDE DEF o, s
    <3>1. PICK x : x = agent'
      OBVIOUS
    <3>2. x.vlans = s.vlans /\ x.static = s.static /\ OtherBits(x, "setUntagged", o, bits[w])
      BY <1>1, <1>7, <2>1, <2>3, <3>1, ListsKeepOthers
    <3> QED BY <3>1, <3>2
  <2>5. ASSUME v # o.vlan
        PROVE  t.egress[v] = s.egress[v] /\ t.untagged[v] = s.untagged[v]
    <3> HIDE DEF o, s
    <3>1. PICK x : x = agent'
      OBVIOUS
    <3>2. x.egress[v] = s.egress[v] /\ x.untagged[v] = s.untagged[v]
      BY <1>1, <1>2, <1>7, <2>1, <2>5, <3>1, ListWriteFrame
    <3> QED BY <3>1, <3>2
  <2>6. o.vlan = v
    BY <1>5, <2>5
  <2>7. \A q \in Port \ {o.port} :
            /\ q \in s.egress[v] <=> q \in t.egress[v]
            /\ at \in AfterRaw => (q \in s.untagged[v] <=> q \in t.untagged[v])
    BY <2>1, <2>2, <2>3, <2>4, <2>6 DEF OtherBits
  <2> QED BY <1>5, <2>1, <2>6, <2>7
<1>8. CASE SetAllowed(w)
  <2>1. agent' = s \/ agent' = WriteAllowed(s, o.port, plan[w].allowed)
    BY <1>8, TransmitAgent DEF SetAllowed
  <2>2. OnlyPort(s, agent', o.port)
    BY <1>1, <1>2, <1>3, <1>4, <1>5, <2>1, SwitchportFrame
  <2>3. pc[w] = "setAllowed" /\ "setAllowed" \in Switching
    BY <1>8 DEF SetAllowed, Transmit, Switching
  <2> QED BY <1>6, <2>2, <2>3
<1>9. CASE SetNative(w)
  <2>1. agent' = s \/ agent' = WriteNative(s, o.port, plan[w].untagged)
    BY <1>9, TransmitAgent DEF SetNative
  <2>2. OnlyPort(s, agent', o.port)
    BY <1>1, <1>2, <1>3, <1>4, <1>5, <2>1, SwitchportFrame
  <2>3. pc[w] = "setNative" /\ "setNative" \in Switching
    BY <1>9 DEF SetNative, Transmit, Switching
  <2> QED BY <1>6, <2>2, <2>3
<1>10. CASE SetTrunk(w)
  <2>1. agent' = s \/ agent' = WriteMode(s, o.port, "trunk")
    BY <1>10, TransmitAgent DEF SetTrunk
  <2>2. OnlyPort(s, agent', o.port)
    BY <1>1, <1>2, <1>3, <1>4, <1>5, <2>1, SwitchportFrame
  <2>3. pc[w] = "setTrunk" /\ "setTrunk" \in Switching
    BY <1>10 DEF SetTrunk, Transmit, Switching
  <2> QED BY <1>6, <2>2, <2>3
<1>11. CASE SetAccess(w)
  <2>1. agent' = s \/ agent' = WriteAccessVlan(s, o.port, plan[w].untagged)
    BY <1>11, TransmitAgent DEF SetAccess
  <2>2. OnlyPort(s, agent', o.port)
    BY <1>1, <1>2, <1>3, <1>4, <1>5, <2>1, SwitchportFrame
  <2>3. pc[w] = "setAccess" /\ "setAccess" \in Switching
    BY <1>11 DEF SetAccess, Transmit, Switching
  <2> QED BY <1>6, <2>2, <2>3
<1>12. CASE SetAccessMode(w)
  <2>1. agent' = s \/ agent' = WriteMode(s, o.port, "access")
    BY <1>12, TransmitAgent DEF SetAccessMode
  <2>2. OnlyPort(s, agent', o.port)
    BY <1>1, <1>2, <1>3, <1>4, <1>5, <2>1, SwitchportFrame
  <2>3. pc[w] = "setAccessMode" /\ "setAccessMode" \in Switching
    BY <1>12 DEF SetAccessMode, Transmit, Switching
  <2> QED BY <1>6, <2>2, <2>3
<1>13. CASE SetEgress(w) \/ SetUntagged(w) \/ SetBoth(w)
  <2>1. agent' = s \/ ListWrite(s, agent', o, bits[w])
    BY <1>13, TransmitAgent DEF SetEgress, SetUntagged, SetBoth, ListWrite
  <2>2. ListWrite(s, agent', o, bits[w])
    BY <1>5, <2>1
  <2>3. pc[w] \in AfterRaw
    BY <1>13 DEF SetEgress, SetUntagged, SetBoth, Transmit, AfterRaw
  <2> QED BY <1>7, <2>2, <2>3
<1>14. CASE SetCreate(w)
  <2>1. agent' = s \/ agent' = CreateRow(s, o.vlan, o.name)
    BY <1>14, TransmitAgent DEF SetCreate
  <2>2. agent'.egress = s.egress /\ agent'.untagged = s.untagged
    BY <1>1, <2>1 DEF CreateRow, WellFormed, AgentState
  <2> QED BY <1>5, <2>2
<1>15. CASE SetDestroy(w)
  <2>1. agent' = s \/ agent' = DestroyRow(s, o.vlan)
    BY <1>15, TransmitAgent DEF SetDestroy
  <2>2. agent' = DestroyRow(s, o.vlan)
    BY <1>5, <2>1
  <2>3. /\ agent'.vlans = s.vlans \ {o.vlan}
        /\ agent'.egress = [s.egress EXCEPT ![o.vlan] = {}]
        /\ agent'.untagged = [s.untagged EXCEPT ![o.vlan] = {}]
    BY <1>1, <2>2 DEF DestroyRow, WellFormed, AgentState
  <2> QED BY <1>1, <1>5, <2>3 DEF WellFormed, AgentState
<1>16. CASE SetPvid(w)
  <2>1. agent' = s \/ agent' = WritePvid(s, o.port, o.vlan)
    BY <1>16, TransmitAgent DEF SetPvid
  <2>2. agent'.egress = s.egress /\ agent'.untagged = s.untagged
    BY <1>1, <2>1 DEF WritePvid, WellFormed, AgentState
  <2> QED BY <1>5, <2>2
<1> QED
  BY <1>8, <1>9, <1>10, <1>11, <1>12, <1>13, <1>14, <1>15, <1>16 DEF Set

(***************************************************************************)
(* With one client, a step changes the membership of no port but the one a *)
(* membership call names, LAGs included: on a Q-BRIDGE model because       *)
(* _raw_bitmap gives the device's own octets back, where every VLAN has a  *)
(* row in the static table to read them from (qbridge_no_static_row shows  *)
(* what happens where one has none).                                       *)
(***************************************************************************)
THEOREM OnlyNamedPortMovesProved ==
    ASSUME Alone, SwitchportModel \/ \A s \in Seeds : s.static = s.vlans
    PROVE  Spec => OnlyNamedPortMoves
<1> DEFINE Rows == SwitchportModel \/ EveryRow
           Kept1 == \A p \in Port, v \in Vlan : Moved(p, v) =>
                      \E w \in Writer : /\ op[w].kind = "membership" /\ op[w].port = p
                                        /\ SwitchportModel \/ op[w].vlan = v
<1>1. Init => Rows
  BY DEF Init, AgentInit, EveryRow
<1>2. TypeOK /\ OneClientInv /\ Rows /\ [Next]_vars => Rows'
  BY EveryRowKept
<1>3. TypeOK /\ OneClientInv /\ Rows /\ [Next]_vars => [Kept1]_vars
  <2> SUFFICES ASSUME TypeOK, OneClientInv, Rows, [Next]_vars,
                      NEW p \in Port, NEW v \in Vlan, Moved(p, v)
               PROVE  \E w \in Writer : /\ op[w].kind = "membership" /\ op[w].port = p
                                        /\ SwitchportModel \/ op[w].vlan = v
    OBVIOUS
  <2>1. ~UNCHANGED agent
    BY DEF Moved
  <2>2. PICK w \in Writer : Set(w)
    BY <2>1, OnlySetsWrite
  <2> QED BY <2>2, SetMoves
<1> HIDE DEF Rows, Kept1
<1>4. [][Kept1]_vars <=> OnlyNamedPortMoves
  BY DEF Kept1, OnlyNamedPortMoves
<1> QED BY <1>1, <1>2, <1>3, <1>4, TypeCorrect, OneClientInvariant, PTL DEF Spec

-----------------------------------------------------------------------------
(***************************************************************************)
(* The passage of a port from what it was to what it is to be.             *)
(***************************************************************************)
\* What the tables say of a port is what its columns say.
LEMMA ColumnsTell ==
    ASSUME NEW s, WellFormed(s), Coherent(s), NEW p \in Physical
    PROVE  /\ UntaggedIn(s, p) = DerivedUntagged(s, p) \cap s.vlans
           /\ TaggedIn(s, p) = (DerivedTagged(s, p) \ DerivedUntagged(s, p)) \cap s.vlans
           /\ s.mode[p] = "trunk" =>
                /\ UntaggedIn(s, p) = {s.native[p]} \cap s.vlans
                /\ TaggedIn(s, p) = (s.allowed[p] \cap s.vlans) \ {s.native[p]}
           /\ s.mode[p] = "access" =>
                UntaggedIn(s, p) = {s.access[p]} \cap s.vlans /\ TaggedIn(s, p) = {}
<1>1. UntaggedIn(s, p) = DerivedUntagged(s, p) \cap s.vlans
  BY DEF UntaggedIn, Coherent
<1>2. TaggedIn(s, p) = (DerivedTagged(s, p) \ DerivedUntagged(s, p)) \cap s.vlans
  BY DEF TaggedIn, Coherent
<1>3. ASSUME s.mode[p] = "trunk"
      PROVE  /\ DerivedUntagged(s, p) = {s.native[p]}
             /\ DerivedTagged(s, p) = (s.allowed[p] \cap s.vlans) \ {s.native[p]}
  BY <1>3 DEF DerivedUntagged, DerivedTagged
<1>4. ASSUME s.mode[p] = "access"
      PROVE  DerivedUntagged(s, p) = {s.access[p]} /\ DerivedTagged(s, p) = {}
  BY <1>4 DEF DerivedUntagged, DerivedTagged
<1> QED BY <1>1, <1>2, <1>3, <1>4

\* Columns that the mode does not look at can be written unseen.
LEMMA UnseenWrite ==
    ASSUME NEW s, WellFormed(s), Coherent(s), NEW t, WellFormed(t), Coherent(t),
           t.vlans = s.vlans, NEW p \in Physical, NEW access, NEW native, NEW allowed,
           Columns(s, t, p, s.mode[p], access, native, allowed),
           \/ s.mode[p] # "trunk" /\ access = s.access[p]
           \/ s.mode[p] # "access" /\ native = s.native[p] /\ allowed = s.allowed[p]
    PROVE  UntaggedIn(t, p) = UntaggedIn(s, p) /\ TaggedIn(t, p) = TaggedIn(s, p)
<1>1. DerivedUntagged(t, p) = DerivedUntagged(s, p)
  <2>1. CASE s.mode[p] \in {"access", "trunk"}
    BY <2>1 DEF Columns, DerivedUntagged
  <2>2. CASE s.mode[p] \notin {"access", "trunk"}
    <3>1. DerivedUntagged(t, p) = t.generalU[p] /\ DerivedUntagged(s, p) = s.generalU[p]
      BY <2>2 DEF Columns, DerivedUntagged
    <3> QED BY <3>1 DEF Columns
  <2> QED BY <2>1, <2>2
<1>2. DerivedTagged(t, p) = DerivedTagged(s, p)
  <2>1. CASE s.mode[p] = "access"
    BY <2>1 DEF Columns, DerivedTagged
  <2>2. CASE s.mode[p] = "trunk"
    BY <2>2 DEF Columns, DerivedTagged
  <2>3. CASE s.mode[p] \notin {"access", "trunk"}
    <3>1. /\ DerivedTagged(t, p) = t.generalT[p] \ t.generalU[p]
          /\ DerivedTagged(s, p) = s.generalT[p] \ s.generalU[p]
      BY <2>3 DEF Columns, DerivedTagged
    <3> QED BY <3>1 DEF Columns
  <2> QED BY <2>1, <2>2, <2>3
<1>3. /\ UntaggedIn(s, p) = DerivedUntagged(s, p) \cap s.vlans
      /\ TaggedIn(s, p) = (DerivedTagged(s, p) \ DerivedUntagged(s, p)) \cap s.vlans
  BY ColumnsTell
<1>4. /\ UntaggedIn(t, p) = DerivedUntagged(t, p) \cap t.vlans
      /\ TaggedIn(t, p) = (DerivedTagged(t, p) \ DerivedUntagged(t, p)) \cap t.vlans
  BY ColumnsTell
<1> QED BY <1>1, <1>2, <1>3, <1>4

\* Wherever the passage is, nothing is over-granted and nothing interrupted.
LEMMA UnderwayMeans ==
    ASSUME NEW s, WellFormed(s), Coherent(s), NEW p \in Physical, NEW o, NEW pl,
           PlanFits(s, o, pl), NEW at \in Switching \cup Reading, Underway(s, at, p, pl)
    PROVE  OnTheWay(s, at, p, pl)
<1>1. pl.wasTagged \subseteq s.vlans /\ pl.wasUntagged \subseteq s.vlans
      /\ pl.wasTagged \cap pl.wasUntagged = {}
  BY DEF PlanFits
<1>2. CASE AsFound(s, p, pl)
  BY <1>2 DEF OnTheWay, NoMore, NoLess, AsFound, MemberOf
<1>3. CASE AsWanted(s, p, pl)
  BY <1>1, <1>3 DEF OnTheWay, NoMore, NoLess, AsWanted, MemberOf
<1>4. CASE at \in {"setAllowed", "setNative", "setTrunk"} /\ s.mode[p] = "trunk"
  <2>1. /\ UntaggedIn(s, p) = {s.native[p]} \cap s.vlans
        /\ TaggedIn(s, p) = (s.allowed[p] \cap s.vlans) \ {s.native[p]}
    BY <1>4, ColumnsTell
  <2>2. UntaggedIn(s, p) = pl.wasUntagged \/ s.native[p] = pl.untagged
    BY <1>4 DEF Underway
  <2>3. \/ UntaggedIn(s, p) = pl.wasUntagged /\ TaggedIn(s, p) = pl.wasTagged
        \/ s.allowed[p] \cap s.vlans = (pl.tagged \cup {pl.untagged}) \cap s.vlans
    BY <1>4 DEF Underway, Narrowed
  <2>4. pl.untagged \notin pl.tagged
    BY DEF PlanFits
  <2>5. NoMore(s, p, pl)
    BY <2>1, <2>2, <2>3 DEF NoMore, MemberOf
  <2>6. pl.wasUntagged \cap {pl.untagged} \subseteq UntaggedIn(s, p)
    BY <1>1, <2>1, <2>2
  <2>7. pl.wasTagged \cap pl.tagged \subseteq TaggedIn(s, p)
    BY <1>1, <2>1, <2>2, <2>3, <2>4
  <2> QED BY <2>5, <2>6, <2>7 DEF OnTheWay, NoLess
<1>5. CASE at \in {"setAccess", "setAccessMode"} /\ s.mode[p] = "access"
  <2>1. UntaggedIn(s, p) = {s.access[p]} \cap s.vlans /\ TaggedIn(s, p) = {}
    BY <1>5, ColumnsTell
  <2>2. /\ pl.tagged = {}
        /\ UntaggedIn(s, p) = pl.wasUntagged \/ s.access[p] = pl.untagged
    BY <1>5 DEF Underway
  <2>3. NoMore(s, p, pl)
    BY <2>1, <2>2 DEF NoMore, MemberOf
  <2>4. NoLess(s, p, pl)
    BY <1>1, <2>1, <2>2 DEF NoLess
  <2> QED BY <2>3, <2>4 DEF OnTheWay
<1>6. \/ AsFound(s, p, pl) \/ AsWanted(s, p, pl)
      \/ at \in {"setAllowed", "setNative", "setTrunk"} /\ s.mode[p] = "trunk"
      \/ at \in {"setAccess", "setAccessMode"} /\ s.mode[p] = "access"
  BY DEF Underway, Switching
<1> QED BY <1>2, <1>3, <1>4, <1>5, <1>6

\* The plan is made: the port is as it was found.
LEMMA PassageBegins ==
    ASSUME NEW s, WellFormed(s), Coherent(s), NEW p \in Physical, NEW o, NEW pl,
           PlanFits(s, o, pl), AsFound(s, p, pl)
    PROVE  OnTheWay(s, IF pl.tagged # {} THEN "setAllowed" ELSE "setAccess", p, pl)
<1> DEFINE at == IF pl.tagged # {} THEN "setAllowed" ELSE "setAccess"
<1>1. Underway(s, at, p, pl)
  BY DEF Underway, AsFound, Reading, Walks
<1>2. at \in Switching \cup Reading
  BY DEF Switching
<1> HIDE DEF at
<1>3. OnTheWay(s, at, p, pl)
  BY <1>1, <1>2, UnderwayMeans
<1> QED BY <1>3 DEF at

(***************************************************************************)
(* One SET of the passage, from s to t: it may have to be sent again, and  *)
(* the next may follow it.                                                 *)
(***************************************************************************)
Passes(s, t, at, next, p, pl) ==
    OnTheWay(s, at, p, pl) => OnTheWay(t, at, p, pl) /\ OnTheWay(t, next, p, pl)

LEMMA PassageGoesOn ==
    ASSUME NEW s, WellFormed(s), Coherent(s), NEW t, WellFormed(t), Coherent(t),
           t.vlans = s.vlans, NEW p \in Physical, NEW o, NEW pl, PlanFits(s, o, pl)
    PROVE  /\ Columns(s, t, p, s.mode[p], s.access[p], s.native[p], pl.allowed) =>
                Passes(s, t, "setAllowed", "setNative", p, pl)
           /\ Columns(s, t, p, s.mode[p], s.access[p], pl.untagged, s.allowed[p]) =>
                Passes(s, t, "setNative", "setTrunk", p, pl)
           /\ Columns(s, t, p, "trunk", s.access[p], s.native[p], s.allowed[p]) =>
                Passes(s, t, "setTrunk", "name", p, pl)
           /\ Columns(s, t, p, s.mode[p], pl.untagged, s.native[p], s.allowed[p]) =>
                Passes(s, t, "setAccess", "setAccessMode", p, pl)
           /\ Columns(s, t, p, "access", s.access[p], s.native[p], s.allowed[p]) =>
                Passes(s, t, "setAccessMode", "name", p, pl)
<1>1. PlanFits(t, o, pl)
  BY PlanKept
<1>2. /\ pl.untagged \notin pl.tagged
      /\ pl.allowed \cap s.vlans = (pl.tagged \cup {pl.untagged}) \cap s.vlans
  BY DEF PlanFits
<1>3. ASSUME NEW at \in Switching \cup Reading, Underway(t, at, p, pl)
      PROVE  OnTheWay(t, at, p, pl)
  BY <1>1, <1>3, UnderwayMeans
<1>4. {"setAllowed", "setNative", "setTrunk", "setAccess", "setAccessMode", "name"}
        \subseteq Switching \cup Reading
  BY DEF Switching, Reading, Walks
<1>5. ASSUME Columns(s, t, p, s.mode[p], s.access[p], s.native[p], pl.allowed),
             OnTheWay(s, "setAllowed", p, pl)
      PROVE  OnTheWay(t, "setAllowed", p, pl) /\ OnTheWay(t, "setNative", p, pl)
  <2>1. Narrowed(t, p, pl) /\ t.mode[p] = s.mode[p]
    BY <1>2, <1>5 DEF Narrowed, Columns
  <2>2. s.mode[p] # "trunk" => AsFound(t, p, pl)
    <3>1. s.mode[p] # "trunk" => AsFound(s, p, pl)
      BY <1>5 DEF OnTheWay, Underway
    <3> QED BY <1>5, <3>1, UnseenWrite DEF AsFound
  <2>3. s.mode[p] = "trunk" => UntaggedIn(t, p) = pl.wasUntagged
    <3> SUFFICES ASSUME s.mode[p] = "trunk"
                 PROVE  UntaggedIn(t, p) = pl.wasUntagged
      OBVIOUS
    <3>1. UntaggedIn(s, p) = {s.native[p]} \cap s.vlans
      BY ColumnsTell
    <3>2. UntaggedIn(t, p) = {s.native[p]} \cap s.vlans
      BY <1>5, ColumnsTell DEF Columns
    <3>3. UntaggedIn(s, p) = pl.wasUntagged
      BY <1>5 DEF OnTheWay, Underway
    <3> QED BY <3>1, <3>2, <3>3
  <2>4. Underway(t, "setAllowed", p, pl)
    BY <2>1, <2>2, <2>3 DEF Underway, Reading, Walks
  <2>5. Underway(t, "setNative", p, pl)
    BY <2>1, <2>2, <2>3 DEF Underway, Reading, Walks
  <2> QED BY <1>3, <1>4, <2>4, <2>5
<1>6. ASSUME Columns(s, t, p, s.mode[p], s.access[p], pl.untagged, s.allowed[p]),
             OnTheWay(s, "setNative", p, pl)
      PROVE  OnTheWay(t, "setNative", p, pl) /\ OnTheWay(t, "setTrunk", p, pl)
  <2>1. Narrowed(t, p, pl) /\ t.mode[p] = s.mode[p] /\ t.native[p] = pl.untagged
    BY <1>6 DEF OnTheWay, Underway, Narrowed, Columns
  <2>2. s.mode[p] # "trunk" => AsFound(t, p, pl)
    <3>1. s.mode[p] # "trunk" => AsFound(s, p, pl)
      BY <1>6 DEF OnTheWay, Underway
    <3> QED BY <1>6, <3>1, UnseenWrite DEF AsFound
  <2>3. Underway(t, "setNative", p, pl)
    BY <2>1, <2>2 DEF Underway, Reading, Walks
  <2>4. Underway(t, "setTrunk", p, pl)
    BY <2>1, <2>2 DEF Underway, Reading, Walks
  <2> QED BY <1>3, <1>4, <2>3, <2>4
<1>7. ASSUME Columns(s, t, p, "trunk", s.access[p], s.native[p], s.allowed[p]),
             OnTheWay(s, "setTrunk", p, pl)
      PROVE  OnTheWay(t, "setTrunk", p, pl) /\ OnTheWay(t, "name", p, pl)
  <2>1. Narrowed(t, p, pl) /\ t.mode[p] = "trunk" /\ t.native[p] = pl.untagged
    BY <1>7 DEF OnTheWay, Underway, Narrowed, Columns
  <2>2. /\ UntaggedIn(t, p) = {pl.untagged} \cap s.vlans
        /\ TaggedIn(t, p) = (t.allowed[p] \cap s.vlans) \ {pl.untagged}
    BY <2>1, ColumnsTell
  <2>3. AsWanted(t, p, pl)
    BY <1>2, <2>1, <2>2 DEF AsWanted, Narrowed
  <2>4. Underway(t, "setTrunk", p, pl)
    BY <2>1 DEF Underway, Reading, Walks
  <2>5. Underway(t, "name", p, pl)
    BY <2>3 DEF Underway
  <2> QED BY <1>3, <1>4, <2>4, <2>5
<1>8. ASSUME Columns(s, t, p, s.mode[p], pl.untagged, s.native[p], s.allowed[p]),
             OnTheWay(s, "setAccess", p, pl)
      PROVE  OnTheWay(t, "setAccess", p, pl) /\ OnTheWay(t, "setAccessMode", p, pl)
  <2>1. pl.tagged = {} /\ t.mode[p] = s.mode[p] /\ t.access[p] = pl.untagged
    BY <1>8 DEF OnTheWay, Underway, Columns
  <2>2. s.mode[p] # "access" => AsFound(t, p, pl)
    <3>1. s.mode[p] # "access" => AsFound(s, p, pl)
      BY <1>8 DEF OnTheWay, Underway
    <3> QED BY <1>8, <3>1, UnseenWrite DEF AsFound
  <2>3. Underway(t, "setAccess", p, pl)
    BY <2>1, <2>2 DEF Underway, Reading, Walks
  <2>4. Underway(t, "setAccessMode", p, pl)
    BY <2>1, <2>2 DEF Underway, Reading, Walks
  <2> QED BY <1>3, <1>4, <2>3, <2>4
<1>9. ASSUME Columns(s, t, p, "access", s.access[p], s.native[p], s.allowed[p]),
             OnTheWay(s, "setAccessMode", p, pl)
      PROVE  OnTheWay(t, "setAccessMode", p, pl) /\ OnTheWay(t, "name", p, pl)
  <2>1. pl.tagged = {} /\ t.mode[p] = "access" /\ t.access[p] = pl.untagged
    BY <1>9 DEF OnTheWay, Underway, Columns
  <2>2. UntaggedIn(t, p) = {pl.untagged} \cap s.vlans /\ TaggedIn(t, p) = {}
    BY <2>1, ColumnsTell
  <2>3. AsWanted(t, p, pl)
    BY <2>1, <2>2 DEF AsWanted
  <2>4. Underway(t, "setAccessMode", p, pl)
    BY <2>1 DEF Underway, Reading, Walks
  <2>5. Underway(t, "name", p, pl)
    BY <2>3 DEF Underway
  <2> QED BY <1>3, <1>4, <2>4, <2>5
<1> QED BY <1>5, <1>6, <1>7, <1>8, <1>9 DEF Passes

(***************************************************************************)
(* The steps of the passage.                                               *)
(***************************************************************************)
\* A step that writes nothing leaves a passage where it is, or ends it.
LEMMA PassageStays ==
    ASSUME TypeOK, OneClientInv, PassageInv, NEW w \in Writer, plan[w].made,
           UNCHANGED <<agent, op, plan>>,
           \/ pc'[w] = pc[w] \/ pc'[w] \in Ended
           \/ pc[w] \in Reading /\ pc'[w] \in Reading
    PROVE  OnTheWay(agent', pc'[w], op'[w].port, plan'[w])
<1>1. OnTheWay(agent, pc[w], op[w].port, plan[w])
  BY DEF PassageInv
<1>2. CASE pc'[w] = pc[w]
  BY <1>1, <1>2
<1>3. CASE pc'[w] \in Ended
  BY <1>1, <1>3 DEF OnTheWay, Underway, Ended, Reading, Walks
<1>4. CASE pc[w] \in Reading /\ pc'[w] \in Reading
  BY <1>1, <1>4 DEF OnTheWay, Underway, Reading, Walks
<1> QED BY <1>2, <1>3, <1>4

\* What a step may do to a call whose plan is made.
LEMMA MadeSteps ==
    ASSUME TypeOK, OneClientInv, NEW w \in Writer, plan[w].made, Step(w), ~Set(w)
    PROVE  /\ UNCHANGED <<agent, op, plan>>
           /\ \/ pc'[w] = pc[w] \/ pc'[w] \in Ended
              \/ pc[w] \in Reading /\ pc'[w] \in Reading
<1>1. Course(agent, pc[w], phase[w], op[w], plan[w])
  BY DEF OneClientInv, ClientFits
<1>2. \/ pc[w] \in Switching \cup {"ok", "failed", "diverged"}
      \/ pc[w] \in Reading /\ phase[w] = "after"
  BY <1>1 DEF Course
<1>3. CASE GetVlans(w)
  <2>1. PICK at, next, vw :
          /\ at \in Walks
          /\ Walk(w, at, next, vw)
          /\ next \in Walks \/ next = IF phase[w] = "before" THEN "decide" ELSE "verify"
    BY <1>3 DEF GetVlans, WalkName, WalkEgress, WalkUntagged, WalkCurrentEgress,
         WalkCurrentUntagged, Walks
  <2>2. pc[w] = at /\ pc'[w] = next /\ UNCHANGED <<agent, op, plan>>
    BY <2>1 DEF Walk, Advance, TypeOK
  <2>3. phase[w] = "after"
    BY <1>2, <2>1, <2>2 DEF Walks, Switching
  <2> QED BY <2>1, <2>2, <2>3 DEF Reading
<1>4. CASE LoseRead(w)
  BY <1>4 DEF LoseRead, End, Ended, TypeOK
<1>5. CASE Verify(w) \/ VerifyPvids(w)
  BY <1>5 DEF Verify, VerifyPvids, End, Ended, TypeOK
<1>6. ~(GetMode(w) \/ GetAllowed(w) \/ RawEgress(w) \/ RawUntagged(w) \/ ReadPvids(w) \/ Decide(w))
  BY <1>2 DEF GetMode, GetAllowed, RawEgress, RawUntagged, ReadPvids, Decide,
       Switching, Reading, Walks
<1> QED BY <1>3, <1>4, <1>5, <1>6 DEF Step, Read

LEMMA TransmitPasses ==
    ASSUME TypeOK, OneClientInv, PassageInv, NEW w \in Writer, plan[w].made,
           NEW at, NEW accepted \in BOOLEAN, NEW result, NEW next,
           Transmit(w, at, accepted, result, next),
           Passes(agent, result, at, next, op[w].port, plan[w])
    PROVE  OnTheWay(agent', pc'[w], op'[w].port, plan'[w])
<1> DEFINE p  == op[w].port
           pl == plan[w]
<1>1. pc[w] = at /\ OnTheWay(agent, at, p, pl) /\ UNCHANGED <<op, plan>>
  BY DEF PassageInv, Transmit
<1>2. OnTheWay(result, at, p, pl) /\ OnTheWay(result, next, p, pl)
  BY <1>1 DEF Passes
<1>3. ASSUME NEW s, OnTheWay(s, at, p, pl)
      PROVE  OnTheWay(s, "failed", p, pl)
  BY <1>3 DEF OnTheWay, Underway, Reading, Walks
<1>4. CASE agent' = result /\ Advance(w, next)
  BY <1>1, <1>2, <1>4 DEF Advance, TypeOK
<1>5. CASE agent' \in {agent, result} /\ UNCHANGED pc
  BY <1>1, <1>2, <1>5
<1>6. CASE agent' \in {agent, result} /\ End(w, "failed")
  <2>1. pc'[w] = "failed"
    BY <1>6 DEF End, TypeOK
  <2>2. OnTheWay(agent, "failed", p, pl) /\ OnTheWay(result, "failed", p, pl)
    BY <1>1, <1>2, <1>3
  <2> QED BY <1>1, <1>6, <2>1, <2>2
<1> QED BY <1>4, <1>5, <1>6 DEF Transmit

LEMMA SetPasses ==
    ASSUME TypeOK, OneClientInv, PassageInv, SwitchportModel, Coherent(agent),
           NEW w \in Writer, plan[w].made, Set(w)
    PROVE  OnTheWay(agent', pc'[w], op'[w].port, plan'[w])
<1> DEFINE s  == agent
           p  == op[w].port
           pl == plan[w]
<1>1. /\ ClientFits(s, pc[w], phase[w], op[w], view[w], pl, bits[w])
      /\ p \in Physical /\ p \in Port /\ pl \in Plan /\ WellFormed(s) /\ PlanFits(s, op[w], pl)
  BY VlanAgentAssumption, WriterAssumption
     DEF OneClientInv, TypeOK, AgentTypeOK, Operation, ClientFits
<1>2. pl.untagged \in Vlan /\ pl.allowed \in SUBSET Vlan
  BY <1>1 DEF Plan
<1>3. "access" \in Mode /\ "trunk" \in Mode
  BY DEF Mode
<1>4. pc[w] \notin AfterRaw \cup {"setCreate", "setDestroy", "setPvid"}
  BY <1>1 DEF ClientFits, Course, AfterRaw, Switching, Reading, Walks
<1>5. ASSUME NEW t, WellFormed(t), Coherent(t), OnlyPort(s, t, p)
      PROVE  /\ Columns(s, t, p, s.mode[p], s.access[p], s.native[p], pl.allowed) =>
                  Passes(s, t, "setAllowed", "setNative", p, pl)
             /\ Columns(s, t, p, s.mode[p], s.access[p], pl.untagged, s.allowed[p]) =>
                  Passes(s, t, "setNative", "setTrunk", p, pl)
             /\ Columns(s, t, p, "trunk", s.access[p], s.native[p], s.allowed[p]) =>
                  Passes(s, t, "setTrunk", "name", p, pl)
             /\ Columns(s, t, p, s.mode[p], pl.untagged, s.native[p], s.allowed[p]) =>
                  Passes(s, t, "setAccess", "setAccessMode", p, pl)
             /\ Columns(s, t, p, "access", s.access[p], s.native[p], s.allowed[p]) =>
                  Passes(s, t, "setAccessMode", "name", p, pl)
  <2>1. t.vlans = s.vlans
    BY <1>5 DEF OnlyPort
  <2> HIDE DEF s, p, pl
  <2> QED BY <1>1, <1>5, <2>1, PassageGoesOn DEF s
<1>6. CASE SetAllowed(w)
  <2> DEFINE t == WriteAllowed(s, p, pl.allowed)
  <2>1. /\ WellFormed(t) /\ Coherent(t) /\ OnlyPort(s, t, p)
        /\ Columns(s, t, p, s.mode[p], s.access[p], s.native[p], pl.allowed)
    BY <1>1, <1>2, <1>3, SwitchportWellFormed, SwitchportAgrees, SwitchportFrame
  <2>2. Transmit(w, "setAllowed", TRUE, t, "setNative")
    BY <1>6 DEF SetAllowed
  <2> HIDE DEF t
  <2>3. Passes(s, t, "setAllowed", "setNative", p, pl)
    BY <1>5, <2>1
  <2> QED BY <1>1, <2>2, <2>3, TransmitPasses
<1>7. CASE SetNative(w)
  <2> DEFINE t == WriteNative(s, p, pl.untagged)
  <2>1. /\ WellFormed(t) /\ Coherent(t) /\ OnlyPort(s, t, p)
        /\ Columns(s, t, p, s.mode[p], s.access[p], pl.untagged, s.allowed[p])
    BY <1>1, <1>2, <1>3, SwitchportWellFormed, SwitchportAgrees, SwitchportFrame
  <2> DEFINE accepted == NativeAccepted(s, pl.untagged)
  <2>2. Transmit(w, "setNative", accepted, t, "setTrunk") /\ accepted \in BOOLEAN
    BY <1>7 DEF SetNative, NativeAccepted
  <2> HIDE DEF t, accepted
  <2>3. Passes(s, t, "setNative", "setTrunk", p, pl)
    BY <1>5, <2>1
  <2> QED BY <1>1, <2>2, <2>3, TransmitPasses
<1>8. CASE SetTrunk(w)
  <2> DEFINE t == WriteMode(s, p, "trunk")
  <2>1. /\ WellFormed(t) /\ Coherent(t) /\ OnlyPort(s, t, p)
        /\ Columns(s, t, p, "trunk", s.access[p], s.native[p], s.allowed[p])
    BY <1>1, <1>2, <1>3, SwitchportWellFormed, SwitchportAgrees, SwitchportFrame
  <2>2. Transmit(w, "setTrunk", TRUE, t, "name")
    BY <1>8 DEF SetTrunk
  <2> HIDE DEF t
  <2>3. Passes(s, t, "setTrunk", "name", p, pl)
    BY <1>5, <2>1
  <2> QED BY <1>1, <2>2, <2>3, TransmitPasses
<1>9. CASE SetAccess(w)
  <2> DEFINE t == WriteAccessVlan(s, p, pl.untagged)
  <2>1. /\ WellFormed(t) /\ Coherent(t) /\ OnlyPort(s, t, p)
        /\ Columns(s, t, p, s.mode[p], pl.untagged, s.native[p], s.allowed[p])
    BY <1>1, <1>2, <1>3, SwitchportWellFormed, SwitchportAgrees, SwitchportFrame
  <2>2. Transmit(w, "setAccess", TRUE, t, "setAccessMode")
    BY <1>9 DEF SetAccess
  <2> HIDE DEF t
  <2>3. Passes(s, t, "setAccess", "setAccessMode", p, pl)
    BY <1>5, <2>1
  <2> QED BY <1>1, <2>2, <2>3, TransmitPasses
<1>10. CASE SetAccessMode(w)
  <2> DEFINE t == WriteMode(s, p, "access")
  <2>1. /\ WellFormed(t) /\ Coherent(t) /\ OnlyPort(s, t, p)
        /\ Columns(s, t, p, "access", s.access[p], s.native[p], s.allowed[p])
    BY <1>1, <1>2, <1>3, SwitchportWellFormed, SwitchportAgrees, SwitchportFrame
  <2>2. Transmit(w, "setAccessMode", TRUE, t, "name")
    BY <1>10 DEF SetAccessMode
  <2> HIDE DEF t
  <2>3. Passes(s, t, "setAccessMode", "name", p, pl)
    BY <1>5, <2>1
  <2> QED BY <1>1, <2>2, <2>3, TransmitPasses
<1>11. ~(SetEgress(w) \/ SetUntagged(w) \/ SetBoth(w) \/ SetCreate(w) \/ SetDestroy(w) \/ SetPvid(w))
  BY <1>4 DEF SetEgress, SetUntagged, SetBoth, SetCreate, SetDestroy, SetPvid, Transmit, AfterRaw
<1> QED BY <1>6, <1>7, <1>8, <1>9, <1>10, <1>11 DEF Set

LEMMA PassageStep ==
    ASSUME Alone, TypeOK, OneClientInv, MembershipIsDerived, PassageInv, [Next]_vars
    PROVE  PassageInv'
<1>1. ASSUME NEW w \in Writer, Invoke(w) \/ Step(w), plan'[w].made
      PROVE  OnTheWay(agent', pc'[w], op'[w].port, plan'[w])
  <2>1. ClientFits(agent, pc[w], phase[w], op[w], view[w], plan[w], bits[w])
    BY DEF OneClientInv
  <2>2. WellFormed(agent) /\ op[w].port \in Physical
    BY DEF TypeOK, AgentTypeOK, Operation
  <2>3. ~Invoke(w)
    BY <1>1 DEF Invoke, TypeOK, NoPlan
  <2>4. CASE plan[w].made /\ Set(w)
    <3>1. SwitchportModel
      BY <2>1, <2>4 DEF ClientFits, Course
    <3>2. Coherent(agent)
      BY <3>1 DEF MembershipIsDerived
    <3> QED BY <2>4, <3>1, <3>2, SetPasses
  <2>5. CASE plan[w].made /\ ~Set(w)
    BY <1>1, <2>3, <2>5, MadeSteps, PassageStays
  <2>6. CASE ~plan[w].made
    <3>1. GetAllowed(w)
      BY <1>1, <2>3, <2>6
         DEF Step, Read, GetVlans, WalkName, WalkEgress, WalkUntagged, WalkCurrentEgress,
             WalkCurrentUntagged, Walk, GetMode, RawEgress, RawUntagged, ReadPvids, LoseRead,
             Decide, Verify, VerifyPvids, Set, SetAllowed, SetNative, SetTrunk, SetAccess,
             SetAccessMode, SetEgress, SetUntagged, SetBoth, SetCreate, SetDestroy, SetPvid,
             Transmit
    <3>2. UNCHANGED <<agent, op>>
      BY <3>1, GetAllowedPlans
    <3> DEFINE pl == plan'[w]
    <3>3. /\ pl.made /\ PlanFits(agent, op[w], pl) /\ AsFound(agent, op[w].port, pl)
          /\ pc'[w] = IF pl.tagged # {} THEN "setAllowed" ELSE "setAccess"
      BY <1>1, <2>6, <3>1, GetAllowedPlans
    <3>4. SwitchportModel
      <4>1. pc[w] = "getAllowed"
        BY <3>1 DEF GetAllowed
      <4> QED BY <2>1, <4>1 DEF ClientFits, Course
    <3>5. Coherent(agent)
      BY <3>4 DEF MembershipIsDerived
    <3> HIDE DEF pl
    <3>6. OnTheWay(agent, IF pl.tagged # {} THEN "setAllowed" ELSE "setAccess", op[w].port, pl)
      BY <2>2, <3>3, <3>5, PassageBegins
    <3> QED BY <3>2, <3>3, <3>6 DEF pl
  <2> QED BY <2>4, <2>5, <2>6
<1>2. CASE UNCHANGED vars
  BY <1>2 DEF vars, PassageInv
<1>3. CASE Next
  <2>1. PICK w \in Writer : Invoke(w) \/ Step(w)
    BY <1>3 DEF Next
  <2>2. \A x \in Writer : x = w
    BY DEF Alone
  <2> QED BY <1>1, <2>1, <2>2 DEF PassageInv
<1> QED BY <1>2, <1>3

LEMMA PassageInvariant ==
    ASSUME Alone
    PROVE  Spec /\ [][agent'.vlans \subseteq agent.vlans]_vars => []PassageInv
<1>1. Init => PassageInv
  BY DEF Init, PassageInv, NoPlan
<1>2. TypeOK /\ OneClientInv /\ MembershipIsDerived /\ PassageInv /\ [Next]_vars => PassageInv'
  BY PassageStep
<1> QED
  BY <1>1, <1>2, TypeCorrect, OneClientInvariant, WritersKeepMembershipDerived, PTL DEF Spec

(***************************************************************************)
(* The order of the PDUs does what _set_vlan_switchport says it is for:    *)
(* from the plan on, after every PDU and whatever is lost, sent again or   *)
(* refused on the way, the port is in no VLAN it was not in and is not to  *)
(* be in.  For one client at a time, and while no VLAN comes into being    *)
(* (ports may still name a VLAN that is created anew).                     *)
(***************************************************************************)
THEOREM NoOvergrantProved ==
    ASSUME Alone
    PROVE  Spec /\ [][agent'.vlans \subseteq agent.vlans]_vars => []NoOvergrant
<1>1. PassageInv => NoOvergrant
  BY DEF PassageInv, OnTheWay, NoMore, NoOvergrant
<1> QED BY <1>1, PassageInvariant, PTL

(***************************************************************************)
(* Nor does it leave, on the way, a VLAN it was in and is to be in, or     *)
(* change its tagging there.                                               *)
(***************************************************************************)
THEOREM NoInterruptionProved ==
    ASSUME Alone
    PROVE  Spec /\ [][agent'.vlans \subseteq agent.vlans]_vars => []NoInterruption
<1>1. PassageInv => NoInterruption
  BY DEF PassageInv, OnTheWay, NoLess, NoInterruption
<1> QED BY <1>1, PassageInvariant, PTL

-----------------------------------------------------------------------------
(***************************************************************************)
(* While nothing is lost.                                                  *)
(***************************************************************************)
\* Where create_vlan is not called, no VLAN comes into being.
LEMMA NoVlanComes ==
    ASSUME "create" \notin Kind, TypeOK, OneClientInv, [Next]_vars
    PROVE  agent'.vlans \subseteq agent.vlans
<1>1. ASSUME NEW w \in Writer, Set(w)
      PROVE  agent'.vlans \subseteq agent.vlans
  <2> DEFINE s == agent
             o == op[w]
             p == op[w].port
             pl == plan[w]
  <2>1. /\ WellFormed(s) /\ p \in Port /\ o.vlan \in Vlan /\ bits[w] \in Bits
        /\ pl.untagged \in Vlan /\ pl.allowed \in SUBSET Vlan
        /\ "access" \in Mode /\ "trunk" \in Mode
        /\ Course(s, pc[w], phase[w], o, pl)
    BY VlanAgentAssumption
       DEF TypeOK, AgentTypeOK, Operation, Plan, Mode, OneClientInv, ClientFits
  <2>2. ASSUME NEW at, NEW accepted, NEW result, NEW next,
               Transmit(w, at, accepted, result, next), result.vlans \subseteq s.vlans
        PROVE  agent'.vlans \subseteq s.vlans
    BY <2>2, TransmitAgent
  <2>3. ~SetCreate(w)
    BY <2>1 DEF SetCreate, Transmit, Course, Resting, Ended
  <2>4. CASE SetAllowed(w) \/ SetNative(w) \/ SetTrunk(w) \/ SetAccess(w) \/ SetAccessMode(w)
    <3>1. /\ WriteAllowed(s, p, pl.allowed).vlans = s.vlans
          /\ WriteNative(s, p, pl.untagged).vlans = s.vlans
          /\ WriteMode(s, p, "trunk").vlans = s.vlans
          /\ WriteMode(s, p, "access").vlans = s.vlans
          /\ WriteAccessVlan(s, p, pl.untagged).vlans = s.vlans
      <4>1. /\ OnlyPort(s, WriteAllowed(s, p, pl.allowed), p)
            /\ OnlyPort(s, WriteNative(s, p, pl.untagged), p)
            /\ OnlyPort(s, WriteMode(s, p, "trunk"), p)
            /\ OnlyPort(s, WriteMode(s, p, "access"), p)
            /\ OnlyPort(s, WriteAccessVlan(s, p, pl.untagged), p)
        <5> HIDE DEF s, p, pl
        <5> QED BY <2>1, SwitchportFrame
      <4> QED BY <4>1 DEF OnlyPort
    <3> QED BY <2>2, <2>4, <3>1 DEF SetAllowed, SetNative, SetTrunk, SetAccess, SetAccessMode
  <2>5. CASE SetEgress(w) \/ SetUntagged(w) \/ SetBoth(w)
    <3>1. ~SwitchportModel
      BY <2>1, <2>5 DEF SetEgress, SetUntagged, SetBoth, Transmit, Course, Qbridge, AfterRaw
    <3>2. ASSUME NEW t, ListWrite(s, t, o, bits[w])
          PROVE  t.vlans = s.vlans
      <4> HIDE DEF s, o
      <4> QED BY <2>1, <3>1, <3>2, ListWriteFrame
    <3>3. PICK t : t = agent'
      OBVIOUS
    <3>4. t = s \/ ListWrite(s, t, o, bits[w])
      BY <2>5, <3>3, TransmitAgent DEF SetEgress, SetUntagged, SetBoth, ListWrite
    <3> QED BY <3>2, <3>3, <3>4
  <2>6. CASE SetDestroy(w) \/ SetPvid(w)
    <3>1. /\ DestroyRow(s, o.vlan).vlans \subseteq s.vlans
          /\ WritePvid(s, p, o.vlan).vlans = s.vlans
      BY <2>1 DEF DestroyRow, WritePvid, WellFormed, AgentState
    <3> QED BY <2>2, <2>6, <3>1 DEF SetDestroy, SetPvid
  <2> QED BY <1>1, <2>3, <2>4, <2>5, <2>6 DEF Set
<1> QED BY <1>1, OnlySetsWrite

\* The PortLists that are written are the PortLists that are there.
LEMMA ListsWritten ==
    ASSUME NEW s, WellFormed(s), ~SwitchportModel, NEW v \in Vlan, v \in s.vlans,
           NEW b \in Bits
    PROVE  /\ WriteEgress(s, v, b.egress).egress[v] = b.egress
           /\ WriteUntagged(s, v, b.untagged, FALSE).vlans = s.vlans
           /\ WriteUntagged(s, v, b.untagged, FALSE).egress = s.egress
           /\ WriteUntagged(s, v, b.untagged, FALSE).untagged[v] = b.untagged
           /\ ~AutoUntag =>
                /\ WriteMembership(s, v, b.egress, b.untagged).vlans = s.vlans
                /\ WriteMembership(s, v, b.egress, b.untagged).egress[v] = b.egress
                /\ WriteMembership(s, v, b.egress, b.untagged).untagged[v] = b.untagged
<1> DEFINE e == b.egress
           u == b.untagged
<1>1. e \in SUBSET Port /\ u \in SUBSET Port
  BY DEF Bits
<1> HIDE DEF e, u
<1>2. /\ s.egress \in [Vlan -> SUBSET Port] /\ s.untagged \in [Vlan -> SUBSET Port]
      /\ s \in AgentState
  BY DEF WellFormed, AgentState
<1>3. ASSUME NEW r \in AgentState, v \in r.vlans, NEW same \in BOOLEAN, ~(AutoUntag /\ same)
      PROVE  /\ WriteUntagged(r, v, u, same).vlans = r.vlans
             /\ WriteUntagged(r, v, u, same).egress = r.egress
             /\ WriteUntagged(r, v, u, same).untagged[v] = u
  BY <1>1, <1>3 DEF WriteUntagged, AgentState
<1> DEFINE r == WriteEgress(s, v, e)
<1>4. r.vlans = s.vlans /\ r.egress[v] = e
  BY <1>1, <1>2 DEF WriteEgress, AgentState
<1>5. r \in AgentState
  BY <1>1, QbridgeWellFormed DEF WellFormed
<1> HIDE DEF r
<1>6. ~AutoUntag =>
        /\ WriteUntagged(r, v, u, TRUE).vlans = s.vlans
        /\ WriteUntagged(r, v, u, TRUE).egress[v] = e
        /\ WriteUntagged(r, v, u, TRUE).untagged[v] = u
  BY <1>3, <1>4, <1>5
<1>7. /\ WriteUntagged(s, v, u, FALSE).vlans = s.vlans
      /\ WriteUntagged(s, v, u, FALSE).egress = s.egress
      /\ WriteUntagged(s, v, u, FALSE).untagged[v] = u
  BY <1>2, <1>3
<1> QED BY <1>4, <1>6, <1>7 DEF r, e, u, WriteMembership

\* A SET of a call that loses nothing is answered, and accepted or refused.
LEMMA Answered ==
    ASSUME TypeOK, NEW w \in Writer, NEW at, NEW accepted \in BOOLEAN, NEW result, NEW next,
           Transmit(w, at, accepted, result, next), lost' = 0, accepted
    PROVE  /\ pc[w] = at /\ agent' = result /\ pc'[w] = next
           /\ op'[w] = op[w] /\ bits'[w] = bits[w]
           /\ next = "name" => phase'[w] = "after"
           /\ next # "name" => phase'[w] = phase[w]
BY DEF Transmit, Advance, TypeOK

LEMMA QuietSet ==
    ASSUME AutoUntag => SplitWrites, "create" \notin Kind, TypeOK, OneClientInv,
           lost' = 0, DefaultVlan \in agent.vlans, NEW w \in Writer, Set(w),
           QuietFits(agent, pc[w], phase[w], op[w], bits[w])
    PROVE  QuietFits(agent', pc'[w], phase'[w], op'[w], bits'[w])
<1> DEFINE o  == op[w]
           pl == plan[w]
<1>1. /\ Course(agent, pc[w], phase[w], o, pl) /\ (pl.made => PlanFits(agent, o, pl))
      /\ WellFormed(agent) /\ o.port \in Port /\ o.vlan \in Vlan
  BY VlanAgentAssumption DEF TypeOK, AgentTypeOK, Operation, OneClientInv, ClientFits
<1>2. pc[w] \in Sets => phase[w] # "after"
  BY <1>1 DEF Course, Sets, Reading, Walks
<1> HIDE DEF o, pl
<1>3. ASSUME NEW at \in Switching, NEW accepted \in BOOLEAN, NEW result, NEW next,
             Transmit(w, at, accepted, result, next), accepted,
             next \in Switching \cup {"name"}
      PROVE  QuietFits(agent', pc'[w], phase'[w], op'[w], bits'[w])
  <2>1. /\ pc[w] = at /\ pc'[w] = next /\ op'[w] = o
        /\ next # "name" => phase'[w] = phase[w]
    BY <1>3, Answered DEF o
  <2>2. o.kind = "membership" /\ SwitchportModel
    BY <1>1, <2>1 DEF Course
  <2> QED BY <1>3, <2>1, <2>2 DEF QuietFits, Switching
<1>4. CASE SetAllowed(w)
  BY <1>3, <1>4 DEF SetAllowed, Switching
<1>5. CASE SetNative(w)
  <2>1. pl.made
    BY <1>1, <1>5 DEF SetNative, Transmit, Course, Switching
  <2>2. NativeAccepted(agent, pl.untagged)
    BY <1>1, <2>1 DEF PlanFits, NativeAccepted, WantUntagged
  <2>3. NativeAccepted(agent, pl.untagged) \in BOOLEAN
    BY DEF NativeAccepted
  <2> QED BY <1>3, <1>5, <2>2, <2>3 DEF SetNative, Switching, pl
<1>6. CASE SetTrunk(w)
  BY <1>3, <1>6 DEF SetTrunk, Switching
<1>7. CASE SetAccess(w)
  BY <1>3, <1>7 DEF SetAccess, Switching
<1>8. CASE SetAccessMode(w)
  BY <1>3, <1>8 DEF SetAccessMode, Switching
<1>9. CASE SetDestroy(w)
  <2>1. /\ pc[w] = "setDestroy" /\ agent' = DestroyRow(agent, o.vlan) /\ pc'[w] = "name"
        /\ op'[w] = o
    BY <1>9, Answered DEF SetDestroy, o
  <2>2. o.vlan \notin agent'.vlans /\ o.kind = "delete"
    BY <1>1, <2>1 DEF DestroyRow, WellFormed, AgentState, Course
  <2> QED BY <2>1, <2>2 DEF QuietFits
<1>10. CASE SetPvid(w)
  <2> DEFINE t == WritePvid(agent, o.port, o.vlan)
  <2>1. /\ pc[w] = "setPvid" /\ agent' = t
        /\ pc'[w] = "verifyPvids" /\ op'[w] = o /\ phase'[w] = phase[w]
    <3>1. Transmit(w, "setPvid", TRUE, t, "verifyPvids") /\ "verifyPvids" # "name"
      BY <1>10 DEF SetPvid, o
    <3> HIDE DEF t
    <3>2. op'[w] = op[w]
      BY <3>1, Answered
    <3> QED BY <3>1, <3>2, Answered DEF o
  <2>2. agent'.pvid[o.port] = o.vlan
    BY <1>1, <2>1 DEF WritePvid, WellFormed, AgentState
  <2> QED BY <1>2, <2>1, <2>2 DEF QuietFits, Sets
<1>11. ~SetCreate(w)
  BY <1>1 DEF SetCreate, Transmit, Course, Resting, Ended
<1>12. pc[w] \in AfterRaw =>
         /\ ~SwitchportModel /\ o.vlan \in agent.vlans /\ o.kind = "membership"
         /\ bits[w] \in Bits
  BY <1>1 DEF TypeOK, Course, Qbridge
<1>13. CASE SetEgress(w)
  <2> DEFINE t        == WriteEgress(agent, o.vlan, bits[w].egress)
             accepted == EgressAccepted(agent, o.vlan)
  <2>1. /\ pc[w] = "setEgress" /\ "setUntagged" # "name"
        /\ Transmit(w, "setEgress", accepted, t, "setUntagged")
    BY <1>13 DEF SetEgress, Transmit, o
  <2>2. accepted = TRUE
    BY <1>12, <2>1 DEF AfterRaw, EgressAccepted
  <2>3. t.egress[o.vlan] = bits[w].egress
    <3>1. /\ ~SwitchportModel /\ WellFormed(agent) /\ o.vlan \in Vlan
          /\ o.vlan \in agent.vlans /\ bits[w] \in Bits
      BY <1>1, <1>12, <2>1 DEF AfterRaw
    <3> QED BY <3>1, ListsWritten
  <2> HIDE DEF t, accepted
  <2>4. /\ agent' = t /\ pc'[w] = "setUntagged" /\ op'[w] = o /\ bits'[w] = bits[w]
        /\ phase'[w] = phase[w]
    BY <2>1, <2>2, Answered DEF o
  <2> QED BY <1>2, <2>1, <2>3, <2>4 DEF QuietFits, Sets
<1>14. CASE SetUntagged(w)
  <2> DEFINE t == WriteUntagged(agent, o.vlan, bits[w].untagged, FALSE)
  <2>1. pc[w] = "setUntagged" /\ Transmit(w, "setUntagged", TRUE, t, "name")
    BY <1>14 DEF SetUntagged, Transmit, o
  <2>2. t.vlans = agent.vlans /\ t.egress = agent.egress /\ t.untagged[o.vlan] = bits[w].untagged
    <3>1. /\ ~SwitchportModel /\ WellFormed(agent) /\ o.vlan \in Vlan
          /\ o.vlan \in agent.vlans /\ bits[w] \in Bits
      BY <1>1, <1>12, <2>1 DEF AfterRaw
    <3> QED BY <3>1, ListsWritten
  <2>3. agent.egress[o.vlan] = bits[w].egress
    BY <2>1 DEF QuietFits, o
  <2> HIDE DEF t
  <2>4. agent' = t /\ pc'[w] = "name" /\ op'[w] = o /\ bits'[w] = bits[w]
    BY <2>1, Answered DEF o
  <2> QED BY <1>12, <2>1, <2>2, <2>3, <2>4 DEF QuietFits, AfterRaw
<1>15. CASE SetBoth(w)
  <2> DEFINE t        == WriteMembership(agent, o.vlan, bits[w].egress, bits[w].untagged)
             accepted == EgressAccepted(agent, o.vlan)
  <2>1. pc[w] = "setBoth" /\ Transmit(w, "setBoth", accepted, t, "name")
    BY <1>15 DEF SetBoth, Transmit, o
  <2>2. accepted = TRUE
    BY <1>12, <2>1 DEF AfterRaw, EgressAccepted
  <2>3. ~AutoUntag
    BY <2>1 DEF QuietFits
  <2>4. /\ t.vlans = agent.vlans
        /\ t.egress[o.vlan] = bits[w].egress /\ t.untagged[o.vlan] = bits[w].untagged
    <3>1. /\ ~SwitchportModel /\ WellFormed(agent) /\ o.vlan \in Vlan
          /\ o.vlan \in agent.vlans /\ bits[w] \in Bits
      BY <1>1, <1>12, <2>1 DEF AfterRaw
    <3> QED BY <2>3, <3>1, ListsWritten
  <2> HIDE DEF t, accepted
  <2>5. agent' = t /\ pc'[w] = "name" /\ op'[w] = o /\ bits'[w] = bits[w]
    BY <2>1, <2>2, Answered DEF o
  <2> QED BY <1>12, <2>1, <2>4, <2>5 DEF QuietFits, AfterRaw
<1> QED
  BY <1>4, <1>5, <1>6, <1>7, <1>8, <1>9, <1>10, <1>11, <1>13, <1>14, <1>15 DEF Set

\* What reads back is what the call was for.
LEMMA QuietVerified ==
    ASSUME "create" \notin Kind, TypeOK, OneClientInv, PassageInv,
           DefaultVlan \in agent.vlans, NEW w \in Writer, pc[w] = "verify",
           QuietFits(agent, pc[w], phase[w], op[w], bits[w])
    PROVE  Verified(w)
<1> DEFINE o  == op[w]
           pl == plan[w]
           vw == view[w]
<1>1. /\ ClientFits(agent, "verify", phase[w], o, vw, pl, bits[w])
      /\ Course(agent, "verify", phase[w], o, pl) /\ ViewTrue(agent, "verify", vw)
      /\ WellFormed(agent) /\ o.port \in Physical /\ o.kind \in Kinds /\ "verify" \in Heard
      /\ o.vlan \in Vlan
  BY DEF TypeOK, AgentTypeOK, Operation, OneClientInv, ClientFits, Heard
<1>2. /\ Present(vw) = agent.vlans
      /\ TaggedVlans(vw, o.port) = TaggedIn(agent, o.port)
      /\ UntaggedVlans(vw, o.port) = UntaggedIn(agent, o.port)
      /\ Members(vw, o.vlan) = agent.egress[o.vlan] \cap Physical
      /\ UntaggedPorts(vw, o.vlan) = agent.untagged[o.vlan] \cap Physical
  <2> HIDE DEF o, pl, vw
  <2> QED BY <1>1, ViewTells
<1>3. phase[w] = "after" /\ o.kind \in Kind /\ o.kind # "pvid" /\ o.kind # "create"
  BY <1>1 DEF Course, Resting, Ended
<1>4. CASE o.kind = "membership" /\ SwitchportModel
  <2>1. pl.made /\ PlanFits(agent, o, pl) /\ AsWanted(agent, o.port, pl)
    <3>1. pl.made
      BY <1>1, <1>3, <1>4 DEF Course
    <3>2. OnTheWay(agent, "verify", o.port, pl)
      BY <3>1 DEF PassageInv
    <3> QED BY <1>1, <3>1, <3>2 DEF ClientFits, OnTheWay, Underway, Reading
  <2>2. /\ o.vlan \in agent.vlans /\ pl.untagged \in agent.vlans
        /\ pl.tagged \subseteq agent.vlans
    BY <2>1 DEF PlanFits, WantTagged, WantUntagged
  <2>3. ~Diverges(pl, vw, o.vlan, o.port)
    BY <1>2, <2>1, <2>2 DEF Diverges, AsWanted
  <2> QED BY <1>4, <2>3 DEF Verified
<1>5. CASE o.kind = "membership" /\ ~SwitchportModel
  BY <1>2, <1>3, <1>5 DEF QuietFits, Verified
<1>6. CASE o.kind = "delete"
  BY <1>2, <1>3, <1>6 DEF QuietFits, Verified
<1> QED BY <1>1, <1>3, <1>4, <1>5, <1>6 DEF Kinds

LEMMA QuietStep ==
    ASSUME Alone, AutoUntag => SplitWrites, "create" \notin Kind,
           TypeOK, OneClientInv, PassageInv, QuietInv, [Next]_vars
    PROVE  QuietInv'
<1>1. SUFFICES ASSUME lost' = 0, DefaultVlan \in agent'.vlans
               PROVE  \A w \in Writer : QuietFits(agent', pc'[w], phase'[w], op'[w], bits'[w])
  BY DEF QuietInv
<1>2. DefaultVlan \in agent.vlans
  BY <1>1, NoVlanComes
<1>3. ASSUME NEW w \in Writer, Invoke(w) \/ Step(w)
      PROVE  QuietFits(agent', pc'[w], phase'[w], op'[w], bits'[w])
  <2>1. lost \in Nat
    BY WriterAssumption DEF TypeOK
  <2>2. lost = 0
    <3>1. lost' = lost \/ lost' = lost + 1
      BY <1>3
         DEF Step, Read, GetVlans, WalkName, WalkEgress, WalkUntagged, WalkCurrentEgress,
             WalkCurrentUntagged, Walk, GetMode, GetAllowed, RawEgress, RawUntagged, ReadPvids,
             LoseRead, Decide, Verify, VerifyPvids, Set, SetAllowed, SetNative, SetTrunk,
             SetAccess, SetAccessMode, SetEgress, SetUntagged, SetBoth, SetCreate, SetDestroy,
             SetPvid, Transmit, Invoke
    <3> QED BY <1>1, <2>1, <3>1
  <2>3. QuietFits(agent, pc[w], phase[w], op[w], bits[w])
    BY <1>2, <2>2 DEF QuietInv
  <2>4. Course(agent, pc[w], phase[w], op[w], plan[w])
    BY DEF OneClientInv, ClientFits
  <2>5. CASE Invoke(w)
    <3>1. phase'[w] = "before" /\ pc'[w] \in {"refused", "name"}
      <4>1. phase[w] # "after"
        BY <2>4, <2>5 DEF Invoke, Course, Resting, Ended, Reading, Walks
      <4>2. pc'[w] \in {"refused", "name"} /\ UNCHANGED phase
        BY <2>5 DEF Invoke, TypeOK
      <4> QED BY <4>1, <4>2 DEF TypeOK
    <3> QED BY <3>1 DEF QuietFits
  <2>6. CASE GetVlans(w)
    <3>1. /\ pc'[w] \in Walks \cup {"decide", "verify"}
          /\ UNCHANGED <<agent, op, bits>> /\ phase'[w] = phase[w]
      BY <2>6 DEF GetVlans, WalkName, WalkEgress, WalkUntagged, WalkCurrentEgress,
           WalkCurrentUntagged, Walk, Advance, Walks, TypeOK
    <3> QED BY <2>3, <3>1 DEF QuietFits, Walks
  <2>7. ~LoseRead(w)
    BY <1>1, <2>2 DEF LoseRead
  <2>8. CASE Decide(w)
    <3>1. phase[w] # "after"
      BY <2>4, <2>8 DEF Decide, Course, Reading, Walks
    <3>2. /\ pc'[w] \in {"refused", "getMode", "rawEgress", "setCreate", "setDestroy", "readPvids"}
          /\ phase'[w] # "after"
      <4>1. op[w].kind \in Kinds
        BY DEF TypeOK, Operation
      <4>2. FirstRequest(op[w]) \in {"getMode", "rawEgress", "setCreate", "setDestroy", "readPvids"}
        BY <4>1 DEF FirstRequest, Kinds
      <4> HIDE DEF FirstRequest
      <4> QED BY <2>8, <3>1, <4>2 DEF Decide, End, Advance, TypeOK
    <3> QED BY <3>2 DEF QuietFits
  <2>9. CASE GetMode(w) \/ GetAllowed(w) \/ RawEgress(w) \/ RawUntagged(w) \/ ReadPvids(w)
    <3>1. phase[w] # "after"
      BY <2>4, <2>9 DEF GetMode, GetAllowed, RawEgress, RawUntagged, ReadPvids, Course,
           Reading, Walks
    <3>2. /\ pc'[w] \in {"refused", "getAllowed", "setAllowed", "setAccess", "rawUntagged",
                         "setEgress", "setBoth", "setPvid"}
          /\ phase'[w] # "after"
          /\ pc'[w] = "setBoth" => ~SplitWrites
      BY <2>9, <3>1 DEF GetMode, GetAllowed, RawEgress, RawUntagged, ReadPvids, End, Advance,
           TypeOK
    <3> QED BY <3>2 DEF QuietFits
  <2>10. CASE Set(w)
    BY <1>1, <1>2, <2>3, <2>10, QuietSet
  <2>11. CASE Verify(w)
    <3>1. Verified(w)
      BY <1>2, <2>3, <2>11, QuietVerified DEF Verify
    <3>2. pc'[w] = "ok" /\ phase'[w] = "before"
      BY <2>11, <3>1 DEF Verify, End, TypeOK
    <3> QED BY <3>2 DEF QuietFits
  <2>12. CASE VerifyPvids(w)
    <3>1. agent.pvid[op[w].port] = op[w].vlan
      BY <2>3, <2>12 DEF VerifyPvids, QuietFits
    <3>2. pc'[w] = "ok" /\ phase'[w] = "before"
      BY <2>12, <3>1 DEF VerifyPvids, End, TypeOK
    <3> QED BY <3>2 DEF QuietFits
  <2> QED BY <1>3, <2>2, <2>5, <2>6, <2>7, <2>8, <2>9, <2>10, <2>11, <2>12 DEF Step, Read
<1>4. CASE UNCHANGED vars
  BY <1>1, <1>2, <1>4 DEF vars, QuietInv
<1>5. CASE Next
  <2>1. PICK w \in Writer : Invoke(w) \/ Step(w)
    BY <1>5 DEF Next
  <2>2. \A x \in Writer : x = w
    BY DEF Alone
  <2> QED BY <1>3, <2>1, <2>2
<1> QED BY <1>4, <1>5

(***************************************************************************)
(* Where nothing is lost, a call that the guards, the preconditions and    *)
(* the plan let through returns: every SET of it is accepted, and what     *)
(* get_vlans reads back is what the plan or the PortLists aimed for.  So   *)
(* SnmpError and WriteVerificationError tell of the network or of another  *)
(* client, never of the way the call went about it.  For one client that   *)
(* creates no VLAN, on a switch that untags added ports only if the model  *)
(* is written in two PDUs, which is what registry.py has of the S3300.     *)
(***************************************************************************)
THEOREM QuietCallsSucceedProved ==
    ASSUME Alone, AutoUntag => SplitWrites, "create" \notin Kind
    PROVE  Spec => []QuietCallsSucceed
<1>1. Init => QuietInv
  BY DEF Init, QuietInv, QuietFits
<1>2. TypeOK /\ OneClientInv /\ PassageInv /\ QuietInv /\ [Next]_vars => QuietInv'
  BY QuietStep
<1>3. TypeOK /\ OneClientInv /\ [Next]_vars => agent'.vlans \subseteq agent.vlans
  BY NoVlanComes
<1>4. QuietInv => QuietCallsSucceed
  BY DEF QuietInv, QuietFits, QuietCallsSucceed
<1> QED
  BY <1>1, <1>2, <1>3, <1>4, TypeCorrect, OneClientInvariant, PassageInvariant, PTL DEF Spec

=============================================================================
