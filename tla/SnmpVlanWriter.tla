--------------------------- MODULE SnmpVlanWriter ---------------------------
(***************************************************************************)
(* SnmpWriter's VLAN operations (snmp_write.py) against the agent of       *)
(* VlanAgent: set_vlan_membership in its two dialects, create_vlan,        *)
(* delete_vlan and set_pvid.                                               *)
(*                                                                         *)
(* A writer is one client with one operation in flight: a SnmpWriter in a  *)
(* process of its own, or one task of an AsyncSnmpWriter.  Every walk, GET *)
(* and SET PDU is a step of its own, so that other writers act between     *)
(* them.  A walk of one column is one step.  An exchange can be lost: the  *)
(* transport sends a request again up to Retries times, and then raises.   *)
(***************************************************************************)
EXTENDS VlanAgent, Naturals

CONSTANTS
    Writer,       \* concurrent clients
    Protected,    \* protected_ports
    Forces,       \* the values callers pass for force
    Kind,         \* the operations callers use
    PortsOf,      \* the ports each writer is asked to change
    SplitWrites,  \* snmp_vlan_split_membership_writes
    Retries,      \* retransmissions of one request
    MaxLoss,      \* bound: exchanges lost in a behaviour
    MaxOps        \* bound: operations started in a behaviour

Kinds == {"membership", "create", "delete", "pvid"}
VlanMode == {"untagged", "tagged", "excluded"}

ASSUME WriterAssumption ==
    /\ Physical # {}
    /\ Protected \subseteq Physical
    /\ Forces \subseteq BOOLEAN
    /\ Kind \subseteq Kinds
    /\ PortsOf \in [Writer -> SUBSET Physical]
    /\ SplitWrites \in BOOLEAN
    /\ {Retries, MaxLoss, MaxOps} \subseteq Nat

VARIABLES
    pc,       \* where each writer is
    phase,    \* is its get_vlans the one before the SETs or the one after
    op,       \* the call: kind and arguments
    view,     \* what its walks have returned
    seen,     \* the switchport mode it has read
    plan,     \* _SwitchportPlan, and the membership it was made from
    bits,     \* new_egress, new_untagged of the Q-BRIDGE dialect
    tries,    \* transmissions of the current request
    lost,     \* exchanges lost so far
    started   \* operations started so far

vars == <<agent, pc, phase, op, view, seen, plan, bits, tries, lost, started>>

Operation ==
    [kind : Kinds, vlan : Vlan, port : Physical, mode : VlanMode,
     name : Name, force : BOOLEAN]

View ==
    [rows : SUBSET Vlan, name : [Vlan -> Name],
     egress : [Vlan -> SUBSET Port], untagged : [Vlan -> SUBSET Port],
     current : SUBSET Vlan,
     curEgress : [Vlan -> SUBSET Port], curUntagged : [Vlan -> SUBSET Port]]

Plan ==
    [made : BOOLEAN, wasTagged : SUBSET Vlan, wasUntagged : SUBSET Vlan,
     tagged : SUBSET Vlan, untagged : Vlan, allowed : SUBSET Vlan]

NoView ==
    LET none == [v \in Vlan |-> {}]
    IN  [rows |-> {}, name |-> [v \in Vlan |-> NoName], egress |-> none,
         untagged |-> none, current |-> {}, curEgress |-> none, curUntagged |-> none]

NoPlan ==
    [made |-> FALSE, wasTagged |-> {}, wasUntagged |-> {}, tagged |-> {},
     untagged |-> DefaultVlan, allowed |-> {}]

NoCall == CHOOSE o \in Operation : TRUE

Bits == [egress : SUBSET Port, untagged : SUBSET Port]

NoBits == [egress |-> {}, untagged |-> {}]

-----------------------------------------------------------------------------
(***************************************************************************)
(* Reading: parse_vlans over the columns a view holds.                     *)
(***************************************************************************)
Present(vw)         == vw.rows \cup vw.current
Members(vw, v)      == IF v \in vw.rows THEN vw.egress[v] ELSE vw.curEgress[v]
UntaggedPorts(vw, v) == IF v \in vw.rows THEN vw.untagged[v] ELSE vw.curUntagged[v]
TaggedPorts(vw, v)  == Members(vw, v) \ UntaggedPorts(vw, v)

\* _port_membership
TaggedVlans(vw, p)   == {v \in Present(vw) : p \in TaggedPorts(vw, v)}
UntaggedVlans(vw, p) == {v \in Present(vw) : p \in UntaggedPorts(vw, v)}

(***************************************************************************)
(* _plan_switchport_membership.  WantTagged and WantUntagged are the       *)
(* membership the caller asked for; a plan is refused when the hardware    *)
(* cannot express it.                                                      *)
(***************************************************************************)
\* Bug: tagging one VLAN untags the others.
WantOneTagged(o, tagged) ==
    IF o.mode = "tagged" THEN {o.vlan} ELSE tagged \ {o.vlan}

WantTagged(o, tagged) ==
    IF o.mode = "tagged" THEN tagged \cup {o.vlan} ELSE tagged \ {o.vlan}

WantUntagged(o, untagged) ==
    IF o.mode = "untagged" THEN {o.vlan} ELSE untagged \ {o.vlan}

Refused(wt, wu) ==
    \/ \E a, b \in wu : a # b
    \/ wu = {} /\ DefaultVlan \in wt

\* Bugs: the plan adds to the allowed VLANs and takes none away; or it
\* allows nothing but what the caller named.
PlanAdding(o, curMode, curAllowed, tagged, untagged, existing) ==
    LET wu   == WantUntagged(o, untagged)
        home == IF wu = {} THEN DefaultVlan ELSE CHOOSE v \in wu : TRUE
    IN  [made |-> TRUE, wasTagged |-> tagged, wasUntagged |-> untagged,
         tagged |-> WantTagged(o, tagged), untagged |-> home,
         allowed |-> curAllowed \cup WantTagged(o, tagged) \cup {home}]

PlanNamed(o, curMode, curAllowed, tagged, untagged, existing) ==
    LET pl == PlanAdding(o, curMode, curAllowed, tagged, untagged, existing)
    IN  [pl EXCEPT !.allowed = {o.vlan, pl.untagged}]

MakePlan(o, curMode, curAllowed, tagged, untagged, existing) ==
    LET wt   == WantTagged(o, tagged)
        wu   == WantUntagged(o, untagged)
        home == IF wu = {} THEN DefaultVlan ELSE CHOOSE v \in wu : TRUE
        keep == wt \cup {home}
    IN  [made |-> TRUE, wasTagged |-> tagged, wasUntagged |-> untagged,
         tagged |-> wt, untagged |-> home,
         allowed |-> IF curMode = "trunk" THEN (curAllowed \cup keep) \ (existing \ keep)
                                          ELSE keep]

\* _switchport_divergence
\* Bug: every VLAN with the port in its egress list counts as tagged.
DivergesByEgress(pl, vw, v, p) ==
    \/ v \notin Present(vw)
    \/ UntaggedVlans(vw, p) # {pl.untagged}
    \/ {x \in Present(vw) : p \in Members(vw, x)} # pl.tagged

Diverges(pl, vw, v, p) ==
    \/ v \notin Present(vw)
    \/ UntaggedVlans(vw, p) # {pl.untagged}
    \/ TaggedVlans(vw, p) # pl.tagged

\* membership_bitmaps: one port's bit in each PortList.
SetPortBit(ports, p, on) == IF on THEN ports \cup {p} ELSE ports \ {p}
InEgress(o)   == o.mode \in {"untagged", "tagged"}
\* Bug: tagged is taken for untagged.
InEitherList(o) == o.mode # "excluded"
InUntagged(o) == o.mode = "untagged"

-----------------------------------------------------------------------------
(***************************************************************************)
(* Control points.  A call ends by returning, or by one of three kinds of  *)
(* exception: refused before anything was sent, failed by the transport or *)
(* by the agent, or diverged (WriteVerificationError).                     *)
(***************************************************************************)
Walks   == {"name", "egress", "untagged", "curEgress", "curUntagged"}
Reads   == Walks \cup {"getMode", "getAllowed", "rawEgress", "rawUntagged",
                       "readPvids", "verifyPvids"}
Sets    == {"setAllowed", "setNative", "setTrunk", "setAccess", "setAccessMode",
            "setEgress", "setUntagged", "setBoth", "setCreate", "setDestroy", "setPvid"}
Ended   == {"ok", "refused", "failed", "diverged"}
Resting == {"idle"} \cup Ended
Pc      == Resting \cup Reads \cup Sets \cup {"decide", "verify"}

\* Go on with the call.  The walks that follow the last SET verify it.
Advance(w, to) ==
    /\ pc' = [pc EXCEPT ![w] = to]
    /\ phase' = [phase EXCEPT ![w] = IF to = "name" THEN "after" ELSE @]
    /\ tries' = [tries EXCEPT ![w] = 0]

\* Return or raise.  What the call has read dies with it.
End(w, how) ==
    /\ pc' = [pc EXCEPT ![w] = how]
    /\ phase' = [phase EXCEPT ![w] = "before"]
    /\ tries' = [tries EXCEPT ![w] = 0]
    /\ view' = [view EXCEPT ![w] = NoView]
    /\ bits' = [bits EXCEPT ![w] = NoBits]

Init ==
    /\ AgentInit
    /\ pc      = [w \in Writer |-> "idle"]
    /\ phase   = [w \in Writer |-> "before"]
    /\ op      = [w \in Writer |-> NoCall]
    /\ view    = [w \in Writer |-> NoView]
    /\ seen    = [w \in Writer |-> "access"]
    /\ plan    = [w \in Writer |-> NoPlan]
    /\ bits    = [w \in Writer |-> NoBits]
    /\ tries   = [w \in Writer |-> 0]
    /\ lost    = 0
    /\ started = 0

-----------------------------------------------------------------------------
(***************************************************************************)
(* The start of a call, up to its first request: the guards that need no   *)
(* answer from the switch.                                                 *)
(***************************************************************************)
Calls(w) ==
    LET Call(kind, port, mode, name, force) ==
            [kind : {kind} \cap Kind, vlan : Vlan, port : port, mode : mode,
             name : name, force : force]
        any == {CHOOSE p \in Physical : TRUE}
    IN  UNION {Call("membership", PortsOf[w], VlanMode, {NoName}, Forces),
               Call("pvid", PortsOf[w], {"tagged"}, {NoName}, Forces),
               Call("delete", any, {"tagged"}, {NoName}, Forces),
               Call("create", any, {"tagged"}, Name, {FALSE})}

GuardRaises(o) ==
    \/ o.kind \in {"membership", "pvid"} /\ o.port \in Protected /\ ~o.force
    \/ o.kind = "create" /\ ~CanCreateVlan

Invoke(w) ==
    /\ pc[w] \in Resting
    /\ started < MaxOps
    /\ started' = started + 1
    /\ \E o \in Calls(w) :
         /\ op' = [op EXCEPT ![w] = o]
         /\ pc' = [pc EXCEPT ![w] = IF GuardRaises(o) THEN "refused" ELSE "name"]
    /\ plan' = [plan EXCEPT ![w] = NoPlan]
    /\ UNCHANGED <<agent, phase, view, seen, bits, tries, lost>>

-----------------------------------------------------------------------------
(***************************************************************************)
(* get_vlans: five walks (the sixth, of ifType, answers a constant).       *)
(***************************************************************************)
Visible(col, rows) == [v \in Vlan |-> IF v \in rows THEN col[v] \cap Physical ELSE {}]

Walk(w, at, next, result) ==
    /\ pc[w] = at
    /\ view' = [view EXCEPT ![w] = result]
    /\ Advance(w, next)
    /\ UNCHANGED <<agent, op, seen, plan, bits, lost, started>>

WalkName(w) ==
    Walk(w, "name", "egress",
         [view[w] EXCEPT !.rows = agent.static, !.name = agent.name])

WalkEgress(w) ==
    Walk(w, "egress", "untagged",
         [view[w] EXCEPT !.egress = Visible(agent.egress, agent.static)])

WalkUntagged(w) ==
    Walk(w, "untagged", "curEgress",
         [view[w] EXCEPT !.untagged = Visible(agent.untagged, agent.static)])

WalkCurrentEgress(w) ==
    Walk(w, "curEgress", "curUntagged",
         [view[w] EXCEPT !.current = agent.vlans,
                         !.curEgress = Visible(agent.egress, agent.vlans)])

WalkCurrentUntagged(w) ==
    Walk(w, "curUntagged", IF phase[w] = "before" THEN "decide" ELSE "verify",
         [view[w] EXCEPT !.curUntagged = Visible(agent.untagged, agent.vlans)])

GetVlans(w) ==
    \/ WalkName(w)
    \/ WalkEgress(w)
    \/ WalkUntagged(w)
    \/ WalkCurrentEgress(w)
    \/ WalkCurrentUntagged(w)

\* A request of a read is lost, or its answer: sent again, or given up.
LoseRead(w) ==
    /\ pc[w] \in Reads
    /\ lost < MaxLoss
    /\ lost' = lost + 1
    /\ IF tries[w] < Retries
       THEN /\ tries' = [tries EXCEPT ![w] = @ + 1]
            /\ UNCHANGED <<pc, phase, view, bits>>
       ELSE End(w, "failed")
    /\ UNCHANGED <<agent, op, seen, plan, started>>

-----------------------------------------------------------------------------
(***************************************************************************)
(* What the call does with the VLANs it has read: the preconditions.       *)
(***************************************************************************)
\* Bug: the clash check of delete_vlan looks at the untagged ports only.
ClashByUntagged(w) ==
    LET o == op[w] IN
    \/ o.kind # "create" /\ o.vlan \notin Present(view[w])
    \/ /\ o.kind = "delete"
       /\ ~o.force
       /\ UntaggedPorts(view[w], o.vlan) \cap Protected # {}

PreconditionFails(w) ==
    LET o == op[w] IN
    \/ o.kind # "create" /\ o.vlan \notin Present(view[w])
    \/ /\ o.kind = "delete"
       /\ ~o.force
       /\ Members(view[w], o.vlan) \cap Protected # {}

FirstRequest(o) ==
    CASE o.kind = "membership" -> IF SwitchportModel THEN "getMode" ELSE "rawEgress"
      [] o.kind = "create"     -> "setCreate"
      [] o.kind = "delete"     -> "setDestroy"
      [] o.kind = "pvid"       -> "readPvids"

Decide(w) ==
    /\ pc[w] = "decide"
    /\ IF PreconditionFails(w)
       THEN End(w, "refused")
       ELSE Advance(w, FirstRequest(op[w])) /\ UNCHANGED <<view, bits>>
    /\ UNCHANGED <<agent, op, seen, plan, lost, started>>

\* _switchport_mode
GetMode(w) ==
    /\ pc[w] = "getMode"
    /\ seen' = [seen EXCEPT ![w] = agent.mode[op[w].port]]
    /\ Advance(w, "getAllowed")
    /\ UNCHANGED <<agent, op, view, plan, bits, lost, started>>

\* _switchport_vlan_bitmap, and the plan
GetAllowed(w) ==
    LET o  == op[w]
        t  == TaggedVlans(view[w], o.port)
        u  == UntaggedVlans(view[w], o.port)
        pl == MakePlan(o, seen[w], agent.allowed[o.port], t, u, Present(view[w]))
    IN
    /\ pc[w] = "getAllowed"
    /\ IF Refused(WantTagged(o, t), WantUntagged(o, u))
       THEN End(w, "refused") /\ UNCHANGED plan
       ELSE /\ plan' = [plan EXCEPT ![w] = pl]
            /\ Advance(w, IF pl.tagged # {} THEN "setAllowed" ELSE "setAccess")
            /\ UNCHANGED <<view, bits>>
    /\ UNCHANGED <<agent, op, seen, lost, started>>

\* Bugs: always what get_vlans decoded, which no LAG survives; or nothing.
RawEgressDecoded(w) ==
    /\ pc[w] = "rawEgress"
    /\ bits' = [bits EXCEPT ![w].egress =
                  SetPortBit(Members(view[w], op[w].vlan), op[w].port, InEgress(op[w]))]
    /\ Advance(w, "rawUntagged")
    /\ UNCHANGED <<agent, op, view, seen, plan, lost, started>>

RawEgressEmpty(w) ==
    /\ pc[w] = "rawEgress"
    /\ bits' = [bits EXCEPT ![w].egress = SetPortBit({}, op[w].port, InEgress(op[w]))]
    /\ Advance(w, "rawUntagged")
    /\ UNCHANGED <<agent, op, view, seen, plan, lost, started>>

\* _raw_bitmap: the device's own octets, or the ports get_vlans decoded
RawEgress(w) ==
    LET o   == op[w]
        raw == IF o.vlan \in agent.static THEN agent.egress[o.vlan]
                                          ELSE Members(view[w], o.vlan)
    IN
    /\ pc[w] = "rawEgress"
    /\ bits' = [bits EXCEPT ![w].egress = SetPortBit(raw, o.port, InEgress(o))]
    /\ Advance(w, "rawUntagged")
    /\ UNCHANGED <<agent, op, view, seen, plan, lost, started>>

RawUntagged(w) ==
    LET o   == op[w]
        raw == IF o.vlan \in agent.static THEN agent.untagged[o.vlan]
                                          ELSE UntaggedPorts(view[w], o.vlan)
    IN
    /\ pc[w] = "rawUntagged"
    /\ bits' = [bits EXCEPT ![w].untagged = SetPortBit(raw, o.port, InUntagged(o))]
    /\ Advance(w, IF SplitWrites THEN "setEgress" ELSE "setBoth")
    /\ UNCHANGED <<agent, op, view, seen, plan, lost, started>>

\* get_pvids before the SET: only what an error message shows
ReadPvids(w) ==
    /\ pc[w] = "readPvids"
    /\ Advance(w, "setPvid")
    /\ UNCHANGED <<agent, op, view, seen, plan, bits, lost, started>>

-----------------------------------------------------------------------------
(***************************************************************************)
(* One SET PDU.  It reaches the agent and is answered; or the request or   *)
(* the answer is lost, so that the agent may or may not have carried it    *)
(* out, and the client sends it again or raises.                           *)
(***************************************************************************)
Transmit(w, at, accepted, result, next) ==
    /\ pc[w] = at
    /\ \/ /\ accepted
          /\ agent' = result
          /\ Advance(w, next)
          /\ UNCHANGED <<view, bits, lost>>
       \/ /\ ~accepted
          /\ End(w, "failed")
          /\ UNCHANGED <<agent, lost>>
       \/ /\ lost < MaxLoss
          /\ lost' = lost + 1
          /\ agent' \in {agent} \cup (IF accepted THEN {result} ELSE {})
          /\ IF tries[w] < Retries
             THEN /\ tries' = [tries EXCEPT ![w] = @ + 1]
                  /\ UNCHANGED <<pc, phase, view, bits>>
             ELSE End(w, "failed")
    /\ UNCHANGED <<op, seen, plan, started>>

SetAllowed(w) ==
    Transmit(w, "setAllowed", TRUE,
             WriteAllowed(agent, op[w].port, plan[w].allowed), "setNative")

SetNative(w) ==
    Transmit(w, "setNative", NativeAccepted(agent, plan[w].untagged),
             WriteNative(agent, op[w].port, plan[w].untagged), "setTrunk")

SetTrunk(w) ==
    Transmit(w, "setTrunk", TRUE, WriteMode(agent, op[w].port, "trunk"), "name")

SetAccess(w) ==
    Transmit(w, "setAccess", TRUE,
             WriteAccessVlan(agent, op[w].port, plan[w].untagged), "setAccessMode")

SetAccessMode(w) ==
    Transmit(w, "setAccessMode", TRUE, WriteMode(agent, op[w].port, "access"), "name")

SetEgress(w) ==
    Transmit(w, "setEgress", EgressAccepted(agent, op[w].vlan),
             WriteEgress(agent, op[w].vlan, bits[w].egress), "setUntagged")

SetUntagged(w) ==
    Transmit(w, "setUntagged", TRUE,
             WriteUntagged(agent, op[w].vlan, bits[w].untagged, FALSE), "name")

SetBoth(w) ==
    Transmit(w, "setBoth", EgressAccepted(agent, op[w].vlan),
             WriteMembership(agent, op[w].vlan, bits[w].egress, bits[w].untagged), "name")

SetCreate(w) ==
    Transmit(w, "setCreate", CreateAccepted(agent, op[w].vlan),
             CreateRow(agent, op[w].vlan, op[w].name), "name")

SetDestroy(w) ==
    Transmit(w, "setDestroy", TRUE, DestroyRow(agent, op[w].vlan), "name")

SetPvid(w) ==
    Transmit(w, "setPvid", TRUE, WritePvid(agent, op[w].port, op[w].vlan), "verifyPvids")

-----------------------------------------------------------------------------
(***************************************************************************)
(* Verification of what was written, from what was read back.              *)
(***************************************************************************)
Verified(w) ==
    LET o  == op[w]
        vw == view[w]
    IN  CASE o.kind = "membership" ->
               IF SwitchportModel
               THEN ~Diverges(plan[w], vw, o.vlan, o.port)
               ELSE /\ o.vlan \in Present(vw)
                    /\ Members(vw, o.vlan) = bits[w].egress \cap Physical
                    /\ UntaggedPorts(vw, o.vlan) = bits[w].untagged \cap Physical
          [] o.kind = "create" ->
               /\ o.vlan \in Present(vw)
               /\ o.name = IF o.vlan \in vw.rows THEN vw.name[o.vlan] ELSE NoName
          [] OTHER -> o.vlan \notin Present(vw)

\* Bug: read back until it agrees.
VerifyAgain(w) ==
    /\ pc[w] = "verify"
    /\ IF Verified(w) THEN End(w, "ok") ELSE Advance(w, "name") /\ UNCHANGED <<view, bits>>
    /\ UNCHANGED <<agent, op, seen, plan, lost, started>>

Verify(w) ==
    /\ pc[w] = "verify"
    /\ End(w, IF Verified(w) THEN "ok" ELSE "diverged")
    /\ UNCHANGED <<agent, op, seen, plan, lost, started>>

VerifyPvids(w) ==
    /\ pc[w] = "verifyPvids"
    /\ End(w, IF agent.pvid[op[w].port] = op[w].vlan THEN "ok" ELSE "diverged")
    /\ UNCHANGED <<agent, op, seen, plan, lost, started>>

-----------------------------------------------------------------------------
Read(w) ==
    GetVlans(w) \/ GetMode(w) \/ GetAllowed(w) \/ RawEgress(w) \/ RawUntagged(w)
      \/ ReadPvids(w) \/ LoseRead(w)

Set(w) ==
    \/ SetAllowed(w) \/ SetNative(w) \/ SetTrunk(w) \/ SetAccess(w) \/ SetAccessMode(w)
    \/ SetEgress(w) \/ SetUntagged(w) \/ SetBoth(w)
    \/ SetCreate(w) \/ SetDestroy(w) \/ SetPvid(w)

Step(w) == Read(w) \/ Decide(w) \/ Set(w) \/ Verify(w) \/ VerifyPvids(w)

Next == \E w \in Writer : Invoke(w) \/ Step(w)

Spec == Init /\ [][Next]_vars

\* A call, once made, runs: its thread or its task is scheduled.
FairSpec == Spec /\ \A w \in Writer : WF_vars(Step(w))

-----------------------------------------------------------------------------
TypeOK ==
    /\ AgentTypeOK
    /\ pc \in [Writer -> Pc]
    /\ phase \in [Writer -> {"before", "after"}]
    /\ op \in [Writer -> Operation]
    /\ view \in [Writer -> View]
    /\ seen \in [Writer -> Mode]
    /\ plan \in [Writer -> Plan]
    /\ bits \in [Writer -> Bits]
    /\ tries \in [Writer -> 0..Retries]
    /\ lost \in 0..MaxLoss
    /\ started \in 0..MaxOps

UntaggedIn(s, p) == {v \in s.vlans : p \in s.untagged[v]}
TaggedIn(s, p)   == {v \in s.vlans : p \in s.egress[v] \ s.untagged[v]}
MemberOf(s, p)   == UntaggedIn(s, p) \cup TaggedIn(s, p)

(***************************************************************************)
(* From the plan on, after every PDU and whatever is lost or refused on    *)
(* the way, the port is a member of no VLAN that it was not in before and  *)
(* is not to be in afterwards (snmp_write.py _set_vlan_switchport: the     *)
(* order of the PDUs exists to prevent this "over-grant").                 *)
(***************************************************************************)
NoOvergrant ==
    \A w \in Writer : plan[w].made =>
        MemberOf(agent, op[w].port)
          \subseteq plan[w].wasTagged \cup plan[w].wasUntagged
                     \cup plan[w].tagged \cup {plan[w].untagged}

(***************************************************************************)
(* Nor does it ever leave, or change its tagging in, a VLAN whose          *)
(* membership the call does not change: traffic there is not interrupted.  *)
(***************************************************************************)
NoInterruption ==
    \A w \in Writer : plan[w].made =>
        /\ plan[w].wasTagged \cap plan[w].tagged \subseteq TaggedIn(agent, op[w].port)
        /\ plan[w].wasUntagged \cap {plan[w].untagged} \subseteq UntaggedIn(agent, op[w].port)

(***************************************************************************)
(* When set_vlan_membership returns, the port's membership of the VLAN it  *)
(* was given is the one it was given.                                      *)
(***************************************************************************)
RequestHonoured ==
    \A w \in Writer : (pc[w] = "ok" /\ op[w].kind = "membership") =>
        LET in(V) == op[w].vlan \in V IN
        CASE op[w].mode = "tagged"   -> in(TaggedIn(agent, op[w].port))
          [] op[w].mode = "untagged" -> in(UntaggedIn(agent, op[w].port))
          [] op[w].mode = "excluded" -> ~in(MemberOf(agent, op[w].port))

(***************************************************************************)
(* When set_vlan_membership returns on a switchport model, the port is     *)
(* tagged in every other VLAN it was tagged in and in no new one, and it   *)
(* is untagged in one VLAN: the one it was given, else the one it was in,  *)
(* else the default VLAN.                                                  *)
(***************************************************************************)
OtherVlansKept ==
    \A w \in Writer : (pc[w] = "ok" /\ plan[w].made) =>
        LET v   == op[w].vlan
            p   == op[w].port
            was == plan[w].wasUntagged
        IN  /\ TaggedIn(agent, p) \ {v} = plan[w].wasTagged \ {v}
            /\ v \in TaggedIn(agent, p) <=> op[w].mode = "tagged"
            /\ UntaggedIn(agent, p) =
                 IF op[w].mode = "untagged" THEN {v}
                 ELSE IF was \ {v} # {} THEN was \ {v} ELSE {DefaultVlan}

(***************************************************************************)
(* With one client and no loss, a call that is not refused succeeds: what  *)
(* the plan sends is accepted, and what it aims for is what reads back.    *)
(***************************************************************************)
QuietCallsSucceed ==
    (lost = 0 /\ DefaultVlan \in agent.vlans) =>
        \A w \in Writer : pc[w] \notin {"failed", "diverged"}

(***************************************************************************)
(* A membership SET changes the membership of the port it was called for,  *)
(* and of no other: not of another physical port, not of a LAG.            *)
(***************************************************************************)
Moved(p, v) ==
    /\ v \in agent.vlans /\ v \in agent'.vlans
    /\ \/ ~(p \in agent.egress[v] <=> p \in agent'.egress[v])
       \/ ~(p \in agent.untagged[v] <=> p \in agent'.untagged[v])

OnlyNamedPortMoves ==
    [][\A p \in Port, v \in Vlan : Moved(p, v) =>
         \E w \in Writer : /\ op[w].kind = "membership" /\ op[w].port = p
                           /\ SwitchportModel \/ op[w].vlan = v]_vars

(***************************************************************************)
(* While nobody passes force, no interleaving of calls, losses and torn    *)
(* reads ever changes the VLANs or the PVID of a protected port, by        *)
(* changing the port or by deleting a VLAN from under it (snmp_write.py    *)
(* _guard, and the clash check of delete_vlan).                            *)
(***************************************************************************)
SameBits(s, t, p) ==
    /\ s.pvid[p] = t.pvid[p]
    /\ \A v \in Vlan :
         /\ p \in s.egress[v] <=> p \in t.egress[v]
         /\ p \in s.untagged[v] <=> p \in t.untagged[v]

ProtectedKept == [][\A p \in Protected : SameBits(agent, agent', p)]_vars

(***************************************************************************)
(* Why it holds, while nobody passes force: an inductive invariant.  The   *)
(* PortLists a call has walked tell the truth about the protected ports,   *)
(* torn as they may be about the others, and so do the octets it is about  *)
(* to write back; a call that changes a port has passed _guard; and no     *)
(* protected port is in a VLAN that delete_vlan is about to destroy.       *)
(***************************************************************************)
AfterRaw         == {"setEgress", "setUntagged", "setBoth"}
Qbridge          == AfterRaw \cup {"rawEgress", "rawUntagged"}
AfterCurUntagged == {"decide", "rawEgress", "rawUntagged"}
AfterCurEgress   == AfterCurUntagged \cup {"curUntagged"}
AfterUntagged    == AfterCurEgress \cup {"curEgress"}
AfterEgress      == AfterUntagged \cup {"untagged"}
AfterName        == AfterEgress \cup {"egress"}
MovesPort        == Qbridge \cup {"getMode", "getAllowed", "setAllowed", "setNative",
                                  "setTrunk", "setAccess", "setAccessMode",
                                  "readPvids", "setPvid"}

SawNothingFalse(s, vw) ==
    \A p \in Protected, v \in Vlan :
        /\ p \in vw.egress[v] \cup vw.curEgress[v] => p \in s.egress[v]
        /\ p \in vw.untagged[v] \cup vw.curUntagged[v] => p \in s.untagged[v]

SawAll(s, at, vw) ==
    \A p \in Protected, v \in Vlan : p \in s.egress[v] =>
        /\ at \in AfterName => (v \in vw.rows <=> v \in s.static)
        /\ at \in AfterEgress /\ v \in s.static => p \in vw.egress[v]
        /\ at \in AfterUntagged /\ v \in s.static /\ p \in s.untagged[v] => p \in vw.untagged[v]
        /\ at \in AfterCurEgress => p \in vw.curEgress[v]
        /\ at \in AfterCurUntagged /\ p \in s.untagged[v] => p \in vw.curUntagged[v]

BitsKept(s, at, o, b) ==
    \A p \in Protected :
        /\ at \in AfterRaw \cup {"rawUntagged"} => (p \in b.egress <=> p \in s.egress[o.vlan])
        /\ at \in AfterRaw => (p \in b.untagged <=> p \in s.untagged[o.vlan])

CallSafe(s, at, o, vw, b) ==
    /\ at \notin Resting => ~GuardRaises(o) /\ ~o.force
    /\ at \in MovesPort => o.port \notin Protected
    /\ at \in Qbridge => ~SwitchportModel
    /\ SawNothingFalse(s, vw)
    /\ SawAll(s, at, vw)
    /\ BitsKept(s, at, o, b)
    /\ at = "setDestroy" => s.egress[o.vlan] \cap Protected = {}

ProtectedInv ==
    /\ \A p \in Protected, v \in Vlan : p \in agent.untagged[v] => p \in agent.egress[v]
    /\ \A w \in Writer : CallSafe(agent, pc[w], op[w], view[w], bits[w])

(***************************************************************************)
(* Every call ends, by returning or by raising.                            *)
(***************************************************************************)
CallsEnd == \A w \in Writer : pc[w] \notin Resting ~> pc[w] \in Resting
=============================================================================
