--------------------------- MODULE SnmpPortWriter ---------------------------
(***************************************************************************)
(* SnmpWriter's port, PoE and system operations (snmp_write.py) against    *)
(* the agent of PortAgent: set_poe, cycle_poe, clear_poe_fault, set_port_  *)
(* enabled, set_port_description, set_syslog_enabled, remove_syslog_       *)
(* collector, set_hostname and set_mgmt_ip.                                *)
(*                                                                         *)
(* As in SnmpVlanWriter a writer is a client with one call in flight, and  *)
(* every walk and every SET PDU is a step.  Meanwhile the hardware settles *)
(* or does not, things are plugged in and out, and another manager adds    *)
(* collectors.  The polls of a power cycle end at a deadline, which can    *)
(* pass at any time, at the latest after MaxPolls polls.                   *)
(***************************************************************************)
EXTENDS PortAgent, FiniteSets

CONSTANTS
    Writer,      \* concurrent clients
    Protected,   \* protected_ports
    Socket,      \* ports that things are plugged in and out of
    Forced,      \* operations that callers also call with force
    Kind,        \* the operations the callers of each writer use
    Retries,     \* retransmissions of one request
    MaxPolls,    \* bound: polls before a deadline
    MaxLoss,     \* bound: exchanges lost in a behaviour
    MaxOps,      \* bound: calls of one writer in a behaviour
    MaxEvents    \* bound: what others do to the switch in a behaviour

OneSet == {"poe", "enable", "describe", "logging", "rename"}
Rearms == {"cycle", "clear"}
Kinds  == OneSet \cup Rearms \cup {"address", "collector"}

ASSUME SnmpPortWriterAssumption ==
    /\ Protected \subseteq Port
    /\ Socket \subseteq Port
    /\ Forced \subseteq Kinds
    /\ Kind \in [Writer -> SUBSET Kinds]
    /\ MaxPolls \in Nat \ {0}
    /\ {Retries, MaxLoss, MaxOps, MaxEvents} \subseteq Nat

VARIABLES
    dev,       \* the switch
    pc,        \* where each writer is
    op,        \* the call: kind and arguments
    saw,       \* what its reads have told it
    polls,     \* polls of the present phase
    tries,     \* transmissions of the current request
    lost,      \* exchanges lost so far
    started,   \* calls of each writer so far
    events,    \* what others have done so far
    cut,       \* history: the port was without power during the call
    told,      \* history: ports whose caller knows that they may be off
    fresh      \* history: collector rows another manager has added

history == <<cut, told, fresh>>
vars == <<dev, pc, op, saw, polls, tries, lost, started, events, history>>

Operation ==
    [kind : Kinds, port : Port, on : BOOLEAN, host : Host, force : BOOLEAN]

NoCall == CHOOSE o \in Operation : TRUE

Saw == [delivering : BOOLEAN, off : BOOLEAN, index : Index]

Nothing == [delivering |-> FALSE, off |-> FALSE, index |-> CHOOSE i \in Index : TRUE]

Ended   == {"ok", "refused", "failed", "diverged"}
Resting == {"idle"} \cup Ended
Reads   == {"before", "after", "pollDetect", "pollLink", "pollBack", "lastLook"}
Sets    == {"set", "setOff", "setOn"}

Init ==
    /\ dev \in Found
    /\ pc = [w \in Writer |-> "idle"]
    /\ op = [w \in Writer |-> NoCall]
    /\ saw = [w \in Writer |-> Nothing]
    /\ polls = [w \in Writer |-> 0]
    /\ tries = [w \in Writer |-> 0]
    /\ started = [w \in Writer |-> 0]
    /\ lost = 0 /\ events = 0
    /\ cut = [w \in Writer |-> FALSE]
    /\ told = {p \in Port : ~dev.admin[p]}
    /\ fresh = {}

-----------------------------------------------------------------------------
Goto(w, to) ==
    /\ pc' = [pc EXCEPT ![w] = to]
    /\ tries' = [tries EXCEPT ![w] = 0]

\* A call that has switched a port off and raises, says so by raising.
End(w, how) ==
    /\ Goto(w, how)
    /\ saw' = [saw EXCEPT ![w] = Nothing]
    /\ polls' = [polls EXCEPT ![w] = 0]
    /\ told' = IF op[w].kind \in Rearms /\ how # "ok" THEN told \cup {op[w].port} ELSE told

Rearming(w) == op[w].kind \in Rearms /\ pc[w] \notin Resting

\* dev changes, and with it what has happened to the ports.
Becomes(s) ==
    /\ dev' = s
    /\ cut' = [w \in Writer |-> cut[w] \/ (Rearming(w) /\ s.detect[op[w].port] # "delivering")]

(***************************************************************************)
(* The start of a call: _guard, and the force gate of set_mgmt_ip.         *)
(***************************************************************************)
\* The arguments an operation does not have are fixed.
Calls(w) ==
    LET Call(kind, ports, ons, hosts) ==
            [kind : {kind} \cap Kind[w], port : ports, on : ons, host : hosts,
             force : {FALSE} \cup {kind \in Forced}]
        p == {CHOOSE x \in Port : TRUE}
        h == {CHOOSE x \in Host : TRUE}
    IN  UNION {Call("poe", Port, BOOLEAN, h), Call("enable", Port, BOOLEAN, h),
               Call("describe", Port, BOOLEAN, h), Call("cycle", Port, {TRUE}, h),
               Call("clear", Port, {TRUE}, h), Call("logging", p, BOOLEAN, h),
               Call("rename", p, BOOLEAN, h), Call("address", p, {TRUE}, h),
               Call("collector", p, {TRUE}, Host)}

Disruptive(o) ==
    \/ o.kind \in Rearms \cup {"describe"}
    \/ o.kind \in {"poe", "enable"} /\ ~o.on

GuardRaises(o) ==
    /\ ~o.force
    /\ \/ o.kind = "address"
       \/ Disruptive(o) /\ o.port \in Protected

Invoke(w) ==
    /\ pc[w] \in Resting
    /\ started[w] < MaxOps
    /\ started' = [started EXCEPT ![w] = @ + 1]
    /\ \E o \in Calls(w) :
         /\ op' = [op EXCEPT ![w] = o]
         /\ pc' = [pc EXCEPT ![w] = IF GuardRaises(o) THEN "refused" ELSE "before"]
         /\ cut' = [cut EXCEPT ![w] = o.kind \in Rearms /\ dev.detect[o.port] # "delivering"]
         /\ told' = IF o.kind = "poe" /\ ~o.on THEN told \cup {o.port} ELSE told
    /\ UNCHANGED <<dev, saw, polls, tries, lost, events, fresh>>

-----------------------------------------------------------------------------
(***************************************************************************)
(* Reads.                                                                  *)
(***************************************************************************)
FirstRow(h) ==
    CHOOSE i \in IndexesOf(dev, h) : \A j \in IndexesOf(dev, h) : i <= j

\* Bug: the row's position in the table.
ByPosition(h) ==
    Cardinality({i \in Index : dev.rows[i] # NoHost /\ i <= FirstRow(h)})

RowOf(h) == FirstRow(h)

\* The read before the SET; remove_syslog_collector looks its row up in it.
ReadBefore(w) ==
    /\ pc[w] = "before"
    /\ IF op[w].kind = "collector" /\ IndexesOf(dev, op[w].host) = {}
       THEN End(w, "failed")
       ELSE /\ saw' = [saw EXCEPT
                 ![w].delivering = op[w].kind = "cycle" /\ dev.detect[op[w].port] = "delivering",
                 ![w].index = IF op[w].kind = "collector" THEN RowOf(op[w].host) ELSE @]
            /\ Goto(w, IF op[w].kind \in Rearms THEN "setOff" ELSE "set")
            /\ UNCHANGED <<polls, told>>
    /\ UNCHANGED <<dev, op, lost, started, events, cut, fresh>>

\* The read after it, which verifies every field that was written.
Column(s, o) ==
    CASE o.kind = "poe"      -> s.admin[o.port]
      [] o.kind = "enable"   -> s.enabled[o.port]
      [] o.kind = "describe" -> s.labelled[o.port]
      [] o.kind = "logging"  -> s.logging
      [] o.kind = "rename"   -> s.renamed

\* Bug: the row that was looked up is gone, others may be left.
VerifiedRow(s, o) ==
    CASE o.kind \in OneSet    -> Column(s, o) = o.on
      [] o.kind = "address"   -> s.mgmt = "there"
      [] o.kind = "collector" -> TRUE

Verified(s, o) ==
    CASE o.kind \in OneSet    -> Column(s, o) = o.on
      [] o.kind = "address"   -> s.mgmt = "there"
      [] o.kind = "collector" -> IndexesOf(s, o.host) = {}

ReadAfter(w) ==
    /\ pc[w] = "after"
    /\ End(w, IF Verified(dev, op[w]) THEN "ok" ELSE "diverged")
    /\ UNCHANGED <<dev, op, lost, started, events, cut, fresh>>

(***************************************************************************)
(* _poe_is_off reads the detection status and then, in another walk, the   *)
(* link.                                                                   *)
(***************************************************************************)
\* Bug: a port without a link counts as off.
LinkOnly(d) == TRUE

LooksOff(d) == d \in {"disabled", "searching"}

PollDetect(w) ==
    /\ pc[w] = "pollDetect"
    /\ saw' = [saw EXCEPT ![w].off = LooksOff(dev.detect[op[w].port])]
    /\ Goto(w, "pollLink")
    /\ UNCHANGED <<dev, op, polls, lost, started, events, history>>

\* Bug: nobody looks at the clock.
NeverExpires(w, again) == Goto(w, again) /\ UNCHANGED polls

\* One look at the clock: the deadline has passed, or there is another poll.
Expires(w, again) ==
    \/ /\ Goto(w, "lastLook")
       /\ UNCHANGED polls
    \/ /\ polls[w] < MaxPolls
       /\ polls' = [polls EXCEPT ![w] = @ + 1]
       /\ Goto(w, again)

PollLink(w) ==
    /\ pc[w] = "pollLink"
    /\ saw' = [saw EXCEPT ![w].off = FALSE]
    /\ IF saw[w].off /\ ~dev.link[op[w].port]
       THEN Goto(w, "setOn") /\ UNCHANGED polls
       ELSE Expires(w, "pollDetect")
    /\ UNCHANGED <<dev, op, lost, started, events, history>>

\* poe_cycle_complete and _poe_recovered
CameBack(w) ==
    LET d == dev.detect[op[w].port] IN
    IF saw[w].delivering THEN d = "delivering"
                                                 ELSE d \in {"delivering", "searching"}

PollBack(w) ==
    /\ pc[w] = "pollBack"
    /\ IF CameBack(w) THEN End(w, "ok")
                      ELSE Expires(w, "pollBack") /\ UNCHANGED <<saw, told>>
    /\ UNCHANGED <<dev, op, lost, started, events, cut, fresh>>

\* The status that goes into the exception.
LastLook(w) ==
    /\ pc[w] = "lastLook"
    /\ End(w, "diverged")
    /\ UNCHANGED <<dev, op, lost, started, events, cut, fresh>>

(***************************************************************************)
(* An exchange is lost: sent again, or given up.  A switch whose address   *)
(* has moved need not answer at the old one.                               *)
(***************************************************************************)
Loses ==
    \/ lost < MaxLoss /\ lost' = lost + 1
    \/ dev.mgmt = "there" /\ UNCHANGED lost

Retry(w) ==
    IF tries[w] < Retries
    THEN /\ tries' = [tries EXCEPT ![w] = @ + 1]
         /\ UNCHANGED <<pc, saw, polls, told>>
    ELSE End(w, "failed")

LoseRead(w) ==
    /\ pc[w] \in Reads
    /\ Loses
    /\ Retry(w)
    /\ UNCHANGED <<dev, op, started, events, cut, fresh>>

-----------------------------------------------------------------------------
(***************************************************************************)
(* SET requests.  A lost one may have been carried out.                    *)
(***************************************************************************)
Transmit(w, at, accepted, result, next) ==
    /\ pc[w] = at
    /\ \/ /\ accepted
          /\ Becomes(result)
          /\ Goto(w, next)
          /\ polls' = [polls EXCEPT ![w] = 0]
          /\ UNCHANGED <<saw, told, lost>>
       \/ /\ ~accepted
          /\ End(w, "failed")
          /\ UNCHANGED <<dev, cut, lost>>
       \/ /\ Loses
          /\ \/ UNCHANGED <<dev, cut>>
             \/ accepted /\ Becomes(result)
          /\ Retry(w)
    /\ UNCHANGED <<op, started, events, fresh>>

SetColumn(w) ==
    LET o == op[w] IN
    /\ o.kind \in OneSet
    /\ Transmit(w, "set", TRUE,
                CASE o.kind = "poe"      -> WritePoeAdmin(dev, o.port, o.on)
                  [] o.kind = "enable"   -> WritePortEnabled(dev, o.port, o.on)
                  [] o.kind = "describe" -> WriteLabel(dev, o.port, o.on)
                  [] o.kind = "logging"  -> WriteLogging(dev, o.on)
                  [] o.kind = "rename"   -> WriteName(dev, o.on), "after")

\* The agent carries out all three varbinds, or refuses one of them.
SetMgmt(w) ==
    /\ op[w].kind = "address"
    /\ \E accepted \in BOOLEAN : Transmit(w, "set", accepted, WriteMgmt(dev), "after")

SetDestroy(w) ==
    /\ op[w].kind = "collector"
    /\ Transmit(w, "set", DestroyAccepted(dev, saw[w].index),
                DestroyCollector(dev, saw[w].index), "after")

\* Bug: the port is never switched on again.
SetOffOnly(w) ==
    Transmit(w, "setOff", TRUE, WritePoeAdmin(dev, op[w].port, FALSE), "pollBack")

SetOff(w) ==
    Transmit(w, "setOff", TRUE, WritePoeAdmin(dev, op[w].port, FALSE), "pollDetect")

SetOn(w) ==
    Transmit(w, "setOn", TRUE, WritePoeAdmin(dev, op[w].port, TRUE), "pollBack")

-----------------------------------------------------------------------------
(***************************************************************************)
(* The hardware and the world.                                             *)
(***************************************************************************)
DetectSettles(p) ==
    /\ dev.detect[p] # Detected(dev, p)
    /\ Becomes([dev EXCEPT !.detect[p] = Detected(dev, p)])
    /\ UNCHANGED <<pc, op, saw, polls, tries, lost, started, events, told, fresh>>

LinkSettles(p) ==
    /\ dev.link[p] # LinkFollows(dev, p)
    /\ dev' = [dev EXCEPT !.link[p] = LinkFollows(dev, p)]
    /\ UNCHANGED <<pc, op, saw, polls, tries, lost, started, events, history>>

SomethingHappens ==
    /\ events < MaxEvents
    /\ events' = events + 1
    /\ \/ \E p \in Socket, x \in Plug :
            /\ x = "nothing" <=> dev.plugged[p] # "nothing"
            /\ dev' = [dev EXCEPT !.plugged[p] = x]
            /\ UNCHANGED fresh
       \/ \E i \in Index, h \in Host :
            /\ dev.rows[i] = NoHost
            /\ dev' = [dev EXCEPT !.rows[i] = h]
            /\ fresh' = fresh \cup {i}
    /\ UNCHANGED <<pc, op, saw, polls, tries, lost, started, cut, told>>

-----------------------------------------------------------------------------
Step(w) ==
    \/ ReadBefore(w) \/ ReadAfter(w) \/ PollDetect(w) \/ PollLink(w) \/ PollBack(w)
    \/ LastLook(w) \/ LoseRead(w)
    \/ SetColumn(w) \/ SetMgmt(w) \/ SetDestroy(w) \/ SetOff(w) \/ SetOn(w)

Next ==
    \/ \E w \in Writer : Invoke(w) \/ Step(w)
    \/ \E p \in Port : DetectSettles(p) \/ LinkSettles(p)
    \/ SomethingHappens

Spec == Init /\ [][Next]_vars

\* A call's thread or task runs.  Nothing is assumed of the hardware.
FairSpec == Spec /\ \A w \in Writer : WF_vars(Step(w))

-----------------------------------------------------------------------------
TypeOK ==
    /\ dev \in DeviceState
    /\ pc \in [Writer -> Resting \cup Reads \cup Sets]
    /\ op \in [Writer -> Operation]
    /\ saw \in [Writer -> Saw]
    /\ polls \in [Writer -> 0..MaxPolls]
    /\ tries \in [Writer -> 0..Retries]
    /\ lost \in 0..MaxLoss
    /\ started \in [Writer -> 0..MaxOps]
    /\ events \in 0..MaxEvents
    /\ cut \in [Writer -> BOOLEAN]
    /\ told \subseteq Port
    /\ fresh \subseteq Index

(***************************************************************************)
(* A power cycle that returns has cycled the power: some time between the  *)
(* call and the return the port delivered none (_poe_rearm: an off and an  *)
(* on that come too close "silently defeat" the re-arm), whoever else      *)
(* wrote to the port, and however torn the two walks of a poll were.       *)
(***************************************************************************)
PowerWasCut ==
    \A w \in Writer : pc[w] = "ok" /\ op[w].kind \in Rearms => cut[w]

(***************************************************************************)
(* When nobody is at work, a port is off only if somebody has asked for it *)
(* (set_poe) or has been told that a power cycle of it did not complete    *)
(* (_poe_rearm raises and leaves it as it is): two cycles of one port,     *)
(* step by step through each other, do not end with both reporting success *)
(* and the port off.                                                       *)
(***************************************************************************)
NoPortLeftOff ==
    (\A w \in Writer : pc[w] \in Resting) => \A p \in Port : dev.admin[p] \/ p \in told

(***************************************************************************)
(* remove_syslog_collector destroys a row of the host it was called for    *)
(* ("it is SPARSE, so it is read fresh here and never derived from a row's *)
(* position"), or else one that another manager has put in its place since *)
(* the row was looked up, which a destroy by index cannot tell apart.      *)
(***************************************************************************)
OnlyNamedRowGoes ==
    [][\A i \in Index \ fresh :
         dev'.rows[i] # dev.rows[i] /\ dev.rows[i] # NoHost =>
           \E w \in Writer : op[w].kind = "collector" /\ op[w].host = dev.rows[i]]_vars

(***************************************************************************)
(* When it returns, no row is left for that host, also on a switch that    *)
(* had it configured twice, but for rows that another manager has added.   *)
(***************************************************************************)
RemovedMeansGone ==
    \A w \in Writer : pc[w] = "ok" /\ op[w].kind = "collector" =>
        IndexesOf(dev, op[w].host) \subseteq fresh

(***************************************************************************)
(* Every call ends, whatever the hardware does, if it ever does.           *)
(***************************************************************************)
CallsEnd == \A w \in Writer : pc[w] \notin Resting ~> pc[w] \in Resting
=============================================================================
