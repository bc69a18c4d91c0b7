-------------------------- MODULE MCSnmpPortWriter --------------------------
(* Instances of SnmpPortWriter, a switch of two ports, p2 the uplink, and  *)
(* of SnmpFace, the address and gateway, which one field (mgmt) holds and  *)
(* one PDU changes, and a port's label.                                    *)
EXTENDS SnmpPortWriter, SnmpFace, TLC

CONSTANTS p1, p2, w1, w2, h1, h2, address, gateway, label

Idle ==
    [admin |-> [p \in Port |-> TRUE], detect |-> [p \in Port |-> "searching"],
     plugged |-> [p \in Port |-> "nothing"], link |-> [p \in Port |-> FALSE],
     enabled |-> [p \in Port |-> TRUE], labelled |-> [p \in Port |-> FALSE],
     logging |-> TRUE, renamed |-> FALSE, rows |-> [i \in Index |-> NoHost],
     mgmt |-> "here"]

\* p1 with anything plugged in, and everything settled.
AnyPlug ==
    {[Idle EXCEPT !.plugged[p1] = x.plug, !.detect[p1] = x.detect, !.link[p1] = x.link] :
       x \in {[plug |-> "nothing", detect |-> "searching", link |-> FALSE],
              [plug |-> "computer", detect |-> "searching", link |-> TRUE],
              [plug |-> "powered", detect |-> "delivering", link |-> TRUE],
              [plug |-> "faulty", detect |-> "fault", link |-> FALSE]}}

\* The same, with a sparse collector table, or one that names a host twice.
FoundMC ==
    {[s EXCEPT !.rows = (1 :> NoHost @@ 2 :> h1 @@ 3 :> h2)] : s \in AnyPlug}
        \cup {[Idle EXCEPT !.rows = (1 :> h1 @@ 2 :> NoHost @@ 3 :> h1)]}

\* One client for everything, and one that gets in its way.
KindMC == w1 :> Kinds @@ w2 :> {"cycle", "collector"}

FieldMC == {{address, gateway}, {label}}

-----------------------------------------------------------------------------
(***************************************************************************)
(* The calls around the agent and a PDU inside it.  They share no          *)
(* variable, and no property is about both, so that it is enough for each  *)
(* to move while the other rests where it started.                         *)
(***************************************************************************)
Around ==
    /\ serial = 0 /\ posted = {}
    /\ Next
    /\ UNCHANGED faceVars

Inside ==
    /\ \A w \in Writer : started[w] = 0
    /\ events = 0 /\ dev.rows[2] = NoHost
    /\ FaceNext
    /\ UNCHANGED vars

AgentInit == Init /\ FaceInit

AgentSpec ==
    /\ AgentInit
    /\ [][Around \/ Inside]_<<vars, faceVars>>
    /\ \A w \in Writer : WF_vars(Step(w))
=============================================================================
