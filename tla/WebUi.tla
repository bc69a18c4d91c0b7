------------------------------- MODULE WebUi -------------------------------
(***************************************************************************)
(* The switch behind its web interface: what the pages of the four kinds   *)
(* of interface show and what their forms do (virtual/web*.py).            *)
(*                                                                         *)
(*   "cgi"  Plus switches: one form per operation, a VLAN's membership is  *)
(*          one list of all ports;                                         *)
(*   "xui"  FASTPATH: rows and buttons, the same kind of list, a refusal   *)
(*          is a flag on an ordinary page;                                 *)
(*   "xml"  GoAhead: one endpoint, the body names the object, the port and *)
(*          the field;                                                     *)
(*   "emx"  GS110EMX: the host name and the management address share one   *)
(*          form.                                                          *)
(***************************************************************************)
EXTENDS Naturals, Sequences

CONSTANTS
    Port,
    Vlan,     \* VLAN numbers
    Found     \* the states the switch can be found in

Dialect == {"cgi", "xui", "xml", "emx"}
Mode    == {"excluded", "tagged", "untagged"}
Setting == {"enable", "describe", "speed"}   \* fields of a port, with two values each
Detect  == {"disabled", "searching", "delivering"}
Address == {"old", "new", "rival"}           \* the address clients use, or another
Host    == {"named", "other"}                \* syslog collectors

WebState ==
    [dialect : Dialect,
     vlans   : SUBSET Vlan,
     member  : [Vlan -> [Port -> Mode]],
     pvid    : [Port -> Vlan],
     admin   : [Port -> BOOLEAN],          \* PoE
     detect  : [Port -> Detect],
     load    : [Port -> BOOLEAN],          \* a powered device is plugged in
     setting : [Setting -> [Port -> BOOLEAN]],
     locked  : SUBSET Port,                \* M4300: ports not in general mode
     renamed : BOOLEAN,
     address : Address,
     collectors : SUBSET Host,
     certified : BOOLEAN]                  \* has the certificate that is uploaded

NoMembers == [p \in Port |-> "excluded"]

\* A switch has ports and a VLAN, and no members in a VLAN that is not there.
ASSUME WebUiAssumption ==
    /\ Vlan \subseteq Nat /\ Port # {} /\ Vlan # {}
    /\ Found \subseteq WebState
    /\ \A s \in Found : s.vlans # {} /\ \A v \in Vlan \ s.vlans : s.member[v] = NoMembers

-----------------------------------------------------------------------------
(***************************************************************************)
(* VLANs.                                                                  *)
(***************************************************************************)
\* _apply_membership: nothing happens to a VLAN that is not there.
WriteList(s, v, list) == IF v \in s.vlans THEN [s EXCEPT !.member[v] = list] ELSE s

\* _shown_vlan: asked for a VLAN that is not there, the page shows the lowest.
ShownVlan(s, v) ==
    IF v \in s.vlans THEN v ELSE CHOOSE x \in s.vlans : \A y \in s.vlans : x <= y

\* apply_membership writes to the VLAN that the page would show.
WriteShownList(s, v, list) == [s EXCEPT !.member[ShownVlan(s, v)] = list]

\* refusal: a port in access or trunk mode cannot be moved.
ListRefused(s, v, list) == \E p \in s.locked : list[p] # s.member[ShownVlan(s, v)][p]

\* VLANMembershipList: one port of one VLAN, which must be there.
WriteMember(s, v, p, mode) == [s EXCEPT !.member[v][p] = mode]

CreateVlan(s, v) == [s EXCEPT !.vlans = @ \cup {v}]

DeleteVlan(s, v) == [s EXCEPT !.vlans = @ \ {v}, !.member[v] = NoMembers]

\* Any VLAN number is accepted.
WritePvid(s, p, v) == [s EXCEPT !.pvid[p] = v]

-----------------------------------------------------------------------------
(***************************************************************************)
(* PoE.  The controller follows its settings in a step of its own.         *)
(***************************************************************************)
WritePoeAdmin(s, p, on) == [s EXCEPT !.admin[p] = on]

\* The reset button starts detection anew.
PressReset(s, p) == [s EXCEPT !.detect[p] = IF s.admin[p] THEN "searching" ELSE @]

Settled(s, p) ==
    IF ~s.admin[p] THEN "disabled" ELSE IF s.load[p] THEN "delivering" ELSE "searching"

-----------------------------------------------------------------------------
(***************************************************************************)
(* Fields.                                                                 *)
(***************************************************************************)
WriteSetting(s, f, p, on) == [s EXCEPT !.setting[f][p] = on]

WriteName(s, on) == [s EXCEPT !.renamed = on]

\* The form of the GS110EMX.
WriteNameAndAddress(s, on, address) == [s EXCEPT !.renamed = on, !.address = address]

\* A row that is marked for deletion goes; if there is none, a refusal is shown.
RemoveCollector(s, h) == [s EXCEPT !.collectors = @ \ {h}]

Certify(s) == [s EXCEPT !.certified = TRUE]

WriteAddress(s, address) == [s EXCEPT !.address = address]
=============================================================================
