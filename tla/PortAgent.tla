------------------------------ MODULE PortAgent ------------------------------
(***************************************************************************)
(* The columns of a switch's SNMP agent that SnmpWriter's port, PoE and    *)
(* system operations touch (virtual/state.py, VirtualSwitchState), and the *)
(* port hardware behind them: a PoE controller that finds out what is      *)
(* plugged in some time after it was told to, and a link that follows.     *)
(*                                                                         *)
(* A text (a label, the host name) is one of two values.                   *)
(***************************************************************************)
EXTENDS Naturals

CONSTANTS
    Port,      \* ports with PoE
    Host,      \* hosts a syslog collector can be on
    NoHost,    \* an index of the collector table without a row
    Index,     \* row indexes of the collector table
    Found      \* the states the switch can be found in

Plug   == {"nothing", "computer", "powered", "faulty"}
Detect == {"disabled", "searching", "delivering", "fault"}

DeviceState ==
    [admin    : [Port -> BOOLEAN],    \* pethPsePortAdminEnable
     detect   : [Port -> Detect],     \* pethPsePortDetectionStatus
     plugged  : [Port -> Plug],
     link     : [Port -> BOOLEAN],    \* ifOperStatus
     enabled  : [Port -> BOOLEAN],    \* ifAdminStatus
     labelled : [Port -> BOOLEAN],    \* ifAlias
     logging  : BOOLEAN,              \* syslog_admin_mode
     renamed  : BOOLEAN,              \* sysName
     rows     : [Index -> Host \cup {NoHost}],
     mgmt     : {"here", "there"}]    \* address, netmask and gateway

ASSUME PortAgentAssumption ==
    /\ NoHost \notin Host
    /\ Index \subseteq Nat
    /\ Found \subseteq DeviceState
    /\ Port # {} /\ Host # {} /\ Index # {}

-----------------------------------------------------------------------------
(***************************************************************************)
(* The columns: apply_write.  The virtual switch lets detection and link   *)
(* follow in the same instant (apply_poe_admin); here they follow at any   *)
(* time, in steps of their own, at once included.                          *)
(***************************************************************************)
WritePoeAdmin(s, p, on) == [s EXCEPT !.admin[p] = on]

WritePortEnabled(s, p, on) == [s EXCEPT !.enabled[p] = on, !.link[p] = on /\ @]

WriteLabel(s, p, on) == [s EXCEPT !.labelled[p] = on]

WriteLogging(s, on) == [s EXCEPT !.logging = on]

WriteName(s, on) == [s EXCEPT !.renamed = on]

DestroyAccepted(s, i) == s.rows[i] # NoHost
DestroyCollector(s, i) == [s EXCEPT !.rows[i] = NoHost]

(***************************************************************************)
(* The three varbinds of one PDU.  That its clients see them in force at   *)
(* once, although the agent applies them one by one, is what SnmpFace      *)
(* shows.                                                                  *)
(***************************************************************************)
WriteMgmt(s) == [s EXCEPT !.mgmt = "there"]

-----------------------------------------------------------------------------
(***************************************************************************)
(* The hardware.  A port that has found a fault keeps it until it is       *)
(* switched off.                                                           *)
(***************************************************************************)
Detected(s, p) ==
    IF ~s.admin[p] THEN "disabled"
    ELSE IF s.detect[p] = "fault" THEN "fault"
    ELSE CASE s.plugged[p] = "powered" -> "delivering"
           [] s.plugged[p] = "faulty"  -> "fault"
           [] OTHER                    -> "searching"

LinkFollows(s, p) ==
    /\ s.enabled[p]
    /\ \/ s.plugged[p] = "computer"
       \/ s.plugged[p] = "powered" /\ s.detect[p] = "delivering"

-----------------------------------------------------------------------------
(***************************************************************************)
(* Reading.                                                                *)
(***************************************************************************)
IndexesOf(s, h) == {i \in Index : s.rows[i] = h}
=============================================================================
