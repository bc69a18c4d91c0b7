------------------------------ MODULE CliCalls ------------------------------
(***************************************************************************)
(* The operations of CliWriter and deploy_certificate_scp (cli_write.py):  *)
(* the pages each reads, the commands it runs, when it refuses, and what   *)
(* it must read back.  Names of VLANs, forced rates and the severity of a  *)
(* collector are left out.                                                 *)
(***************************************************************************)
EXTENDS CliSession, FiniteSets

CONSTANTS
    Kind,        \* the operations callers use
    Forced,      \* those they pass force=True to
    Protected,   \* protected_ports
    MaxCalls,    \* bound: calls made in a behaviour
    MaxPolls     \* bound: reads of the PoE table before the deadline

VlanKinds   == {"create", "delete", "membership", "pvid"}
PowerKinds  == {"poe", "cycle", "clearFault"}
GlobalKinds == {"hostname", "logging", "address"}
HostKinds   == {"collect", "uncollect"}
PortKinds   == {"membership", "pvid"} \cup PortSettings \cup PowerKinds
Kinds == VlanKinds \cup PortKinds \cup GlobalKinds \cup HostKinds \cup {"reboot", "deploy"}

VlanMode == {"untagged", "tagged", "excluded"}

ASSUME CliCallsAssumption ==
    /\ Kind \cup Forced \subseteq Kinds
    /\ Protected \subseteq Port
    /\ MaxCalls \in Nat /\ MaxPolls \in Nat

\* on: the value of a setting; whether a certificate comes with its chain.
Call ==
    [kind : Kind, vlan : Vlan, port : Port, mode : VlanMode, on : BOOLEAN, host : Host,
     force : BOOLEAN]

\* The arguments an operation does not have are fixed, and one value of a
\* setting stands for all where the guard does not look at it.
Calls ==
    {c \in Call :
       /\ c.force = (c.kind \in Forced)
       /\ c.kind # "membership" => c.mode = "tagged"
       /\ c.kind \notin VlanKinds => c.vlan = DefaultVlan
       /\ c.kind \notin PortKinds => c.port = CHOOSE p \in Port : TRUE
       /\ c.kind \notin HostKinds => c.host = CHOOSE h \in Host : TRUE
       /\ c.kind \notin {"admin", "poe", "deploy"} => c.on}

(***************************************************************************)
(* The commands.                                                           *)
(***************************************************************************)
\* The value that is read back for a setting.
Setting(c, f) ==
    CASE c.kind \in PortSettings -> f.setting[c.kind][c.port]
      [] c.kind \in {"hostname", "logging"} -> f.global[c.kind]
      [] c.kind = "address"  -> f.global["address"] /\ f.global["gateway"]
      [] c.kind \in HostKinds -> f.global["logging"]

PagesBefore(c) ==
    CASE c.kind \in VlanKinds     -> <<Do("brief")>>
      [] c.kind = "description"   -> <<OnPort("label", NoVlan, c.port)>>
      [] c.kind \in PortSettings \ {"description"} -> <<Do("ports")>>
      [] c.kind \in PowerKinds    -> <<Do("power")>>
      [] c.kind = "hostname"      -> <<Do("names")>>
      [] c.kind = "address"       -> <<Do("network")>>
      [] c.kind \in HostKinds \cup {"logging"} -> <<Do("logs"), Do("collectors")>>

PagesAfter(c) == IF c.kind = "pvid" THEN <<Do("pvids")>> ELSE PagesBefore(c)

EnterCommands(c) ==
    CASE c.kind \in {"create", "delete"} -> <<Do("vlanDatabase")>>
      [] c.kind \in PortKinds -> <<Do("configure"), OnPort("interface", NoVlan, c.port)>>
      [] c.kind = "address" /\ ExecAddress -> <<>>
      [] c.kind \in GlobalKinds \cup HostKinds /\ ~(c.kind = "address" /\ ExecAddress) ->
           <<Do("configure")>>

GeneralMode(c) == IF HasModes THEN <<OnPort("general", NoVlan, c.port)>> ELSE <<>>

\* row: the index of the collector to remove, from the table just read.
BodyCommands(c, row) ==
    LET on(what) == OnPort(what, c.vlan, c.port)
    IN  CASE c.kind = "create" -> <<OnVlan("create", c.vlan), OnVlan("name", c.vlan)>>
          [] c.kind = "delete" -> <<OnVlan("remove", c.vlan)>>
          [] c.kind = "pvid"   -> GeneralMode(c) \o <<on("pvid")>>
          [] c.kind = "membership" ->
               GeneralMode(c) \o
                 (CASE c.mode = "excluded" -> <<on("exclude")>>
                    [] c.mode = "tagged"   -> <<on("include"), on("tag")>>
                    [] c.mode = "untagged" -> <<on("include"), on("untag")>>)
          [] c.kind \in PortSettings \cup {"poe"} -> <<Set(c.kind, c.port, c.on)>>
          [] c.kind \in {"cycle", "clearFault"} -> <<OnPort("poeReset", NoVlan, c.port)>>
          [] c.kind \in {"hostname", "logging"} -> <<Set(c.kind, NoPort, c.on)>>
          [] c.kind = "address" ->
               IF ExecAddress THEN <<Do("address")>> ELSE <<Do("address"), Do("gateway")>>
          [] c.kind = "collect"   -> <<OnHost("addHost", c.host, 0)>>
          [] c.kind = "uncollect" -> <<OnHost("removeHost", NoHost, row)>>

Exits(n) == [i \in 1..n |-> Do("exit")]

\* The operations that run their commands without looking at the answers.
Script(c) ==
    CASE c.kind = "reboot" -> <<Do("reload")>>
      [] c.kind = "deploy" ->
           <<Set("https", NoPort, FALSE), Do("copy")>>
             \o (IF c.on THEN <<Do("copy")>> ELSE <<>>)
             \o <<Set("https", NoPort, TRUE), Do("save")>>

(***************************************************************************)
(* What the reads say: got.  value and power are empty where the page does *)
(* not have the entry.                                                     *)
(***************************************************************************)
Nothing ==
    [infos |-> <<>>, pvid |-> [p \in Port |-> NoVlan], value |-> {}, power |-> {}, rows |-> {}]

\* The first entry of a VLAN counts.
InfosOf(got, v) == {i \in 1..Len(got.infos) : got.infos[i].vlan = v}
Exists(got, v)  == InfosOf(got, v) # {}
Info(got, v)    == got.infos[Min(InfosOf(got, v))]

\* _port_mode
PortMode(got, v, p) ==
    IF ~Exists(got, v) \/ p \notin Info(got, v).member THEN "excluded"
    ELSE IF p \in Info(got, v).untagged THEN "untagged" ELSE "tagged"

HostsOf(got) == {r.host : r \in got.rows}

\* Bug: the row's position in the table instead of its index.
PositionOf(got, h) ==
    Cardinality({r \in got.rows : \E q \in got.rows : q.host = h /\ r.row <= q.row})

\* The first row of the host.
RowOf(got, h) ==
    IF h \notin HostsOf(got) THEN 0
    ELSE CHOOSE n \in {r.row : r \in {q \in got.rows : q.host = h}} :
           \A r \in got.rows : r.host = h => n <= r.row

\* Bug: set_pvid and the settings of a port do not ask _guard.
GuardMembersOnly(c) == c.kind = "membership" /\ c.port \in Protected /\ ~c.force

GuardRaises(c) ==
    /\ ~c.force
    /\ \/ c.kind \in PortKinds \ {"admin", "poe"} /\ c.port \in Protected
       \/ c.kind \in {"admin", "poe"} /\ ~c.on /\ c.port \in Protected
       \/ c.kind \in {"address", "reboot"}

\* Raised between the first read and the first command, by a parser too.
PreconditionFails(c, got) ==
    \/ c.kind \in {"delete", "membership", "pvid"} /\ ~Exists(got, c.vlan)
    \/ c.kind = "delete" /\ ~c.force /\ Info(got, c.vlan).member \cap Protected # {}
    \/ c.kind \in {"description", "speed", "flow", "hostname", "logging"} \cup HostKinds
         /\ got.value = {}
    \/ c.kind = "collect" /\ c.host \in HostsOf(got)
    \/ c.kind = "uncollect" /\ c.host \notin HostsOf(got)

Verified(c, got) ==
    CASE c.kind = "create"     -> Exists(got, c.vlan)
      [] c.kind = "delete"     -> ~Exists(got, c.vlan)
      [] c.kind = "membership" -> Exists(got, c.vlan) /\ PortMode(got, c.vlan, c.port) = c.mode
      [] c.kind = "pvid"       -> got.pvid[c.port] = c.vlan
      [] c.kind \in PortSettings \cup GlobalKinds -> got.value = {c.on}
      [] c.kind = "poe" -> got.power # {} /\ (got.power # {"off"} <=> c.on)
      [] c.kind = "cycle"      -> got.power = {"delivering"}
      [] c.kind = "clearFault" -> got.power \in {{"delivering"}, {"searching"}}
      [] c.kind = "collect"    -> got.value # {} /\ c.host \in HostsOf(got)
      [] c.kind = "uncollect"  -> got.value # {} /\ c.host \notin HostsOf(got)
=============================================================================
