--------------------------- MODULE FastpathShell ---------------------------
(***************************************************************************)
(* The FASTPATH command shell of a switch, as far as the CLI writer uses   *)
(* it: the configuration modes, the commands of each mode, the show        *)
(* commands and the commands that ask something back (virtual/faces/cli    *)
(* .py, VirtualCliFace; the pages of cli_fastpath.py).                     *)
(*                                                                         *)
(* The shell is a record and Execute returns it after one line of input,   *)
(* with what is printed.  A table is a picture of the configuration at the *)
(* time; the parsers of the session's client pick from it.  A setting is   *)
(* TRUE when it has the value that the calls of the instance ask for.      *)
(***************************************************************************)
EXTENDS Naturals, Sequences, FiniteSets, SequencesExt

CONSTANTS
    Vlan,          \* VLAN ids in use in the instance
    Port,          \* physical ports
    Host,          \* addresses of syslog collectors
    DefaultVlan,   \* VLAN 1, which cannot be deleted
    NoVlan,        \* the id 0 of a page that has none
    NoPort,        \* no interface selected
    NoHost,
    HasModes,      \* the image has "switchport mode" (not the gsm7252ps)
    AsksPassword,  \* "enable" asks for a password
    ExecAddress    \* the address is set by "network parms" in EXEC mode

ASSUME FastpathShellAssumption ==
    /\ DefaultVlan \in Vlan /\ NoVlan \notin Vlan /\ NoPort \notin Port
    /\ NoHost \notin Host /\ IsFiniteSet(Host)
    /\ IsFiniteSet(Vlan)
    /\ {HasModes, AsksPassword, ExecAddress} \subseteq BOOLEAN

(***************************************************************************)
(* Commands.  port is the port the caller means; only "interface" carries  *)
(* it on the wire.                                                         *)
(***************************************************************************)
Shows            == {"brief", "detail", "pvids", "ports", "label", "names", "network",
                     "logs", "collectors", "power"}
DatabaseCommands == {"create", "name", "remove"}
VlanCommands     == {"include", "exclude", "tag", "untag", "pvid"}
PortSettings     == {"description", "speed", "flow", "admin"}
InterfaceCommands == VlanCommands \cup PortSettings \cup {"general", "poe", "poeReset"}
Globals          == {"hostname", "logging", "address", "gateway"}
GlobalCommands   == Globals \cup {"addHost", "removeHost"}
ExecCommands     == {"copy", "save", "reload"}
Questions        == ExecCommands \cup {"enable"}
SetupCommands    == {"enable", "password", "paging"}

Command ==
    [do : Shows \cup DatabaseCommands \cup InterfaceCommands \cup GlobalCommands
            \cup ExecCommands \cup SetupCommands
            \cup {"vlanDatabase", "configure", "interface", "exit", "https", "yes"},
     vlan : Vlan \cup {NoVlan}, port : Port \cup {NoPort}, on : BOOLEAN,
     host : Host \cup {NoHost}, row : Nat]

Do(what) ==
    [do |-> what, vlan |-> NoVlan, port |-> NoPort, on |-> TRUE, host |-> NoHost, row |-> 0]
OnVlan(what, v)    == [Do(what) EXCEPT !.vlan = v]
OnPort(what, v, p) == [Do(what) EXCEPT !.vlan = v, !.port = p]
Set(what, p, on)   == [Do(what) EXCEPT !.port = p, !.on = on]
OnHost(what, h, n) == [Do(what) EXCEPT !.host = h, !.row = n]

Config ==
    [vlans : SUBSET Vlan, member : [Vlan -> SUBSET Port],
     untagged : [Vlan -> SUBSET Port], pvid : [Port -> Vlan],
     general : SUBSET Port,    \* ports whose switchport mode honours VLAN commands
     setting : [PortSettings -> [Port -> BOOLEAN]],
     global : [Globals -> BOOLEAN],
     draws : SUBSET Port,      \* ports with a device that draws power
     power : [Port -> {"off", "searching", "delivering", "fault"}],
     lag : SUBSET Port,        \* just switched on: the next table still says off
     reset : SUBSET Port,      \* history: re-armed since the start
     rows : SUBSET [row : Nat, host : Host],   \* the sparse table of collectors
     https : BOOLEAN, certificate : BOOLEAN, saved : BOOLEAN]

Factory ==
    LET all == [v \in Vlan |-> IF v = DefaultVlan THEN Port ELSE {}]
    IN  [vlans |-> {DefaultVlan}, member |-> all, untagged |-> all,
         pvid |-> [p \in Port |-> DefaultVlan], general |-> IF HasModes THEN {} ELSE Port,
         setting |-> [s \in PortSettings |-> [p \in Port |-> s = "admin"]],
         global |-> [g \in Globals |-> FALSE],
         draws |-> Port, power |-> [p \in Port |-> "delivering"], lag |-> {}, reset |-> {}, rows |-> {},
         https |-> TRUE, certificate |-> FALSE, saved |-> FALSE]

\* A switch in use: every VLAN exists, every port has left the default VLAN
\* for the others, every collector is configured, with gaps in the table, and
\* the PoE ports are in fault and have no device.
InUse ==
    LET all   == [v \in Vlan |-> IF v = DefaultVlan THEN {} ELSE Port]
        hosts == SetToSeq(Host)
    IN  [Factory EXCEPT
           !.vlans = Vlan, !.member = all, !.untagged = all, !.general = Port,
           !.rows = {[row |-> 2 * i, host |-> hosts[i]] : i \in 1..Len(hosts)},
           !.draws = {}, !.power = [p \in Port |-> "fault"]]

Shell ==
    [modes : Seq({"database", "config", "interface"}), port : Port \cup {NoPort},
     asking : Questions \cup {"nothing"}, down : BOOLEAN, config : Config]

Mode(s) == IF s.modes = <<>> THEN "exec" ELSE Last(s.modes)

(***************************************************************************)
(* The VLAN database.                                                      *)
(***************************************************************************)
DatabaseRejects(f, c) ==
    \/ c.do = "name" /\ c.vlan \notin f.vlans
    \/ c.do = "remove" /\ (c.vlan = DefaultVlan \/ c.vlan \notin f.vlans)

DatabaseEffect(f, c) ==
    CASE c.do = "create" -> [f EXCEPT !.vlans = @ \cup {c.vlan}]
      [] c.do = "name"   -> f
      [] c.do = "remove" ->
           [f EXCEPT !.vlans = @ \ {c.vlan}, !.member[c.vlan] = {}, !.untagged[c.vlan] = {},
                     !.pvid = [p \in Port |-> IF @[p] = c.vlan THEN DefaultVlan ELSE @[p]]]

(***************************************************************************)
(* The commands of one interface.                                          *)
(***************************************************************************)
InterfaceRejects(f, c) ==
    \/ c.do = "general" /\ ~HasModes
    \/ c.do \in VlanCommands /\ c.vlan \notin f.vlans

\* A port in access mode accepts the VLAN commands and ignores them.
VlanEffect(f, c, p) ==
    CASE p \notin f.general -> f
      [] p \in f.general /\ c.do = "include" ->
           [f EXCEPT !.member[c.vlan] = @ \cup {p}, !.untagged[c.vlan] = @ \cup {p}]
      [] p \in f.general /\ c.do = "exclude" ->
           [f EXCEPT !.member[c.vlan] = @ \ {p}, !.untagged[c.vlan] = @ \ {p}]
      [] p \in f.general /\ c.do = "tag"   -> [f EXCEPT !.untagged[c.vlan] = @ \ {p}]
      [] p \in f.general /\ c.do = "untag" -> [f EXCEPT !.untagged[c.vlan] = @ \cup {p}]
      [] p \in f.general /\ c.do = "pvid"  -> [f EXCEPT !.pvid[p] = c.vlan]

\* apply_poe_admin: on is delivering at once, and the table lags behind.
SwitchPower(f, p, on) ==
    [f EXCEPT !.power[p] = IF on THEN "delivering" ELSE "off",
              !.lag = IF on /\ f.power[p] = "off" THEN @ \cup {p} ELSE @]

\* apply_poe_reset: detection starts again and finds a device or none.
ResetPower(f, p) ==
    [f EXCEPT !.power[p] = IF p \in f.draws THEN "delivering" ELSE "searching",
              !.reset = @ \cup {p}]

InterfaceEffect(f, c, p) ==
    CASE c.do \in PortSettings -> [f EXCEPT !.setting[c.do][p] = c.on]
      [] c.do = "general"  -> [f EXCEPT !.general = @ \cup {p}]
      [] c.do = "poe"      -> SwitchPower(f, p, c.on)
      [] c.do = "poeReset" -> ResetPower(f, p)
      [] c.do \in VlanCommands -> VlanEffect(f, c, p)

(***************************************************************************)
(* The commands of global configuration.  A new collector takes the index  *)
(* after the highest; the others keep theirs when one is removed.          *)
(***************************************************************************)
Rows(f)    == {r.row : r \in f.rows}
NextRow(f) == 1 + (IF f.rows = {} THEN 0 ELSE CHOOSE n \in Rows(f) : \A m \in Rows(f) : m <= n)

GlobalRejects(s, c) ==
    \/ Mode(s) # IF c.do = "address" /\ ExecAddress THEN "exec" ELSE "config"
    \/ c.do = "gateway" /\ ExecAddress
    \/ c.do = "removeHost" /\ c.row \notin Rows(s.config)

GlobalEffect(f, c) ==
    CASE c.do = "address" /\ ExecAddress ->
           [f EXCEPT !.global["address"] = c.on, !.global["gateway"] = c.on]
      [] c.do \in Globals /\ ~(c.do = "address" /\ ExecAddress) ->
           [f EXCEPT !.global[c.do] = c.on]
      [] c.do = "addHost" -> [f EXCEPT !.rows = @ \cup {[row |-> NextRow(f), host |-> c.host]}]
      [] c.do = "removeHost" -> [f EXCEPT !.rows = {r \in @ : r.row # c.row}]

(***************************************************************************)
(* _config_command: which mode a command needs.  The certificate is not    *)
(* taken while HTTPS is on.                                                *)
(***************************************************************************)
Rejects(s, c) ==
    \/ c.do = "vlanDatabase" /\ Mode(s) \notin {"exec", "config"}
    \/ c.do = "configure" /\ Mode(s) # "exec"
    \/ c.do = "interface" /\ Mode(s) # "config"
    \/ c.do \in DatabaseCommands /\ (Mode(s) # "database" \/ DatabaseRejects(s.config, c))
    \/ c.do \in InterfaceCommands /\ (Mode(s) # "interface" \/ InterfaceRejects(s.config, c))
    \/ c.do \in GlobalCommands /\ GlobalRejects(s, c)
    \/ c.do \in ExecCommands /\ Mode(s) # "exec"
    \/ c.do = "copy" /\ s.config.https
    \/ c.do = "yes"

Enter(s, mode, p) == [s EXCEPT !.modes = Append(@, mode), !.port = p]

Effect(s, c) ==
    CASE c.do = "vlanDatabase" -> Enter(s, "database", s.port)
      [] c.do = "configure"    -> Enter(s, "config", s.port)
      [] c.do = "interface"    -> Enter(s, "interface", c.port)
      [] c.do = "exit" ->
           LET up == IF s.modes = <<>> THEN <<>> ELSE Front(s.modes)
           IN  [s EXCEPT !.modes = up,
                         !.port = IF up # <<>> /\ Last(up) = "interface" THEN @ ELSE NoPort]
      [] c.do = "https"  -> [s EXCEPT !.config.https = c.on]
      [] c.do = "power"  -> [s EXCEPT !.config.lag = {}]
      [] c.do \in Questions -> [s EXCEPT !.asking = c.do]
      [] c.do \in DatabaseCommands  -> [s EXCEPT !.config = DatabaseEffect(@, c)]
      [] c.do \in InterfaceCommands -> [s EXCEPT !.config = InterfaceEffect(@, c, s.port)]
      [] c.do \in GlobalCommands    -> [s EXCEPT !.config = GlobalEffect(@, c)]
      [] OTHER -> s

(***************************************************************************)
(* What is printed.  A chunk is what one read of the channel may return:   *)
(* the echo of a line with its output, or the prompt that follows.  One    *)
(* question stands for those of a transfer: the host key, the password and *)
(* the overwriting.                                                        *)
(***************************************************************************)
Printable == {"nothing", "error", "table", "password", "question", "success", "failure"}

Text == [of : Command, at : Config, says : Printable]

Says(c, what) == [of |-> c, says |-> what, at |-> Factory]
Prompt        == Says(Do("exit"), "prompt")

Printed(s, c) ==
    IF Rejects(s, c) THEN <<Says(c, "error"), Prompt>>
    ELSE IF c.do \in ExecCommands THEN <<Says(c, "question")>>
    ELSE IF c.do = "enable" /\ AsksPassword THEN <<Says(c, "password")>>
    ELSE IF c.do \in Shows THEN <<[of |-> c, says |-> "table", at |-> s.config], Prompt>>
    ELSE <<Says(c, "nothing"), Prompt>>

\* The line after a question is the answer to it, whatever was meant by it.
\* done: the outcome of a transfer from the other server.
Answered(s, c, done) ==
    LET t == [s EXCEPT !.asking = "nothing"]
    IN  CASE s.asking = "copy" ->
               [shell |-> [t EXCEPT !.config.certificate = @ \/ done],
                out |-> <<Says(Do("copy"), IF done THEN "success" ELSE "failure"), Prompt>>]
          [] s.asking = "save" ->
               [shell |-> [t EXCEPT !.config.saved = @ \/ c.do = "yes"], out |-> <<Prompt>>]
          [] s.asking = "reload" ->
               [shell |-> [t EXCEPT !.down = (c.do = "yes")],
                out |-> IF c.do = "yes" THEN <<>> ELSE <<Prompt>>]
          [] s.asking = "enable" -> [shell |-> t, out |-> <<Prompt>>]

Execute(s, c, done) ==
    IF s.asking # "nothing" THEN Answered(s, c, done)
    ELSE [shell |-> IF Rejects(s, c) \/ (c.do = "enable" /\ ~AsksPassword)
                    THEN s ELSE Effect(s, c),
          out |-> Printed(s, c)]
=============================================================================
