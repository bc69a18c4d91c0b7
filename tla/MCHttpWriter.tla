---------------------------- MODULE MCHttpWriter ----------------------------
(* Instances of HttpWriter: a switch of two ports, p2 the uplink.          *)
EXTENDS HttpWriter, TLC

CONSTANTS p1, p2, a, b

Usual(dialect) ==
    [dialect |-> dialect, vlans |-> {1, 2},
     member |-> (1 :> [p \in Port |-> "untagged"] @@ 2 :> (p1 :> "excluded" @@ p2 :> "tagged")),
     pvid |-> [p \in Port |-> 1],
     admin |-> [p \in Port |-> TRUE],
     detect |-> (p1 :> "delivering" @@ p2 :> "searching"),
     load |-> (p1 :> TRUE @@ p2 :> FALSE),
     setting |-> [f \in Setting |-> [p \in Port |-> TRUE]],
     locked |-> {}, renamed |-> FALSE, address |-> "old",
     collectors |-> IF dialect = "xui" THEN Host ELSE {}, certified |-> FALSE]

\* A switch of each kind; VLAN 2 without the uplink; a port that is locked.
FoundMC ==
    {Usual(d) : d \in Dialect}
        \cup {[Usual(d) EXCEPT !.member[2][p2] = "excluded"] : d \in {"cgi"}}
        \cup {[Usual("xui") EXCEPT !.locked = {p1}]}

Call(kinds, ports, vlans, modes, ons, forces) ==
    [kind : kinds, port : ports, vlan : vlans, mode : modes, on : ons, force : forces,
     gate : {"open"}]

\* a makes every kind of call, through every gate; b gets in its way.
OperationsMC ==
    a :> UNION {Call({"poe", "enable"}, Port, {1}, {"tagged"}, {FALSE}, {FALSE}),
                Call({"describe", "cycle"}, {p1}, {1}, {"tagged"}, {FALSE}, {FALSE}),
                Call({"member"}, Port, {2}, {"tagged"}, {TRUE}, {FALSE}),
                Call({"pvid"}, Port, {2}, {"tagged"}, {TRUE}, {FALSE}),
                Call({"create", "rename", "collector"}, {p1}, {2}, {"tagged"}, {TRUE}, {FALSE}),
                Call({"delete", "address", "reboot", "upload"}, {p1}, {2}, {"tagged"}, {TRUE}, BOOLEAN),
                [kind : {"poe"}, port : {p1}, vlan : {1}, mode : {"tagged"}, on : {FALSE},
                 force : {TRUE}, gate : {"dryRun", "declined", "notRegistered"}]}
    @@ b :> Call({"member"}, {p2}, {2}, {"untagged"}, {TRUE}, {TRUE})

\* One power cycle on the GoAhead interface.
FoundRearm == {Usual("xml")}
OperationsRearm ==
    a :> Call({"cycle"}, {p1}, {1}, {"tagged"}, {TRUE}, {FALSE}) @@ b :> {}
=============================================================================
