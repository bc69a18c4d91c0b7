----------------------------- MODULE CliWriter -----------------------------
(***************************************************************************)
(* CliWriter and deploy_certificate_scp (cli_write.py) at work on a CLI    *)
(* session.                                                                *)
(*                                                                         *)
(* A call reads the pages it needs, checks its preconditions, descends     *)
(* into a configuration mode, runs its commands there, leaves the mode     *)
(* with one exit per level entered, and reads again to verify; the PoE     *)
(* operations read until a deadline.  Each command is a run() of the       *)
(* session, which can raise.                                               *)
(***************************************************************************)
EXTENDS CliCalls

VARIABLES
    call,      \* the call: kind and arguments
    stage,     \* where it is
    todo,      \* commands still to run in this stage
    entered,   \* levels entered so far
    failed,    \* an exception is on its way out
    got,       \* what the reads of this stage have returned
    victim,    \* index of the collector to remove
    polls,     \* reads of the PoE table so far
    calls,     \* calls so far
    named      \* history: the hosts that a call has been asked to remove

callVars   == <<call, victim, calls, named>>
writerVars == <<call, stage, todo, entered, failed, got, victim, polls, calls, named>>
vars       == <<sessionVars, writerVars>>

Resting == {"idle", "ok", "refused", "failed", "diverged"}
Reading == {"before", "pvids", "after", "farewell"}

-----------------------------------------------------------------------------
Init ==
    /\ SessionInit
    /\ call = CHOOSE c \in Call : TRUE
    /\ stage = "idle"
    /\ todo = <<>> /\ entered = 0 /\ failed = FALSE /\ got = Nothing
    /\ victim = 0 /\ polls = 0 /\ calls = 0 /\ named = {}

\* Go on with the next stage.
GoTo(next, commands) ==
    /\ stage' = next
    /\ todo' = commands
    /\ got' = Nothing

End(how) ==
    /\ GoTo(how, <<>>)
    /\ entered' = 0
    /\ failed' = FALSE

Begin(c) ==
    CASE GuardRaises(c) -> GoTo("refused", <<>>)
      [] c.kind \in {"reboot", "deploy"} /\ ~GuardRaises(c) -> GoTo("script", Script(c))
      [] c.kind \notin {"reboot", "deploy"} /\ ~GuardRaises(c) -> GoTo("before", PagesBefore(c))

Invoke ==
    /\ stage \in Resting
    /\ Idle
    /\ calls < MaxCalls
    /\ calls' = calls + 1
    /\ \E c \in Calls :
         /\ call' = c
         /\ named' = named \cup (IF c.kind = "uncollect" THEN {c.host} ELSE {})
         /\ Begin(c)
    /\ victim' = 0 /\ polls' = 0
    /\ UNCHANGED <<sessionVars, entered, failed>>

\* The next command of the stage.
Issue ==
    /\ todo # <<>>
    /\ Run(Head(todo))
    /\ todo' = Tail(todo)
    /\ UNCHANGED <<callVars, stage, entered, failed, got, polls>>

(***************************************************************************)
(* The answer of a command.                                                *)
(***************************************************************************)
\* The brief page lists VLAN 1 first.
Details(vlans) ==
    LET first == IF DefaultVlan \in vlans THEN <<DefaultVlan>> ELSE <<>>
        list  == first \o SetToSeq({v \in Vlan \ {DefaultVlan} : v \in vlans})
    IN  [i \in 1..Len(list) |-> OnVlan("detail", list[i])]

\* The page of a label does not say whose it is.
Noted(texts) ==
    LET show == awaiting.do
    IN  CASE show = "detail" -> [got EXCEPT !.infos = Append(@, ParseDetail(texts))]
          [] show = "pvids"  -> [got EXCEPT !.pvid = ParsePvids(texts)]
          [] show = "power"  -> [got EXCEPT !.power = ParsePower(texts, call.port)]
          [] show = "collectors" ->
               [got EXCEPT !.rows = IF FirstIs(texts, show) THEN Tables(texts)[1].at.rows ELSE {}]
          [] show = "label" /\ FirstIs(texts, show) ->
               LET page == Tables(texts)[1]
               IN  [got EXCEPT !.value = {Setting([call EXCEPT !.port = page.of.port], page.at)}]
          [] show \in {"ports", "names", "network", "logs"} ->
               [got EXCEPT !.value = {Setting(call, f) : f \in ParsePort(texts, show)}]
          [] OTHER -> got

Note(texts) ==
    /\ todo' = IF awaiting.do = "brief" THEN Details(ParseBrief(texts)) ELSE todo
    /\ got' = Noted(texts)

\* Bug: one exit, whatever has been entered.
UnwindOnce(raised) ==
    /\ failed' = raised
    /\ GoTo("unwind", Exits(1))
    /\ UNCHANGED entered

\* Leave the modes entered, with an exception on its way or without.
Unwind(raised) ==
    /\ failed' = raised
    /\ GoTo("unwind", Exits(entered))
    /\ UNCHANGED entered

\* Bug: whatever the switch prints is taken for success.
AnyReply == answer.is = "returned"

Accepted == answer.is = "returned" /\ IsEmpty(answer.texts, awaiting)
Broken   == answer.is \in {"raised", "ended"}

\* reboot swallows CliTransportError: the switch has hung up, as it should.
Escapes(how) ==
    End(IF call.kind = "reboot" /\ how.is = "ended" THEN "ok" ELSE "failed")

Use ==
    /\ answer # Pending
    /\ Take
    /\ CASE stage \in Reading /\ ~Broken -> Note(answer.texts) /\ UNCHANGED <<stage, entered, failed>>
         [] stage = "enter" /\ Accepted ->
              entered' = entered + 1 /\ UNCHANGED <<stage, todo, got, failed>>
         [] stage \in {"enter", "body"} /\ ~Accepted -> Unwind(TRUE)
         [] stage \in Reading \cup {"unwind", "script"} /\ Broken -> Escapes(answer)
         [] OTHER -> UNCHANGED <<stage, todo, got, entered, failed>>
    /\ UNCHANGED <<callVars, polls>>

(***************************************************************************)
(* The end of a stage.                                                     *)
(***************************************************************************)
Prepare ==
    IF PreconditionFails(call, got) THEN End("refused") /\ UNCHANGED victim
    ELSE /\ IF call.kind = "pvid" THEN GoTo("pvids", <<Do("pvids")>>)
                                  ELSE GoTo("enter", EnterCommands(call))
         /\ victim' = RowOf(got, call.host)
         /\ UNCHANGED <<entered, failed>>

Unwound ==
    IF failed THEN End("failed")
    ELSE GoTo("after", PagesAfter(call)) /\ entered' = 0 /\ UNCHANGED failed

\* Compare, or, for a PoE port, read again until the deadline.
Judge ==
    \/ /\ Verified(call, got)
       /\ End("ok") /\ UNCHANGED polls
    \/ /\ ~Verified(call, got) /\ call.kind \notin {"cycle", "clearFault"}
       /\ End("diverged") /\ UNCHANGED polls
    \/ /\ ~Verified(call, got) /\ call.kind \in PowerKinds
       /\ polls < MaxPolls
       /\ polls' = polls + 1
       /\ GoTo("after", PagesAfter(call)) /\ UNCHANGED <<entered, failed>>
    \/ /\ ~Verified(call, got) /\ call.kind \in {"cycle", "clearFault"}
       /\ GoTo("farewell", PagesAfter(call)) /\ UNCHANGED <<entered, failed, polls>>

Turn ==
    /\ stage \notin Resting
    /\ Idle
    /\ todo = <<>>
    /\ \/ stage = "before" /\ Prepare /\ UNCHANGED polls
       \/ stage = "after" /\ Judge /\ UNCHANGED victim
       \/ /\ \/ stage = "pvids" /\ GoTo("enter", EnterCommands(call)) /\ UNCHANGED <<entered, failed>>
             \/ /\ stage = "enter"
                /\ GoTo("body", BodyCommands(call, victim)) /\ UNCHANGED <<entered, failed>>
             \/ stage = "body" /\ Unwind(FALSE)
             \/ stage = "unwind" /\ Unwound
             \/ stage = "farewell" /\ End("diverged")
             \/ stage = "script" /\ End("ok")
          /\ UNCHANGED <<victim, polls>>
    /\ UNCHANGED <<sessionVars, call, calls, named>>

\* The session at work, and its user's close() between two calls.
Session ==
    /\ \/ Executes
       \/ Receive
       \/ TimesOut
       \/ StreamEnds
       \/ stage \in Resting /\ Close
    /\ UNCHANGED writerVars

Next == Invoke \/ Issue \/ Use \/ Turn \/ Session

Spec == Init /\ [][Next]_vars

\* The switch answers or hangs up; the call's thread runs.
FairSpec ==
    /\ Spec
    /\ WF_vars(Executes /\ UNCHANGED writerVars)
    /\ WF_vars((Receive \/ StreamEnds) /\ UNCHANGED writerVars)
    /\ WF_vars(Issue) /\ WF_vars(Use) /\ WF_vars(Turn)

-----------------------------------------------------------------------------
TypeOK ==
    /\ SessionTypeOK
    /\ call \in Call
    /\ stage \in Resting \cup Reading \cup {"enter", "body", "unwind", "script"}
    /\ todo \in Seq(Command)
    /\ entered \in 0..2
    /\ failed \in BOOLEAN
    /\ victim \in Nat
    /\ polls \in 0..MaxPolls
    /\ calls \in 0..MaxCalls
    /\ named \subseteq Host

(***************************************************************************)
(* A call that returns has done what it was asked, "never a silent         *)
(* success" (cli_write.py): neither its commands nor its read-back are     *)
(* deceived by what an earlier timeout has left in the channel.  A deploy  *)
(* reads nothing back, so that it can promise this only in step.           *)
(***************************************************************************)
Effected(f, c) ==
    CASE c.kind = "create" -> c.vlan \in f.vlans
      [] c.kind = "delete" -> c.vlan \notin f.vlans
      [] c.kind = "pvid"   -> f.pvid[c.port] = c.vlan
      [] c.kind = "membership" ->
           /\ c.port \in f.member[c.vlan] <=> c.mode # "excluded"
           /\ c.port \in f.untagged[c.vlan] <=> c.mode = "untagged"
      [] c.kind \in PortSettings \cup GlobalKinds -> Setting(c, f) = c.on
      [] c.kind = "poe"        -> f.power[c.port] # "off" <=> c.on
      [] c.kind = "cycle"      -> c.port \in f.reset /\ f.power[c.port] = "delivering"
      [] c.kind = "clearFault" -> f.power[c.port] \notin {"fault", "off"}
      [] c.kind = "collect"    -> \E r \in f.rows : r.host = c.host
      [] c.kind = "uncollect"  -> \A r \in f.rows : r.host # c.host
      [] c.kind = "deploy"     -> torn \/ (f.https /\ f.certificate /\ f.saved)
      [] c.kind = "reboot"     -> torn

NoSilentSuccess == stage = "ok" => Effected(shell.config, call)

(***************************************************************************)
(* No call, failed, late or out of step, changes the VLANs, the PVID or a  *)
(* setting of a protected port, or takes its link or its power away, when  *)
(* it was not forced to (_guard, and the clash check of delete_vlan).      *)
(***************************************************************************)
ProtectedKept ==
    [][\A p \in Protected :
         /\ shell.config'.pvid[p] = shell.config.pvid[p]
         /\ \A v \in Vlan :
              /\ p \in shell.config'.member[v] <=> p \in shell.config.member[v]
              /\ p \in shell.config'.untagged[v] <=> p \in shell.config.untagged[v]
         /\ \A s \in PortSettings \ {"admin"} :
              shell.config'.setting[s][p] = shell.config.setting[s][p]
         /\ shell.config.setting["admin"][p] => shell.config'.setting["admin"][p]
         /\ shell.config'.power[p] = "off" => shell.config.power[p] = "off"
         /\ p \in shell.config'.reset => p \in shell.config.reset]_vars

(***************************************************************************)
(* A collector goes only if a call has named it, from a table that is     *)
(* sparse and read through the same session (remove_syslog_collector).     *)
(***************************************************************************)
OnlyNamedHostGoes ==
    [][\A r \in shell.config.rows \ shell.config'.rows : r.host \in named]_vars

(***************************************************************************)
(* _in_mode "always unwinds with one exit per level actually entered":     *)
(* when a call is over and the switch has caught up, the session is not    *)
(* left parked in a configuration mode, as long as no run() raises,        *)
(* whatever the switch rejects.                                            *)
(***************************************************************************)
NotParkedInStep == ~torn /\ stage \in Resting /\ wire = <<>> => shell.modes = <<>>

(***************************************************************************)
(* Every call returns or raises.                                           *)
(***************************************************************************)
CallsEnd == stage \notin Resting ~> stage \in Resting
=============================================================================
