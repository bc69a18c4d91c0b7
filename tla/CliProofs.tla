------------------------------ MODULE CliProofs ------------------------------
(***************************************************************************)
(* What TLAPS proves of CliWriter at work on a CliSession, for every set   *)
(* of VLANs, ports and hosts, every image of the switch (with or without   *)
(* port modes, a password, an address in EXEC mode), every way of saving   *)
(* and every number of calls and timeouts: the session stays in step with  *)
(* the switch until one of its run() raises, and a call then leaves the    *)
(* switch in the mode in which it found it.                                *)
(*                                                                         *)
(* The invariant says, for the line that run() waits for, exactly where it *)
(* is: on its way to the switch, waiting for the answer to the switch's    *)
(* question, or printed and on its way back.  The depth that the call      *)
(* believes in and the depth of the shell differ only while an enter       *)
(* command or an exit is on that way.                                      *)
(***************************************************************************)
EXTENDS CliWriter, FiniteSetTheorems, SequenceTheorems, TLAPS

(***************************************************************************)
(* The commands of a stage.  A transfer is always the plain "copy".        *)
(***************************************************************************)
EnterDos == {"vlanDatabase", "configure", "interface"}
BodyDos  == DatabaseCommands \cup InterfaceCommands \cup GlobalCommands

Dos(at) ==
    CASE at \in Reading  -> Shows
      [] at = "enter"    -> EnterDos
      [] at = "body"     -> BodyDos
      [] at = "unwind"   -> {"exit"}
      [] at = "script"   -> {"https", "copy", "save", "reload"}
      [] at \in Resting  -> {}

Proper(c, at) == c.do \in Dos(at) /\ (c.do = "copy" => c = Do("copy"))

Batch(s, at) == s \in Seq(Range(s)) /\ \A c \in Range(s) : Proper(c, at)

(***************************************************************************)
(* What holds in every state, in step or not.                              *)
(***************************************************************************)
Stage == Resting \cup Reading \cup {"enter", "body", "unwind", "script"}

StageFits ==
    /\ stage \in Stage
    /\ Batch(todo, stage)
    /\ stage \in Resting => todo = <<>> /\ Idle
    /\ stage \notin Resting =>
         /\ call \in Call
         /\ stage = "script" <=> call.kind \in {"reboot", "deploy"}
    /\ entered \in Nat
    /\ stage \notin {"enter", "body", "unwind"} => entered = 0

SessionFits ==
    /\ Idle => answer = Pending
    /\ agenda # <<>> => Waiting /\ ~torn
    /\ driver = "none" =>
         /\ wire = <<>> /\ back = <<>>
         /\ ~Waiting /\ answer.is # "returned"
         /\ shell = FreshShell(shell.config)

(***************************************************************************)
(* What holds as long as no run() of the session has raised.               *)
(***************************************************************************)
Sound == torn => driver = "none"

Pipe(lines, chunks, asking, down) ==
    /\ wire = lines /\ back = chunks
    /\ shell.asking = asking /\ shell.down = down

IsShell(s) ==
    /\ DOMAIN s = {"modes", "port", "asking", "down", "config"}
    /\ s.modes \in Seq({"database", "config", "interface"})

\* What is still to be sent, by the line that is waited for.
AgendaFits ==
    \/ /\ awaiting = Banner
       /\ agenda = <<Do("enable"), Do("paging"), agenda[3]>> /\ Proper(agenda[3], stage)
    \/ /\ awaiting \in {Do("enable"), Do("password")}
       /\ agenda = <<Do("paging"), agenda[2]>> /\ Proper(agenda[2], stage)
    \/ /\ awaiting = Do("paging")
       /\ agenda = <<agenda[1]>> /\ Proper(agenda[1], stage)
    \/ /\ Proper(awaiting, stage)
       /\ agenda = <<>> /\ driver = "ready"

\* Where the line that is waited for, its question or its output is.
Sent     == /\ awaiting # Banner /\ awaiting.do # "password"
            /\ Pipe(Lines(awaiting), <<>>, "nothing", FALSE)
Password == awaiting.do = "password" /\ Pipe(<<awaiting>>, <<>>, "enable", FALSE)
Printout == /\ back # <<>>
            /\ Pipe(<<>>, <<back[1], Prompt>>, "nothing", FALSE)
            /\ back[1].of = awaiting
            /\ back[1].says \in Printable \ {"password"}
            /\ Replies => back[1].says # "question"
Prompted == /\ awaiting.do \in {"banner", "password", "save"}
            /\ Pipe(<<>>, <<Prompt>>, "nothing", FALSE)
Asked    == \/ /\ awaiting.do = "enable"
               /\ Pipe(<<>>, <<Says(awaiting, "password")>>, "enable", FALSE)
            \/ /\ Replies
               /\ Pipe(<<>>, <<Says(awaiting, "question")>>, awaiting.do, FALSE)
Replied  == Replies /\ Pipe(<<Do("yes")>>, <<>>, awaiting.do, FALSE)
Stuffed  == /\ Len(Lines(awaiting)) = 2
            /\ Pipe(<<Do("yes")>>, <<Says(awaiting, "question")>>, awaiting.do, FALSE)
Halted   == /\ awaiting.do = "reload"
            /\ Pipe(<<>>, <<Says(awaiting, "question")>>, "nothing", TRUE)

InFlight ==
    \/ Sent \/ Password \/ Printout \/ Prompted \/ Asked \/ Replied \/ Stuffed \/ Halted

Finished ==
    /\ Proper(awaiting, stage)
    /\ answer.is = "returned" =>
         \/ awaiting.do \in ExecCommands /\ answer = Returned(<<>>)
         \/ answer = Returned(<<answer.texts[1]>>) /\ answer.texts[1].of = awaiting

ChannelFits ==
    /\ Waiting => AgendaFits /\ InFlight
    /\ ~Waiting =>
         /\ Pipe(<<>>, <<>>, "nothing", FALSE)
         /\ driver # "none" => driver = "ready" /\ (answer = Pending \/ answer.is = "returned")
         /\ ~Idle => Finished

(***************************************************************************)
(* How deep in the configuration modes the session is.                     *)
(***************************************************************************)
Shown == IF answer.is = "returned" THEN answer.texts ELSE back

\* An enter command has been accepted and the call does not know it yet.
Entering == ~Idle /\ agenda = <<>> /\ Shown # <<>> /\ Shown[1].says = "nothing"

\* An exit is under way.
Leaving == Waiting /\ (agenda # <<>> \/ wire # <<>>)

Depth ==
    CASE stage = "enter"  -> entered + (IF Entering THEN 1 ELSE 0)
      [] stage = "body"   -> entered
      [] stage = "unwind" -> Len(todo) + (IF Leaving THEN 1 ELSE 0)
      [] OTHER            -> 0

Steady == Sound => IsShell(shell) /\ ChannelFits /\ Len(shell.modes) = Depth

IInv == StageFits /\ SessionFits /\ Steady

-----------------------------------------------------------------------------
(***************************************************************************)
(* Batches of commands.                                                    *)
(***************************************************************************)
\* A sequence of commands of the stage is a batch of it.
LEMMA BatchOf ==
    ASSUME NEW at, NEW T, NEW s \in Seq(T), \A c \in T : Proper(c, at)
    PROVE  Batch(s, at)
<1>1. s \in Seq(Range(s))
  BY SeqOfRange
<1>2. Range(s) \in SUBSET T
  BY RangeOfSeq
<1> QED BY <1>1, <1>2 DEF Batch

LEMMA BatchEmpty ==
    ASSUME NEW at
    PROVE  Batch(<<>>, at)
<1>1. Range(<<>>) = {}
  BY DEF Range
<1> QED BY <1>1 DEF Batch

LEMMA BatchOne ==
    ASSUME NEW at, NEW c, Proper(c, at)
    PROVE  Batch(<<c>>, at)
<1>1. Range(<<c>>) = {c}
  BY DEF Range
<1> QED BY <1>1 DEF Batch

LEMMA BatchConcat ==
    ASSUME NEW at, NEW s, NEW t, Batch(s, at), Batch(t, at)
    PROVE  Batch(s \o t, at)
<1> DEFINE T == Range(s) \cup Range(t)
<1>1. s \in Seq(Range(s)) /\ t \in Seq(Range(t)) /\ \A c \in T : Proper(c, at)
  BY DEF Batch
<1>2. s \in Seq(T) /\ t \in Seq(T)
  <2>1. ASSUME NEW S, NEW u \in Seq(S), S \subseteq T PROVE u \in Seq(T)
    <3> HIDE DEF T
    <3>1. u = [i \in 1..Len(u) |-> u[i]] /\ Len(u) \in Nat /\ \A i \in 1..Len(u) : u[i] \in T
      BY <2>1
    <3>2. [i \in 1..Len(u) |-> u[i]] \in Seq(T)
      BY <3>1
    <3> QED BY <3>1, <3>2
  <2>2. Range(s) \subseteq T /\ Range(t) \subseteq T
    OBVIOUS
  <2> HIDE DEF T
  <2> QED BY <1>1, <2>1, <2>2
<1> HIDE DEF T
<1>3. s \o t \in Seq(T)
  BY <1>2
<1> QED BY <1>1, <1>3, BatchOf

LEMMA BatchTwo ==
    ASSUME NEW at, NEW x, NEW y, Batch(<<x>>, at), Batch(<<y>>, at)
    PROVE  Batch(<<x, y>>, at)
<1> DEFINE s == <<x, y>>
<1>1. x \in Range(<<x>>) /\ y \in Range(<<y>>)
  <2>1. DOMAIN <<x>> = {1} /\ <<x>>[1] = x /\ DOMAIN <<y>> = {1} /\ <<y>>[1] = y
    OBVIOUS
  <2> QED BY <2>1 DEF Range
<1>2. Proper(x, at) /\ Proper(y, at)
  BY <1>1 DEF Batch
<1>3. s \in Seq({x, y}) /\ DOMAIN s = {1, 2} /\ s[1] = x /\ s[2] = y
  OBVIOUS
<1> HIDE DEF s
<1>4. s \in Seq(Range(s)) 
  BY <1>3, SeqOfRange
<1>5. Range(s) = {x, y}
  BY <1>3 DEF Range
<1>6. Batch(s, at)
  BY <1>2, <1>4, <1>5 DEF Batch
<1> QED BY <1>6 DEF s

\* The first command of a batch, and the batch that is left.
LEMMA BatchSplit ==
    ASSUME NEW at, NEW s, Batch(s, at), s # <<>>
    PROVE  /\ Proper(Head(s), at) /\ Batch(Tail(s), at)
           /\ Len(s) \in Nat /\ Len(s) > 0
           /\ Len(Tail(s)) = Len(s) - 1
<1> DEFINE T == Range(s)
<1>1. s \in Seq(T) /\ \A c \in T : Proper(c, at)
  BY DEF Batch
<1> HIDE DEF T
<1>2. Tail(s) \in Seq(T) /\ Head(s) \in T /\ Len(s) \in Nat /\ Len(s) > 0
      /\ Len(Tail(s)) = Len(s) - 1
  BY <1>1
<1>3. Batch(Tail(s), at)
  BY <1>1, <1>2, BatchOf
<1> QED BY <1>1, <1>2, <1>3

(***************************************************************************)
(* The commands of the operations.                                         *)
(***************************************************************************)
LEMMA CallKind ==
    ASSUME NEW c \in Call
    PROVE  c.kind \in Kinds /\ c.vlan \in Vlan /\ c.port \in Port
           /\ c.mode \in VlanMode /\ c.on \in BOOLEAN
BY CliCallsAssumption DEF Call

\* Before and after, only pages are read.
LEMMA PagesProper ==
    ASSUME NEW c \in Call, c.kind \notin {"reboot", "deploy"}, NEW at \in Reading
    PROVE  Batch(PagesBefore(c), at) /\ Batch(PagesAfter(c), at)
<1>0. Dos(at) = Shows
  BY DEF Dos, Reading, Resting
<1>1. \A x : x.do \in Shows => Proper(x, at)
  BY <1>0 DEF Proper, Shows
<1>2. \A k \in Shows : Proper(Do(k), at)
  BY <1>1 DEF Do
<1>3. Proper(OnPort("label", NoVlan, c.port), at)
  <2>1. OnPort("label", NoVlan, c.port).do = "label" /\ "label" \in Shows
    BY DEF OnPort, Do, Shows
  <2> QED BY <1>1, <2>1
<1>4. /\ \A k \in Shows : Batch(<<Do(k)>>, at)
      /\ Batch(<<OnPort("label", NoVlan, c.port)>>, at)
  BY <1>2, <1>3, BatchOne
<1>5. Batch(<<Do("logs"), Do("collectors")>>, at)
  <2>1. Batch(<<Do("logs")>>, at) /\ Batch(<<Do("collectors")>>, at)
    BY <1>4 DEF Shows
  <2> QED BY <2>1, BatchTwo
<1>6. Batch(PagesBefore(c), at)
  <2>1. c.kind \in VlanKinds \cup PortSettings \cup PowerKinds \cup GlobalKinds \cup HostKinds
    BY CallKind DEF Kinds, PortKinds, VlanKinds
  <2> USE DEF PagesBefore, Shows, VlanKinds, PortSettings, PowerKinds, GlobalKinds, HostKinds
  <2>2. CASE c.kind \in VlanKinds
    BY <2>2, <1>4
  <2>3. CASE c.kind = "description"
    BY <2>3, <1>4
  <2>4. CASE c.kind \in PortSettings \ {"description"}
    BY <2>4, <1>4
  <2>5. CASE c.kind \in PowerKinds
    BY <2>5, <1>4
  <2>6. CASE c.kind = "hostname"
    BY <2>6, <1>4
  <2>7. CASE c.kind = "address"
    BY <2>7, <1>4
  <2>8. CASE c.kind \in HostKinds \cup {"logging"}
    BY <2>8, <1>5
  <2> QED BY <2>1, <2>2, <2>3, <2>4, <2>5, <2>6, <2>7, <2>8
<1>7. Batch(<<Do("pvids")>>, at)
  BY <1>4 DEF Shows
<1> QED BY <1>6, <1>7 DEF PagesAfter

\* A descent only descends.
LEMMA EnterProper ==
    ASSUME NEW c \in Call, c.kind \notin {"reboot", "deploy"}
    PROVE  Batch(EnterCommands(c), "enter")
<1>0. Dos("enter") = EnterDos
  BY DEF Dos, Reading, Resting
<1>1. \A x : x.do \in EnterDos => Proper(x, "enter")
  BY <1>0 DEF Proper, EnterDos
<1>2. /\ Proper(Do("vlanDatabase"), "enter") /\ Proper(Do("configure"), "enter")
      /\ Proper(OnPort("interface", NoVlan, c.port), "enter")
  <2>1. /\ Do("vlanDatabase").do \in EnterDos /\ Do("configure").do \in EnterDos
        /\ OnPort("interface", NoVlan, c.port).do \in EnterDos
    BY DEF Do, OnPort, EnterDos
  <2> QED BY <1>1, <2>1
<1>3. /\ Batch(<<Do("vlanDatabase")>>, "enter") /\ Batch(<<Do("configure")>>, "enter")
      /\ Batch(<<OnPort("interface", NoVlan, c.port)>>, "enter")
  BY <1>2, BatchOne
<1>4. Batch(<<Do("configure"), OnPort("interface", NoVlan, c.port)>>, "enter")
  BY <1>3, BatchTwo
<1>5. c.kind \in {"create", "delete"} \cup PortKinds \cup GlobalKinds \cup HostKinds
  BY CallKind DEF Kinds, PortKinds, VlanKinds
<1> USE DEF PortKinds, PortSettings, PowerKinds, GlobalKinds, HostKinds, EnterCommands
<1>6. CASE c.kind \in {"create", "delete"}
  BY <1>6, <1>3
<1>7. CASE c.kind \in PortKinds
  BY <1>7, <1>4
<1>8. CASE c.kind = "address" /\ ExecAddress
  BY <1>8, BatchEmpty
<1>9. CASE c.kind \in GlobalKinds \cup HostKinds /\ ~(c.kind = "address" /\ ExecAddress)
  BY <1>9, <1>3
<1> QED BY <1>5, <1>6, <1>7, <1>8, <1>9

\* In a mode, only its commands are run.
LEMMA BodyProper ==
    ASSUME NEW c \in Call, c.kind \notin {"reboot", "deploy"}, NEW row
    PROVE  Batch(BodyCommands(c, row), "body")
<1> DEFINE B(s) == Batch(s, "body")
<1>0. Dos("body") = BodyDos
  BY DEF Dos, Reading, Resting
<1>1. \A x : x.do \in BodyDos => Proper(x, "body")
  BY <1>0 DEF Proper, BodyDos, DatabaseCommands, InterfaceCommands, GlobalCommands,
              Globals, VlanCommands, PortSettings
<1>2. /\ \A k \in BodyDos : B(<<Do(k)>>)
      /\ \A k \in BodyDos : \A v : B(<<OnVlan(k, v)>>)
      /\ \A k \in BodyDos : \A v, p : B(<<OnPort(k, v, p)>>)
      /\ \A k \in BodyDos : \A p, on : B(<<Set(k, p, on)>>)
      /\ \A k \in BodyDos : \A h, n : B(<<OnHost(k, h, n)>>)
  <2>1. \A k : Do(k).do = k
    BY DEF Do
  <2>2. \A k, v : OnVlan(k, v).do = k
    BY DEF Do, OnVlan
  <2>3. \A k, v, p : OnPort(k, v, p).do = k
    BY DEF Do, OnPort
  <2>4. \A k, p, on : Set(k, p, on).do = k
    BY DEF Do, Set
  <2>5. \A k, h, n : OnHost(k, h, n).do = k
    BY DEF Do, OnHost
  <2>6. \A x : x.do \in BodyDos => B(<<x>>)
    BY <1>1, BatchOne
  <2> HIDE DEF B, PortSettings
  <2> QED BY <2>1, <2>2, <2>3, <2>4, <2>5, <2>6
<1>3. \A s, t : B(s) /\ B(t) => B(s \o t)
  BY BatchConcat
<1>4. B(<<>>)
  BY BatchEmpty
<1>5. \A x, y : B(<<x>>) /\ B(<<y>>) => B(<<x, y>>)
  BY BatchTwo
<1> HIDE DEF B, PortSettings
<1>6. {"create", "name", "remove", "pvid", "general", "exclude", "include", "tag", "untag", "poe",
       "poeReset", "description", "speed", "flow", "admin", "hostname", "logging", "address",
       "gateway", "addHost", "removeHost"} \subseteq BodyDos
  BY DEF BodyDos, DatabaseCommands, InterfaceCommands, GlobalCommands, Globals, VlanCommands,
         PortSettings
<1>7. B(GeneralMode(c))
  BY <1>2, <1>4, <1>6 DEF GeneralMode
<1>8. /\ c.kind \in {"create", "delete", "membership", "pvid", "cycle", "clearFault", "hostname",
                     "logging", "address", "collect", "uncollect", "poe"} \cup PortSettings
      /\ c.mode \in VlanMode
  BY CallKind DEF Kinds, PortKinds, VlanKinds, PowerKinds, GlobalKinds, HostKinds
<1> USE DEF BodyCommands
<1>9. CASE c.kind = "create"
  <2>1. B(<<OnVlan("create", c.vlan)>>) /\ B(<<OnVlan("name", c.vlan)>>)
    BY <1>2, <1>6
  <2>2. B(<<OnVlan("create", c.vlan), OnVlan("name", c.vlan)>>)
    BY <2>1, <1>5
  <2> QED BY <1>9, <2>2 DEF B, PortSettings
<1>10. CASE c.kind = "delete"
  BY <1>10, <1>2, <1>6 DEF B, PortSettings
<1>11. CASE c.kind = "pvid"
  <2>1. B(<<OnPort("pvid", c.vlan, c.port)>>)
    BY <1>2, <1>6
  <2>2. B(GeneralMode(c) \o <<OnPort("pvid", c.vlan, c.port)>>)
    BY <2>1, <1>3, <1>7
  <2> QED BY <1>11, <2>2 DEF B, PortSettings
<1>12. CASE c.kind = "membership"
  <2> DEFINE on(what) == OnPort(what, c.vlan, c.port)
             list == CASE c.mode = "excluded" -> <<on("exclude")>>
                       [] c.mode = "tagged"   -> <<on("include"), on("tag")>>
                       [] c.mode = "untagged" -> <<on("include"), on("untag")>>
  <2>1. B(<<on("exclude")>>) /\ B(<<on("include")>>) /\ B(<<on("tag")>>) /\ B(<<on("untag")>>)
    BY <1>2, <1>6
  <2> HIDE DEF on
  <2>2. B(<<on("include"), on("tag")>>) /\ B(<<on("include"), on("untag")>>)
    BY <2>1, <1>5
  <2>3. B(list)
    BY <2>1, <2>2, <1>8 DEF VlanMode
  <2> HIDE DEF list
  <2>4. B(GeneralMode(c) \o list)
    BY <2>3, <1>3, <1>7
  <2>5. BodyCommands(c, row) = GeneralMode(c) \o list
    BY <1>12 DEF list, on, PortSettings
  <2> QED BY <2>4, <2>5 DEF B, PortSettings
<1>13. CASE c.kind \in PortSettings \cup {"poe"}
  <2>1. B(<<Set(c.kind, c.port, c.on)>>)
    BY <1>2, <1>6, <1>13 DEF PortSettings
  <2> QED BY <1>13, <2>1 DEF B, PortSettings
<1>14. CASE c.kind \in {"cycle", "clearFault"}
  <2>1. B(<<OnPort("poeReset", NoVlan, c.port)>>)
    BY <1>2, <1>6
  <2> QED BY <1>14, <2>1 DEF B, PortSettings
<1>15. CASE c.kind \in {"hostname", "logging"}
  <2>1. B(<<Set(c.kind, NoPort, c.on)>>)
    BY <1>2, <1>6, <1>15
  <2> QED BY <1>15, <2>1 DEF B, PortSettings
<1>16. CASE c.kind = "address"
  <2>1. B(<<Do("address")>>) /\ B(<<Do("gateway")>>)
    BY <1>2, <1>6
  <2>2. B(<<Do("address"), Do("gateway")>>)
    BY <2>1, <1>5
  <2> QED BY <1>16, <2>1, <2>2 DEF B, PortSettings
<1>17. CASE c.kind = "collect"
  <2>1. B(<<OnHost("addHost", c.host, 0)>>)
    BY <1>2, <1>6
  <2> QED BY <1>17, <2>1 DEF B, PortSettings
<1>18. CASE c.kind = "uncollect"
  <2>1. B(<<OnHost("removeHost", NoHost, row)>>)
    BY <1>2, <1>6
  <2> QED BY <1>18, <2>1 DEF B, PortSettings
<1> QED BY <1>8, <1>9, <1>10, <1>11, <1>12, <1>13, <1>14, <1>15, <1>16, <1>17, <1>18

\* A reboot or a deploy runs its script in EXEC mode.
LEMMA ScriptProper ==
    ASSUME NEW c \in Call, c.kind \in {"reboot", "deploy"}
    PROVE  Batch(Script(c), "script")
<1> DEFINE B(s) == Batch(s, "script")
<1>1. Dos("script") = {"https", "copy", "save", "reload"}
  BY DEF Dos, Reading, Resting
<1>2. /\ Proper(Do("reload"), "script") /\ Proper(Do("copy"), "script")
      /\ Proper(Do("save"), "script")
  BY <1>1 DEF Proper, Do
<1>3. ASSUME NEW on PROVE Proper(Set("https", NoPort, on), "script")
  BY <1>1 DEF Proper, Set, Do
<1>4. /\ B(<<Do("reload")>>) /\ B(<<Do("copy")>>) /\ B(<<Do("save")>>) /\ B(<<>>)
      /\ B(<<Set("https", NoPort, TRUE)>>) /\ B(<<Set("https", NoPort, FALSE)>>)
  BY <1>2, <1>3, BatchOne, BatchEmpty
<1>5. /\ B(<<Set("https", NoPort, FALSE), Do("copy")>>)
      /\ B(<<Set("https", NoPort, TRUE), Do("save")>>)
  BY <1>4, BatchTwo
<1> DEFINE chain == IF c.on THEN <<Do("copy")>> ELSE <<>>
<1>6. B(chain)
  BY <1>4
<1>7. \A s, t : B(s) /\ B(t) => B(s \o t)
  BY BatchConcat
<1> HIDE DEF B, chain
<1>8. B(<<Set("https", NoPort, FALSE), Do("copy")>> \o chain
          \o <<Set("https", NoPort, TRUE), Do("save")>>)
  BY <1>5, <1>6, <1>7
<1>9. CASE c.kind = "reboot"
  BY <1>9, <1>4 DEF Script, B
<1>10. CASE c.kind = "deploy"
  BY <1>10, <1>8 DEF Script, B, chain
<1> QED BY <1>9, <1>10

\* As many exits as levels, and nothing else.
LEMMA ExitsProper ==
    ASSUME NEW n \in Nat
    PROVE  Batch(Exits(n), "unwind") /\ Len(Exits(n)) = n
<1>1. Dos("unwind") = {"exit"}
  BY DEF Dos, Reading, Resting
<1>2. Proper(Do("exit"), "unwind")
  BY <1>1 DEF Proper, Do
<1> DEFINE T == {Do("exit")}
<1>3. Exits(n) \in Seq(T) /\ Len(Exits(n)) = n
  BY DEF Exits
<1>4. \A c \in T : Proper(c, "unwind")
  BY <1>2
<1> HIDE DEF T
<1> QED BY <1>3, <1>4, BatchOf

LEMMA SeqOfSet ==
    ASSUME NEW S, IsFiniteSet(S)
    PROVE  SetToSeq(S) \in Seq(S)
<1> DEFINE n == Cardinality(S)
<1>1. n \in Nat /\ ExistsBijection(1..n, S)
  BY FS_NatBijection, FS_CardinalityType, FS_CountingElements
<1>2. PICK f \in Bijection(1..n, S) : TRUE
  BY <1>1 DEF ExistsBijection
<1>3. f \in [1..n -> S] /\ IsInjective(f)
  BY <1>2 DEF Bijection, Injection, IsInjective
<1>4. SetToSeq(S) \in [1..n -> S]
  BY <1>3 DEF SetToSeq
<1> HIDE DEF n
<1> QED BY <1>1, <1>4

\* The pages of the VLANs that the brief page has listed.
LEMMA DetailsProper ==
    ASSUME NEW vlans, NEW at \in Reading
    PROVE  Batch(Details(vlans), at)
<1> DEFINE S     == {v \in Vlan \ {DefaultVlan} : v \in vlans}
           first == IF DefaultVlan \in vlans THEN <<DefaultVlan>> ELSE <<>>
           list  == first \o SetToSeq(S)
           T     == {OnVlan("detail", v) : v \in Vlan}
<1>1. IsFiniteSet(S)
  BY FastpathShellAssumption, FS_Subset
<1>2. SetToSeq(S) \in Seq(S)
  BY <1>1, SeqOfSet
<1>3. SetToSeq(S) \in Seq(Vlan)
  <2>1. S \subseteq Vlan
    OBVIOUS
  <2> HIDE DEF S
  <2> DEFINE s == SetToSeq(S)
  <2>2. s = [i \in 1..Len(s) |-> s[i]] /\ Len(s) \in Nat /\ \A i \in 1..Len(s) : s[i] \in Vlan
    BY <1>2, <2>1
  <2> HIDE DEF s
  <2>3. [i \in 1..Len(s) |-> s[i]] \in Seq(Vlan)
    BY <2>2
  <2> QED BY <2>2, <2>3 DEF s
<1>4. first \in Seq(Vlan)
  BY FastpathShellAssumption
<1> HIDE DEF S, first
<1>5. list \in Seq(Vlan)
  BY <1>3, <1>4
<1> HIDE DEF list
<1>6. [i \in 1..Len(list) |-> OnVlan("detail", list[i])] \in Seq(T)
  BY <1>5
<1>7. \A c \in T : Proper(c, at)
  <2>1. Dos(at) = Shows
    BY DEF Dos, Reading, Resting
  <2>2. \A v : OnVlan("detail", v).do = "detail"
    BY DEF OnVlan, Do
  <2> QED BY <2>1, <2>2 DEF Proper, Shows
<1> HIDE DEF T
<1>8. Details(vlans) = [i \in 1..Len(list) |-> OnVlan("detail", list[i])]
  BY DEF Details, list, first, S
<1> QED BY <1>6, <1>7, <1>8, BatchOf

-----------------------------------------------------------------------------
(***************************************************************************)
(* One line executed by the shell: what becomes of the shell and what it   *)
(* prints.                                                                 *)
(***************************************************************************)
PlainDos == Shows \cup BodyDos \cup {"https", "paging"}

\* The line is executed, or rejected, in a shell that asks nothing.
Prints(s, c, t, x) ==
    /\ IsShell(t)
    /\ t.asking = "nothing" /\ t.down = s.down
    /\ x.of = c

LEMMA ExecuteUnasked ==
    ASSUME NEW s, s.asking = "nothing", NEW c, NEW done
    PROVE  /\ Execute(s, c, done).out = Printed(s, c)
           /\ Rejects(s, c) => Execute(s, c, done).shell = s
           /\ c.do = "enable" /\ ~AsksPassword => Execute(s, c, done).shell = s
           /\ ~Rejects(s, c) /\ ~(c.do = "enable" /\ ~AsksPassword) =>
                Execute(s, c, done).shell = Effect(s, c)
BY DEF Execute

\* A command that neither moves between modes nor asks.
LEMMA PlainEffect ==
    ASSUME NEW s, IsShell(s), NEW c, c.do \in PlainDos
    PROVE  /\ IsShell(Effect(s, c)) /\ Effect(s, c).modes = s.modes
           /\ Effect(s, c).asking = s.asking /\ Effect(s, c).down = s.down
<1>1. \A f : LET t == [s EXCEPT !.config = f]
             IN  IsShell(t) /\ t.modes = s.modes /\ t.asking = s.asking /\ t.down = s.down
  BY DEF IsShell
<1>2. c.do \notin {"vlanDatabase", "configure", "interface", "exit"} \cup Questions
  BY DEF PlainDos, BodyDos, Shows, DatabaseCommands, InterfaceCommands, GlobalCommands, Globals,
         VlanCommands, PortSettings, Questions, ExecCommands
<1>3. \/ Effect(s, c) = s
      \/ \E f : Effect(s, c) = [s EXCEPT !.config = f]
  <2>1. CASE c.do = "https"
    <3>1. Effect(s, c) = [s EXCEPT !.config.https = c.on]
      BY <2>1 DEF Effect, Questions, ExecCommands, DatabaseCommands, InterfaceCommands,
                  GlobalCommands, Globals, VlanCommands, PortSettings
    <3> QED BY <3>1
  <2>2. CASE c.do = "power"
    <3>1. Effect(s, c) = [s EXCEPT !.config.lag = {}]
      BY <2>2 DEF Effect, Questions, ExecCommands, DatabaseCommands, InterfaceCommands,
                  GlobalCommands, Globals, VlanCommands, PortSettings
    <3> QED BY <3>1
  <2>3. CASE c.do \in DatabaseCommands
    <3>1. Effect(s, c) = [s EXCEPT !.config = DatabaseEffect(@, c)]
      BY <2>3, <1>2 DEF Effect, Questions, ExecCommands, DatabaseCommands, InterfaceCommands,
                  GlobalCommands, Globals, VlanCommands, PortSettings
    <3> QED BY <3>1
  <2>4. CASE c.do \in InterfaceCommands
    <3>1. Effect(s, c) = [s EXCEPT !.config = InterfaceEffect(@, c, s.port)]
      BY <2>4, <1>2 DEF Effect, Questions, ExecCommands, DatabaseCommands, InterfaceCommands,
                  GlobalCommands, Globals, VlanCommands, PortSettings
    <3> QED BY <3>1
  <2>5. CASE c.do \in GlobalCommands
    <3>1. Effect(s, c) = [s EXCEPT !.config = GlobalEffect(@, c)]
      BY <2>5, <1>2 DEF Effect, Questions, ExecCommands, DatabaseCommands, InterfaceCommands,
                  GlobalCommands, Globals, VlanCommands, PortSettings
    <3> QED BY <3>1
  <2>6. CASE c.do \notin {"https", "power"} \cup BodyDos
    BY <2>6, <1>2 DEF Effect, BodyDos
  <2> QED BY <2>1, <2>2, <2>3, <2>4, <2>5, <2>6 DEF BodyDos
<1> QED BY <1>1, <1>3

LEMMA PlainPrints ==
    ASSUME NEW s, IsShell(s), s.asking = "nothing", NEW c, c.do \in PlainDos, NEW done
    PROVE  \E t, x :
             /\ Execute(s, c, done).shell = t /\ Execute(s, c, done).out = <<x, Prompt>>
             /\ Prints(s, c, t, x) /\ t.modes = s.modes
             /\ x.says \in {"nothing", "error", "table"}
<1>1. c.do \notin ExecCommands /\ c.do # "enable"
  BY DEF PlainDos, BodyDos, Shows, DatabaseCommands, InterfaceCommands, GlobalCommands, Globals,
         VlanCommands, PortSettings, ExecCommands
<1>2. \E x : Printed(s, c) = <<x, Prompt>> /\ x.of = c /\ x.says \in {"nothing", "error", "table"}
  <2>1. CASE Rejects(s, c)
    BY <2>1 DEF Printed, Says
  <2>2. CASE ~Rejects(s, c) /\ c.do \in Shows
    <3> DEFINE x == [of |-> c, says |-> "table", at |-> s.config]
    <3>1. Printed(s, c) = <<x, Prompt>>
      BY <2>2, <1>1 DEF Printed
    <3> QED BY <3>1
  <2>3. CASE ~Rejects(s, c) /\ c.do \notin Shows
    BY <2>3, <1>1 DEF Printed, Says
  <2> QED BY <2>1, <2>2, <2>3
<1>3. LET t == Execute(s, c, done).shell
      IN  IsShell(t) /\ t.modes = s.modes /\ t.asking = s.asking /\ t.down = s.down
  BY <1>1, ExecuteUnasked, PlainEffect
<1> QED BY <1>2, <1>3, ExecuteUnasked DEF Prints

\* A descent is executed and goes one level deeper, or is rejected.
LEMMA EnterPrints ==
    ASSUME NEW s, IsShell(s), s.asking = "nothing", NEW c, c.do \in EnterDos, NEW done
    PROVE  \E t, x :
             /\ Execute(s, c, done).shell = t /\ Execute(s, c, done).out = <<x, Prompt>>
             /\ Prints(s, c, t, x)
             /\ \/ x.says = "nothing" /\ Len(t.modes) = Len(s.modes) + 1
                \/ x.says = "error" /\ t.modes = s.modes
<1>1. CASE Rejects(s, c)
  <2>1. Printed(s, c) = <<Says(c, "error"), Prompt>>
    BY <1>1 DEF Printed
  <2> QED BY <1>1, <2>1, ExecuteUnasked DEF Prints, Says
<1>2. CASE ~Rejects(s, c)
  <2>1. Printed(s, c) = <<Says(c, "nothing"), Prompt>>
    BY <1>2 DEF Printed, EnterDos, ExecCommands, Shows
  <2>2. \E m \in {"database", "config", "interface"} : \E p :
          Effect(s, c) = [s EXCEPT !.modes = Append(@, m), !.port = p]
    <3>1. CASE c.do = "vlanDatabase"
      <4>1. Effect(s, c) = [s EXCEPT !.modes = Append(@, "database"), !.port = s.port]
        BY <3>1 DEF Effect, Enter, Questions, ExecCommands, DatabaseCommands, InterfaceCommands,
                    GlobalCommands, Globals, VlanCommands, PortSettings
      <4> QED BY <4>1
    <3>2. CASE c.do = "configure"
      <4>1. Effect(s, c) = [s EXCEPT !.modes = Append(@, "config"), !.port = s.port]
        BY <3>2 DEF Effect, Enter, Questions, ExecCommands, DatabaseCommands, InterfaceCommands,
                    GlobalCommands, Globals, VlanCommands, PortSettings
      <4> QED BY <4>1
    <3>3. CASE c.do = "interface"
      <4>1. Effect(s, c) = [s EXCEPT !.modes = Append(@, "interface"), !.port = c.port]
        BY <3>3 DEF Effect, Enter, Questions, ExecCommands, DatabaseCommands, InterfaceCommands,
                    GlobalCommands, Globals, VlanCommands, PortSettings
      <4> QED BY <4>1
    <3> QED BY <3>1, <3>2, <3>3 DEF EnterDos
  <2>3. LET t == Effect(s, c)
        IN  /\ IsShell(t) /\ Len(t.modes) = Len(s.modes) + 1
            /\ t.asking = s.asking /\ t.down = s.down
    BY <2>2 DEF IsShell
  <2>4. Execute(s, c, done).shell = Effect(s, c)
    BY <1>2, ExecuteUnasked DEF EnterDos
  <2> QED BY <2>1, <2>3, <2>4, ExecuteUnasked DEF Prints, Says
<1> QED BY <1>1, <1>2

\* An exit goes up one level.
LEMMA ExitPrints ==
    ASSUME NEW s, IsShell(s), s.asking = "nothing", NEW c, c.do = "exit", NEW done,
           s.modes # <<>>
    PROVE  \E t, x :
             /\ Execute(s, c, done).shell = t /\ Execute(s, c, done).out = <<x, Prompt>>
             /\ Prints(s, c, t, x) /\ x.says = "nothing"
             /\ Len(t.modes) = Len(s.modes) - 1
<1>1. ~Rejects(s, c)
  BY DEF Rejects, DatabaseCommands, InterfaceCommands, GlobalCommands, Globals, VlanCommands,
         PortSettings, ExecCommands
<1>2. Printed(s, c) = <<Says(c, "nothing"), Prompt>>
  BY <1>1 DEF Printed, ExecCommands, Shows
<1>3. \E p : Effect(s, c) = [s EXCEPT !.modes = Front(s.modes), !.port = p]
  <2> DEFINE p == IF Front(s.modes) # <<>> /\ Last(Front(s.modes)) = "interface" THEN s.port
                                                                                ELSE NoPort
  <2>1. Effect(s, c) = [s EXCEPT !.modes = Front(s.modes), !.port = p]
    BY DEF Effect, Questions, ExecCommands, DatabaseCommands, InterfaceCommands,
           GlobalCommands, Globals, VlanCommands, PortSettings, IsShell
  <2> QED BY <2>1
<1>4. Front(s.modes) \in Seq({"database", "config", "interface"})
      /\ Len(Front(s.modes)) = Len(s.modes) - 1
  <2> DEFINE m == s.modes
             M == {"database", "config", "interface"}
  <2>1. m \in Seq(M) /\ m # <<>>
    BY DEF IsShell
  <2> HIDE DEF m, M
  <2>2. Len(m) \in Nat /\ Len(m) > 0 /\ \A i \in 1..Len(m) : m[i] \in M
    BY <2>1
  <2> DEFINE n == Len(m) - 1
  <2>3. 1 \in Int /\ n \in Int /\ n >= 0 /\ \A i \in 1..n : m[i] \in M
    BY <2>2
  <2> HIDE DEF n
  <2>4. SubSeq(m, 1, n) \in Seq(M) /\ Len(SubSeq(m, 1, n)) = IF 1 <= n THEN n - 1 + 1 ELSE 0
    BY <2>3, SubSeqProperties
  <2>5. Len(SubSeq(m, 1, n)) = n
    BY <2>3, <2>4
  <2> QED BY <2>4, <2>5 DEF Front, m, M, n
<1>5. LET t == Effect(s, c)
      IN  IsShell(t) /\ t.modes = Front(s.modes) /\ t.asking = s.asking /\ t.down = s.down
  BY <1>3, <1>4 DEF IsShell
<1>6. Execute(s, c, done).shell = Effect(s, c)
  BY <1>1, ExecuteUnasked
<1> QED BY <1>2, <1>4, <1>5, <1>6, ExecuteUnasked DEF Prints, Says

\* "enable" asks for the password, or does not.
LEMMA EnablePrints ==
    ASSUME NEW s, IsShell(s), s.asking = "nothing", NEW c, c.do = "enable", NEW done
    PROVE  LET t == Execute(s, c, done).shell
               out == Execute(s, c, done).out
           IN  /\ IsShell(t) /\ t.modes = s.modes /\ t.down = s.down
               /\ \/ t.asking = "enable" /\ out = <<Says(c, "password")>>
                  \/ t.asking = "nothing" /\ out = <<Says(c, "nothing"), Prompt>>
<1>1. ~Rejects(s, c)
  BY DEF Rejects, DatabaseCommands, InterfaceCommands, GlobalCommands, Globals, VlanCommands,
         PortSettings, ExecCommands
<1>2. CASE AsksPassword
  <2>1. Printed(s, c) = <<Says(c, "password")>>
    BY <1>1, <1>2 DEF Printed, ExecCommands
  <2>2. Effect(s, c) = [s EXCEPT !.asking = "enable"]
    BY DEF Effect, Questions, ExecCommands, DatabaseCommands, InterfaceCommands,
           GlobalCommands, Globals, VlanCommands, PortSettings
  <2>3. Execute(s, c, done).shell = Effect(s, c)
    BY <1>1, <1>2, ExecuteUnasked
  <2> QED BY <2>1, <2>2, <2>3, ExecuteUnasked DEF IsShell
<1>3. CASE ~AsksPassword
  <2>1. Printed(s, c) = <<Says(c, "nothing"), Prompt>>
    BY <1>1, <1>3 DEF Printed, ExecCommands, Shows
  <2> QED BY <1>3, <2>1, ExecuteUnasked DEF IsShell
<1> QED BY <1>2, <1>3

\* From EXEC mode; only a transfer can be refused.
LEMMA QuestionPrints ==
    ASSUME NEW s, IsShell(s), s.asking = "nothing", s.modes = <<>>,
           NEW c, c.do \in ExecCommands, NEW done
    PROVE  LET t == Execute(s, c, done).shell
               out == Execute(s, c, done).out
           IN  /\ IsShell(t) /\ t.modes = s.modes /\ t.down = s.down
               /\ \/ t.asking = c.do /\ out = <<Says(c, "question")>>
                  \/ c.do = "copy" /\ t.asking = "nothing" /\ out = <<Says(c, "error"), Prompt>>
<1>1. Rejects(s, c) => c.do = "copy"
  BY DEF Rejects, DatabaseCommands, InterfaceCommands, GlobalCommands, Globals, VlanCommands,
         PortSettings, ExecCommands, Mode
<1>2. CASE Rejects(s, c)
  <2>1. Printed(s, c) = <<Says(c, "error"), Prompt>>
    BY <1>2 DEF Printed
  <2> QED BY <1>1, <1>2, <2>1, ExecuteUnasked
<1>3. CASE ~Rejects(s, c)
  <2>1. Printed(s, c) = <<Says(c, "question")>>
    BY <1>3 DEF Printed
  <2>2. Effect(s, c) = [s EXCEPT !.asking = c.do]
    BY DEF Effect, Questions, ExecCommands, DatabaseCommands, InterfaceCommands,
           GlobalCommands, Globals, VlanCommands, PortSettings
  <2>3. Execute(s, c, done).shell = Effect(s, c)
    BY <1>3, ExecuteUnasked DEF ExecCommands
  <2>4. LET t == Effect(s, c)
        IN  IsShell(t) /\ t.modes = s.modes /\ t.down = s.down /\ t.asking = c.do
    BY <2>2 DEF IsShell
  <2> QED BY <2>1, <2>3, <2>4, ExecuteUnasked
<1> QED BY <1>2, <1>3

\* Whatever is said to a question answers it.
LEMMA AnswerPrints ==
    ASSUME NEW s, IsShell(s), s.asking \in Questions, NEW c, NEW done,
           NEW u, u = Execute(s, c, done).shell, NEW out, out = Execute(s, c, done).out
    PROVE  /\ IsShell(u) /\ u.modes = s.modes /\ u.asking = "nothing"
           /\ s.asking # "reload" => u.down = s.down
           /\ s.asking \in {"enable", "save"} => out = <<Prompt>>
           /\ s.asking = "copy" =>
                \E what \in {"success", "failure"} : out = <<Says(Do("copy"), what), Prompt>>
<1> DEFINE t0 == [s EXCEPT !.asking = "nothing"]
<1>0. IsShell(t0) /\ t0.modes = s.modes /\ t0.asking = "nothing" /\ t0.down = s.down
  BY DEF IsShell
<1>1. Execute(s, c, done) = Answered(s, c, done)
  BY DEF Execute, Questions, ExecCommands
<1>2. CASE s.asking = "copy"
  <2> DEFINE f == [t0.config EXCEPT !.certificate = @ \/ done]
  <2>1. Answered(s, c, done) =
          [shell |-> [t0 EXCEPT !.config = f],
           out |-> <<Says(Do("copy"), IF done THEN "success" ELSE "failure"), Prompt>>]
    BY <1>2 DEF Answered
  <2> HIDE DEF t0, f
  <2>2. Execute(s, c, done).shell = [t0 EXCEPT !.config = f]
    BY <1>1, <2>1
  <2>3. IsShell(Execute(s, c, done).shell)
    BY <1>0, <2>2 DEF IsShell
  <2>4. LET t == Execute(s, c, done).shell
        IN  t.modes = s.modes /\ t.asking = "nothing" /\ t.down = s.down
    BY <1>0, <2>2 DEF IsShell
  <2>5. \E what \in {"success", "failure"} :
          Execute(s, c, done).out = <<Says(Do("copy"), what), Prompt>>
    BY <1>1, <2>1
  <2> QED BY <1>2, <2>3, <2>4, <2>5
<1>3. CASE s.asking = "save"
  <2> DEFINE f == [t0.config EXCEPT !.saved = @ \/ c.do = "yes"]
  <2>1. Answered(s, c, done) =
          [shell |-> [t0 EXCEPT !.config = f],
           out |-> <<Prompt>>]
    BY <1>3 DEF Answered
  <2> HIDE DEF t0, f
  <2>2. Execute(s, c, done).shell = [t0 EXCEPT !.config = f]
    BY <1>1, <2>1
  <2>3. IsShell(Execute(s, c, done).shell)
    BY <1>0, <2>2 DEF IsShell
  <2>4. LET t == Execute(s, c, done).shell
        IN  t.modes = s.modes /\ t.asking = "nothing" /\ t.down = s.down
    BY <1>0, <2>2 DEF IsShell
  <2> QED BY <1>1, <1>3, <2>1, <2>3, <2>4
<1>4. CASE s.asking = "reload"
  <2>1. Answered(s, c, done).shell = [t0 EXCEPT !.down = (c.do = "yes")]
    BY <1>4 DEF Answered
  <2>2. Execute(s, c, done).shell = [t0 EXCEPT !.down = (c.do = "yes")]
    BY <1>1, <2>1
  <2> HIDE DEF t0
  <2>3. IsShell(u) /\ u.modes = s.modes /\ u.asking = "nothing"
    BY <1>0, <2>2 DEF IsShell
  <2> QED BY <1>4, <2>3
<1>5. CASE s.asking = "enable"
  <2>1. Answered(s, c, done) = [shell |-> t0, out |-> <<Prompt>>]
    BY <1>5 DEF Answered
  <2> HIDE DEF t0
  <2>2. Execute(s, c, done).shell = t0 /\ Execute(s, c, done).out = <<Prompt>>
    BY <1>1, <2>1
  <2> QED BY <1>0, <1>5, <2>2
<1> QED BY <1>2, <1>3, <1>4, <1>5 DEF Questions, ExecCommands

\* The switch goes down without a word.
LEMMA ReloadPrints ==
    ASSUME NEW s, IsShell(s), s.asking = "reload", NEW c, c.do = "yes", NEW done
    PROVE  Execute(s, c, done).shell.down = TRUE /\ Execute(s, c, done).out = <<>>
<1> DEFINE t0 == [s EXCEPT !.asking = "nothing"]
<1>1. Execute(s, c, done) = Answered(s, c, done)
  BY DEF Execute, Questions, ExecCommands
<1>2. Answered(s, c, done) = [shell |-> [t0 EXCEPT !.down = TRUE], out |-> <<>>]
  BY DEF Answered
<1>3. [t0 EXCEPT !.down = TRUE].down = TRUE
  BY DEF IsShell
<1> DEFINE t == [t0 EXCEPT !.down = TRUE]
<1> HIDE DEF t
<1>4. Execute(s, c, done).shell = t /\ Execute(s, c, done).out = <<>>
  BY <1>1, <1>2 DEF t
<1> QED BY <1>3, <1>4 DEF t

-----------------------------------------------------------------------------
(***************************************************************************)
(* Stages and lines.                                                       *)
(***************************************************************************)
LEMMA DosOf ==
    /\ \A at \in Reading : Dos(at) = Shows
    /\ Dos("enter") = EnterDos /\ Dos("body") = BodyDos /\ Dos("unwind") = {"exit"}
    /\ Dos("script") = {"https", "copy", "save", "reload"}
    /\ \A at \in Resting : Dos(at) = {}
<1>1. \A at \in Reading : Dos(at) = Shows
  BY DEF Dos, Reading, Resting
<1>2. \A at \in Resting : Dos(at) = {}
  BY DEF Dos, Reading, Resting
<1>3. /\ Dos("enter") = EnterDos /\ Dos("body") = BodyDos /\ Dos("unwind") = {"exit"}
      /\ Dos("script") = {"https", "copy", "save", "reload"}
  BY DEF Dos, Reading, Resting
<1> QED BY <1>1, <1>2, <1>3

LEMMA DoIs ==
    ASSUME NEW what
    PROVE  Do(what).do = what
BY DEF Do

\* A command of a stage is no line of the setup and no answer.
LEMMA ProperLine ==
    ASSUME NEW at \in Stage, NEW c, Proper(c, at)
    PROVE  /\ c.do \notin {"none", "banner", "enable", "password", "paging", "yes"}
           /\ c # NoLine /\ c # Banner
           /\ c.do \in Shows \cup EnterDos \cup BodyDos
                       \cup {"exit", "https", "copy", "save", "reload"}
<1>1. Dos(at) \subseteq Shows \cup EnterDos \cup BodyDos
                          \cup {"exit", "https", "copy", "save", "reload"}
  BY DosOf DEF Stage
<1>2. c.do \in Dos(at)
  BY DEF Proper
<1>3. c.do \notin {"none", "banner", "enable", "password", "paging", "yes"}
  BY <1>1, <1>2 DEF Shows, EnterDos, BodyDos, DatabaseCommands, InterfaceCommands,
                    GlobalCommands, Globals, VlanCommands, PortSettings
<1>4. c # NoLine /\ c # Banner
  BY <1>3, DoIs DEF NoLine, Banner
<1> QED BY <1>1, <1>2, <1>3, <1>4

LEMMA SetupLines ==
    /\ Banner # NoLine
    /\ \A k \in {"enable", "password", "paging"} : Do(k) # NoLine /\ Do(k) # Banner
BY DoIs DEF NoLine, Banner

-----------------------------------------------------------------------------
(***************************************************************************)
(* The calls' side of the invariant, action by action.                     *)
(***************************************************************************)
LEMMA StageInit == Init => StageFits
<1> SUFFICES ASSUME Init PROVE StageFits
  OBVIOUS
<1>1. stage = "idle" /\ todo = <<>> /\ entered = 0 /\ Idle
  BY DEF Init, SessionInit, Idle
<1> QED BY <1>1, BatchEmpty DEF StageFits, Stage, Resting

LEMMA StageInvoke ==
    ASSUME StageFits, Invoke
    PROVE  StageFits'
<1>1. PICK c \in Calls : call' = c /\ Begin(c)
  BY DEF Invoke
<1>2. c \in Call
  BY DEF Calls
<1>3. /\ stage \in Resting /\ Idle' /\ entered' = 0
  BY DEF Invoke, StageFits, sessionVars, Idle, Resting
<1>4. CASE GuardRaises(c)
  <2>1. stage' = "refused" /\ todo' = <<>>
    BY <1>1, <1>4 DEF Begin, GoTo
  <2> QED BY <2>1, <1>3, BatchEmpty DEF StageFits, Stage, Resting
<1>5. CASE ~GuardRaises(c) /\ c.kind \in {"reboot", "deploy"}
  <2>1. stage' = "script" /\ todo' = Script(c)
    BY <1>1, <1>5 DEF Begin, GoTo
  <2> QED BY <2>1, <1>1, <1>2, <1>3, <1>5, ScriptProper DEF StageFits, Stage, Resting
<1>6. CASE ~GuardRaises(c) /\ c.kind \notin {"reboot", "deploy"}
  <2>1. stage' = "before" /\ todo' = PagesBefore(c)
    BY <1>1, <1>6 DEF Begin, GoTo
  <2>2. Batch(PagesBefore(c), "before")
    BY <1>2, <1>6, PagesProper DEF Reading
  <2> QED BY <2>1, <2>2, <1>1, <1>2, <1>3, <1>6 DEF StageFits, Stage, Resting, Reading
<1> QED BY <1>4, <1>5, <1>6

LEMMA StageIssue ==
    ASSUME StageFits, Issue
    PROVE  StageFits'
<1>1. todo # <<>> /\ todo' = Tail(todo) /\ UNCHANGED <<call, stage, entered>>
  BY DEF Issue, callVars
<1>2. Batch(todo', stage)
  BY <1>1, BatchSplit DEF StageFits
<1>3. stage \notin Resting
  BY <1>1 DEF StageFits
<1> QED BY <1>1, <1>2, <1>3 DEF StageFits

LEMMA StageEnd ==
    ASSUME NEW how \in Resting, End(how), Idle'
    PROVE  StageFits'
<1>1. stage' = how /\ todo' = <<>> /\ entered' = 0
  BY DEF End, GoTo
<1> QED BY <1>1, BatchEmpty DEF StageFits, Stage, Resting

LEMMA StageUnwind ==
    ASSUME StageFits, stage \in {"enter", "body"}, NEW raised, Unwind(raised), UNCHANGED call
    PROVE  /\ StageFits'
           /\ stage' = "unwind" /\ todo' = Exits(entered) /\ Len(todo') = entered
<1>1. stage' = "unwind" /\ todo' = Exits(entered) /\ UNCHANGED entered
  BY DEF Unwind, GoTo
<1>2. entered \in Nat
  BY DEF StageFits
<1>3. Batch(Exits(entered), "unwind") /\ Len(Exits(entered)) = entered
  BY <1>2, ExitsProper
<1> QED BY <1>1, <1>2, <1>3 DEF StageFits, Stage, Resting

LEMMA StageUse ==
    ASSUME StageFits, SessionFits, Use
    PROVE  StageFits'
<1>1. Idle' /\ UNCHANGED call
  BY DEF Use, Take, Idle, callVars
<1>2. stage \in Stage \ Resting /\ entered \in Nat /\ Batch(todo, stage)
  BY DEF Use, SessionFits, StageFits
<1>3. CASE stage \in Reading /\ ~Broken
  <2>1. UNCHANGED <<stage, entered>> /\ (todo' = todo \/ \E vlans : todo' = Details(vlans))
    BY <1>3 DEF Use, Note, Reading
  <2>2. Batch(todo', stage)
    BY <1>2, <1>3, <2>1, DetailsProper
  <2> QED BY <1>1, <1>2, <2>1, <2>2 DEF StageFits
<1>4. CASE stage = "enter" /\ Accepted
  <2>1. entered' = entered + 1 /\ UNCHANGED <<stage, todo>>
    BY <1>4 DEF Use, Reading
  <2> QED BY <1>1, <1>2, <1>4, <2>1 DEF StageFits
<1>5. CASE stage \in {"enter", "body"} /\ ~Accepted
  <2>1. Unwind(TRUE)
    BY <1>5 DEF Use, Reading
  <2> QED BY <1>1, <1>5, <2>1, StageUnwind
<1>6. CASE stage \in Reading \cup {"unwind", "script"} /\ Broken
  <2>1. Escapes(answer)
    BY <1>6 DEF Use, Reading
  <2>2. \E how \in Resting : End(how)
    BY <2>1 DEF Escapes, Resting
  <2> QED BY <1>1, <2>2, StageEnd
<1>7. CASE \/ stage = "body" /\ Accepted
           \/ stage \in {"unwind", "script"} /\ ~Broken
  <2>1. UNCHANGED <<stage, todo, entered>>
    BY <1>7 DEF Use, Reading
  <2> QED BY <1>1, <1>2, <2>1 DEF StageFits
<1> QED BY <1>2, <1>3, <1>4, <1>5, <1>6, <1>7 DEF Stage

LEMMA StageGo ==
    ASSUME StageFits, NEW to \in Stage \ Resting, NEW commands, GoTo(to, commands),
           Batch(commands, to), stage \notin Resting, UNCHANGED call, Idle',
           to = "script" <=> stage = "script",
           entered' \in Nat, to \notin {"enter", "body", "unwind"} => entered' = 0
    PROVE  StageFits'
BY DEF StageFits, GoTo

LEMMA StageTurn ==
    ASSUME StageFits, Turn
    PROVE  StageFits'
<1>1. Idle' /\ UNCHANGED call
  BY DEF Turn, Idle, sessionVars
<1>2. stage \in Stage \ Resting /\ entered \in Nat /\ call \in Call
      /\ (stage \notin {"enter", "body", "unwind"} => entered = 0)
  BY DEF Turn, StageFits
<1>3. stage = "script" <=> call.kind \in {"reboot", "deploy"}
  BY <1>2 DEF StageFits
<1>4. CASE stage = "before" /\ Prepare
  <2>1. CASE End("refused")
    BY <1>1, <2>1, StageEnd DEF Resting
  <2>2. CASE GoTo("pvids", <<Do("pvids")>>) /\ UNCHANGED entered
    <3>1. Batch(<<Do("pvids")>>, "pvids")
      <4>1. Proper(Do("pvids"), "pvids")
        BY DosOf, DoIs DEF Proper, Reading, Shows
      <4> QED BY <4>1, BatchOne
    <3> QED BY <1>1, <1>2, <1>4, <2>2, <3>1, StageGo DEF Stage, Resting, Reading
  <2>3. CASE GoTo("enter", EnterCommands(call)) /\ UNCHANGED entered
    <3>1. Batch(EnterCommands(call), "enter")
      BY <1>2, <1>3, <1>4, EnterProper
    <3> QED BY <1>1, <1>2, <1>4, <2>3, <3>1, StageGo DEF Stage, Resting
  <2> QED BY <1>4, <2>1, <2>2, <2>3 DEF Prepare
<1>5. CASE stage = "after" /\ Judge
  <2>1. CASE \E how \in Resting : End(how)
    BY <1>1, <2>1, StageEnd
  <2>2. CASE \E to \in {"after", "farewell"} : GoTo(to, PagesAfter(call)) /\ UNCHANGED entered
    <3>1. PICK to \in {"after", "farewell"} : GoTo(to, PagesAfter(call)) /\ UNCHANGED entered
      BY <2>2
    <3>2. Batch(PagesAfter(call), to)
      BY <1>2, <1>3, <1>5, PagesProper DEF Reading
    <3> QED BY <1>1, <1>2, <1>5, <3>1, <3>2, StageGo DEF Stage, Resting, Reading
  <2> QED BY <1>5, <2>1, <2>2 DEF Judge, Resting
<1>6. CASE stage = "pvids" /\ GoTo("enter", EnterCommands(call)) /\ UNCHANGED entered
  <2>1. Batch(EnterCommands(call), "enter")
    BY <1>2, <1>3, <1>6, EnterProper
  <2> QED BY <1>1, <1>2, <1>6, <2>1, StageGo DEF Stage, Resting
<1>7. CASE stage = "enter" /\ GoTo("body", BodyCommands(call, victim)) /\ UNCHANGED entered
  <2>1. Batch(BodyCommands(call, victim), "body")
    BY <1>2, <1>3, <1>7, BodyProper
  <2> QED BY <1>1, <1>2, <1>7, <2>1, StageGo DEF Stage, Resting
<1>8. CASE stage = "body" /\ Unwind(FALSE)
  BY <1>1, <1>8, StageUnwind
<1>9. CASE stage = "unwind" /\ Unwound
  <2>1. CASE End("failed")
    BY <1>1, <2>1, StageEnd DEF Resting
  <2>2. CASE GoTo("after", PagesAfter(call)) /\ entered' = 0
    <3>1. Batch(PagesAfter(call), "after")
      BY <1>2, <1>3, <1>9, PagesProper DEF Reading
    <3> QED BY <1>1, <1>2, <1>9, <2>2, <3>1, StageGo DEF Stage, Resting, Reading
  <2> QED BY <1>9, <2>1, <2>2 DEF Unwound
<1>10. CASE \E how \in {"diverged", "ok"} : End(how)
  BY <1>1, <1>10, StageEnd DEF Resting
<1> QED BY <1>4, <1>5, <1>6, <1>7, <1>8, <1>9, <1>10 DEF Turn

LEMMA StageSession ==
    ASSUME StageFits, SessionFits, Session
    PROVE  StageFits'
<1>1. UNCHANGED <<call, stage, todo, entered>>
  BY DEF Session, writerVars
<1>2. stage \in Resting => Idle'
  <2>1. SUFFICES ASSUME stage \in Resting PROVE UNCHANGED awaiting
    BY DEF StageFits, Idle
  <2>2. Idle /\ ~Waiting
    BY <2>1 DEF StageFits, Idle, Waiting
  <2>3. CASE Executes
    BY <2>3 DEF Executes
  <2>4. CASE Close
    BY <2>4 DEF Close
  <2> QED BY <2>2, <2>3, <2>4 DEF Session, Receive, TimesOut, StreamEnds
<1> QED BY <1>1, <1>2 DEF StageFits

LEMMA StageStep ==
    ASSUME StageFits, SessionFits, [Next]_vars
    PROVE  StageFits'
<1>1. CASE Invoke
  BY <1>1, StageInvoke
<1>2. CASE Issue
  BY <1>2, StageIssue
<1>3. CASE Use
  BY <1>3, StageUse
<1>4. CASE Turn
  BY <1>4, StageTurn
<1>5. CASE Session
  BY <1>5, StageSession
<1>6. CASE UNCHANGED vars
  BY <1>6 DEF vars, sessionVars, writerVars, StageFits, Idle
<1> QED BY <1>1, <1>2, <1>3, <1>4, <1>5, <1>6 DEF Next

-----------------------------------------------------------------------------
(***************************************************************************)
(* Short sequences, and what the caller is given.                          *)
(***************************************************************************)
LEMMA OfOne ==
    ASSUME NEW x
    PROVE  /\ Len(<<x>>) = 1 /\ SubSeq(<<x>>, 1, 1) = <<x>> /\ SubSeq(<<x>>, 2, 1) = <<>>
           /\ \A what : Some(<<x>>, what) <=> x.says = what
<1>1. <<x>> \in Seq({x}) /\ Len(<<x>>) = 1
  OBVIOUS
<1>2. SubSeq(<<x>>, 1, 1) = <<x>>
  BY <1>1, SubSeqFull
<1>3. SubSeq(<<x>>, 2, 1) = <<>>
  BY SubSeqEmpty
<1>4. \A what : Some(<<x>>, what) <=> x.says = what
  BY DEF Some
<1> QED BY <1>1, <1>2, <1>3, <1>4

LEMMA OfTwo ==
    ASSUME NEW x, NEW y
    PROVE  /\ Len(<<x, y>>) = 2 /\ SubSeq(<<x, y>>, 1, 1) = <<x>>
           /\ SubSeq(<<x, y>>, 1, 2) = <<x, y>> /\ SubSeq(<<x, y>>, 3, 2) = <<>>
           /\ \A what : Some(<<x, y>>, what) <=> x.says = what \/ y.says = what
<1> DEFINE s == <<x, y>>
<1>1. s \in Seq({x, y}) /\ Len(s) = 2 /\ s[1] = x /\ s[2] = y
  OBVIOUS
<1>2. SubSeq(s, 1, 2) = s
  <2> HIDE DEF s
  <2> QED BY <1>1, SubSeqFull
<1>3. SubSeq(s, 3, 2) = <<>>
  BY SubSeqEmpty
<1>4. SubSeq(s, 1, 1) = <<x>>
  <2> HIDE DEF s
  <2>1. /\ Len(SubSeq(s, 1, 1)) = 1 /\ SubSeq(s, 1, 1)[1] = x
        /\ SubSeq(s, 1, 1) \in Seq({x, y})
    BY <1>1, SubSeqProperties
  <2> DEFINE u == SubSeq(s, 1, 1)
             t == <<x>>
  <2>2. t \in Seq({x, y}) /\ Len(t) = 1 /\ t[1] = x
    OBVIOUS
  <2>3. u \in Seq({x, y}) /\ Len(u) = 1 /\ u[1] = x
    BY <2>1
  <2> HIDE DEF u, t
  <2>4. \A i \in 1..Len(u) : u[i] = t[i]
    BY <2>2, <2>3
  <2>5. u = t
    BY <2>2, <2>3, <2>4, SeqEqual
  <2> QED BY <2>5 DEF u, t
<1>5. \A what : Some(s, what) <=> x.says = what \/ y.says = what
  <2> HIDE DEF s
  <2>1. 1..Len(s) = {1, 2}
    BY <1>1
  <2> QED BY <1>1, <2>1 DEF Some
<1> QED BY <1>1, <1>2, <1>3, <1>4, <1>5

LEMMA PromptSays == Prompt.says = "prompt" /\ "prompt" \notin Printable
BY DEF Prompt, Says, Printable

\* A prompt is not part of the output.
LEMMA CleanPrompt == Clean(<<Prompt>>) = <<>>
<1> DEFINE read == <<Prompt>>
           Kept(f) == [n \in 0..Len(read) |->
                         IF n = 0 THEN <<>>
                         ELSE IF read[n].says \in Printable THEN Append(f[n - 1], read[n])
                                                            ELSE f[n - 1]]
           kept == CHOOSE f : f = Kept(f)
<1>1. Len(read) = 1 /\ read[1] = Prompt
  OBVIOUS
<1> HIDE DEF read
<1>2. \E f : f = Kept(f)
  <2> DEFINE w == [n \in 0..1 |-> <<>>]
  <2>1. w = Kept(w)
    BY <1>1, PromptSays
  <2> QED BY <2>1
<1>3. kept = Kept(kept)
  BY <1>2
<1> HIDE DEF kept
<1>4. kept[0] = <<>>
  BY <1>1, <1>3
<1>5. kept[1] = kept[0]
  BY <1>1, <1>3, PromptSays
<1>6. Clean(read) = kept[Len(read)]
  BY DEF Clean, Saying, kept
<1> QED BY <1>1, <1>4, <1>5, <1>6 DEF read

\* What has been printed is.
LEMMA CleanPrinted ==
    ASSUME NEW x, x.says \in Printable
    PROVE  Clean(<<x, Prompt>>) = <<x>>
<1> DEFINE read == <<x, Prompt>>
           Kept(f) == [n \in 0..Len(read) |->
                         IF n = 0 THEN <<>>
                         ELSE IF read[n].says \in Printable THEN Append(f[n - 1], read[n])
                                                            ELSE f[n - 1]]
           kept == CHOOSE f : f = Kept(f)
<1>1. Len(read) = 2 /\ read[1] = x /\ read[2] = Prompt
  OBVIOUS
<1> HIDE DEF read
<1>2. \E f : f = Kept(f)
  <2> DEFINE w == [n \in 0..2 |-> IF n = 0 THEN <<>> ELSE <<x>>]
  <2>1. w = Kept(w)
    BY <1>1, PromptSays
  <2> QED BY <2>1
<1>3. kept = Kept(kept)
  BY <1>2
<1> HIDE DEF kept
<1>4. \A n \in 0..2 : kept[n] = IF n = 0 THEN <<>>
                                  ELSE IF read[n].says \in Printable
                                       THEN Append(kept[n - 1], read[n]) ELSE kept[n - 1]
  BY <1>1, <1>3
<1>5. kept[0] = <<>>
  BY <1>4
<1>6. kept[1] = <<x>>
  <2>1. kept[1] = Append(kept[0], x)
    <3>1. 1 \in 0..2 /\ 1 # 0 /\ 1 - 1 = 0
      OBVIOUS
    <3>2. read[1].says \in Printable
      BY <1>1
    <3>3. kept[1] = Append(kept[1 - 1], read[1])
      BY <1>4, <3>1, <3>2
    <3> QED BY <1>1, <3>1, <3>3
  <2> QED BY <1>5, <2>1
<1>7. kept[2] = kept[1]
  BY <1>1, <1>4, PromptSays
<1>8. Clean(read) = kept[Len(read)]
  BY DEF Clean, Saying, kept
<1> QED BY <1>1, <1>6, <1>7, <1>8 DEF read

\* The stage that a command tells.
LEMMA StageOfLine ==
    ASSUME NEW at \in Stage, NEW c, Proper(c, at)
    PROVE  /\ c.do \in EnterDos <=> at = "enter"
           /\ c.do = "exit" <=> at = "unwind"
           /\ c.do \in ExecCommands => at = "script"
           /\ c.do = "copy" => c = Do("copy")
<1>1. c.do \in Dos(at) /\ (c.do = "copy" => c = Do("copy"))
  BY DEF Proper
<1> USE DEF Shows, EnterDos, BodyDos, DatabaseCommands, InterfaceCommands,
            GlobalCommands, Globals, VlanCommands, PortSettings, ExecCommands
<1>2. CASE at \in Reading
  BY <1>1, <1>2, DosOf DEF Reading
<1>3. CASE at = "enter"
  BY <1>1, <1>3, DosOf
<1>4. CASE at = "body"
  BY <1>1, <1>4, DosOf
<1>5. CASE at = "unwind"
  BY <1>1, <1>5, DosOf
<1>6. CASE at = "script"
  BY <1>1, <1>6, DosOf
<1>7. CASE at \in Resting
  BY <1>1, <1>7, DosOf
<1> QED BY <1>2, <1>3, <1>4, <1>5, <1>6, <1>7 DEF Stage

(***************************************************************************)
(* The depth that the call expects.                                        *)
(***************************************************************************)
LEMMA DepthOf ==
    ASSUME stage \in Stage
    PROVE  /\ stage = "enter"  => Depth = entered + (IF Entering THEN 1 ELSE 0)
           /\ stage = "body"   => Depth = entered
           /\ stage = "unwind" => Depth = Len(todo) + (IF Leaving THEN 1 ELSE 0)
           /\ stage \notin {"enter", "body", "unwind"} => Depth = 0
BY DEF Depth

-----------------------------------------------------------------------------
(***************************************************************************)
(* The session's side of the invariant, in step or not.                    *)
(***************************************************************************)
\* The command that Issue hands to run().
LEMMA NextCommand ==
    ASSUME StageFits, todo # <<>>
    PROVE  /\ Proper(Head(todo), stage) /\ Len(todo) = Len(Tail(todo)) + 1
           /\ Len(Tail(todo)) \in Nat
           /\ Head(todo) # NoLine /\ Head(todo) # Banner /\ Head(todo).do # "password"
<1>1. /\ Proper(Head(todo), stage)
      /\ Len(todo) \in Nat /\ Len(todo) > 0 /\ Len(Tail(todo)) = Len(todo) - 1
  BY BatchSplit DEF StageFits
<1>2. Head(todo) # NoLine /\ Head(todo) # Banner /\ Head(todo).do # "password"
  BY <1>1, ProperLine DEF StageFits
<1> QED BY <1>1, <1>2

LEMMA SessionInitially == Init => SessionFits
BY DEF Init, SessionInit, SessionFits, Idle, Waiting, FreshShell, Pending

LEMMA SessionRun ==
    ASSUME SessionFits, NEW c, c # NoLine, Run(c)
    PROVE  SessionFits'
<1>1. Idle /\ answer = Pending /\ ~Waiting /\ agenda = <<>>
  BY DEF Run, SessionFits, Waiting, Idle
<1>2. CASE RunOnDriver(c)
  BY <1>1, <1>2 DEF RunOnDriver, SendLine, SessionFits, Idle, Waiting
<1>3. CASE Connect(c) /\ driver' = "made"
  BY <1>1, <1>3, SetupLines DEF Connect, SessionFits, Idle, Waiting
<1>4. CASE Connect(c) /\ driver' # "made"
  <2>1. driver = "none" /\ answer' = Raised /\ awaiting' = c
        /\ UNCHANGED <<driver, back, agenda, shell, wire>>
    BY <1>4 DEF Connect
  <2>2. Raised # Pending /\ Raised.is # "returned"
    BY DEF Raised, Pending
  <2>3. ~Waiting' /\ ~Idle'
    BY <2>1, <2>2 DEF Waiting, Idle
  <2>4. /\ agenda' = <<>> /\ driver' = "none" /\ wire' = <<>> /\ back' = <<>>
        /\ shell' = FreshShell(shell'.config) /\ answer'.is # "returned"
    BY <1>1, <2>1, <2>2 DEF SessionFits
  <2> QED BY <2>3, <2>4 DEF SessionFits
<1> QED BY <1>2, <1>3, <1>4 DEF Run

LEMMA SessionTake ==
    ASSUME SessionFits, Take
    PROVE  SessionFits'
BY DEF SessionFits, Take, Idle, Waiting, Pending

LEMMA SessionRaises ==
    ASSUME SessionFits, Waiting, NEW how, how \in {Raised, Ended}, Raises(how)
    PROVE  SessionFits'
<1>1. how # Pending
  BY DEF Raised, Ended, Pending
<1> QED BY <1>1 DEF SessionFits, Raises, Waiting, Idle

LEMMA SessionExecutes ==
    ASSUME SessionFits, Executes
    PROVE  SessionFits'
BY DEF SessionFits, Executes, Waiting, Idle

LEMMA SessionClose ==
    ASSUME SessionFits, Close
    PROVE  SessionFits'
<1>1. shell' = FreshShell(shell'.config)
  BY DEF Close, FreshShell
<1>2. Pending.is # "returned"
  BY DEF Pending
<1> QED BY <1>1, <1>2 DEF SessionFits, Close, Waiting, Idle

LEMMA SessionReceive ==
    ASSUME SessionFits, StageFits, Steady, Receive
    PROVE  SessionFits'
<1>1. Waiting /\ driver # "none"
  BY DEF Receive, SessionFits
<1>2. PICK read : \/ Raises(Raised) \/ Reply
                  \/ Return(read) /\ agenda = <<>>
                  \/ \E asked \in BOOLEAN : SetupGoesOn(asked) /\ agenda # <<>>
  BY DEF Receive, Deals
<1>3. CASE Raises(Raised)
  BY <1>1, <1>3, SessionRaises
<1>4. CASE Reply
  BY <1>1, <1>4 DEF Reply, SessionFits, Waiting, Idle
<1>5. CASE Return(read) /\ agenda = <<>>
  <2>1. Returned(Clean(read)) # Pending
    BY DEF Returned, Pending
  <2> QED BY <1>1, <1>5, <2>1 DEF Return, SessionFits, Waiting, Idle
<1>6. ASSUME NEW asked \in BOOLEAN, SetupGoesOn(asked), agenda # <<>> PROVE SessionFits'
  <2>1. ~torn
    BY <1>6 DEF SessionFits
  <2>2. AgendaFits
    BY <1>1, <2>1 DEF Steady, Sound, ChannelFits
  <2>3. NextLine(asked) # NoLine
    <3>1. Proper(agenda[1], stage) \/ agenda[1] \in {Do("enable"), Do("paging")}
      BY <1>6, <2>2 DEF AgendaFits
    <3>2. agenda[1] # NoLine
      BY <3>1, ProperLine, SetupLines DEF StageFits
    <3> QED BY <3>2, SetupLines DEF NextLine
  <2> QED BY <1>1, <1>6, <2>1, <2>3 DEF SetupGoesOn, SendLine, SessionFits, Waiting, Idle
<1> QED BY <1>2, <1>3, <1>4, <1>5, <1>6

LEMMA SessionStep ==
    ASSUME StageFits, SessionFits, Steady, [Next]_vars
    PROVE  SessionFits'
<1>1. CASE Invoke \/ Turn \/ UNCHANGED vars
  <2>1. UNCHANGED sessionVars
    BY <1>1 DEF Invoke, Turn, vars
  <2> QED BY <2>1 DEF sessionVars, SessionFits, Idle, Waiting
<1>2. CASE Issue
  BY <1>2, NextCommand, SessionRun DEF Issue
<1>3. CASE Use
  BY <1>3, SessionTake DEF Use
<1>4. CASE Session
  <2>1. CASE Executes
    BY <2>1, SessionExecutes
  <2>2. CASE Receive
    BY <2>2, SessionReceive
  <2>3. CASE TimesOut
    BY <2>3, SessionRaises DEF TimesOut
  <2>4. CASE StreamEnds
    BY <2>4, SessionRaises DEF StreamEnds
  <2>5. CASE Close
    BY <2>5, SessionClose
  <2> QED BY <1>4, <2>1, <2>2, <2>3, <2>4, <2>5 DEF Session
<1> QED BY <1>1, <1>2, <1>3, <1>4 DEF Next

-----------------------------------------------------------------------------
(***************************************************************************)
(* In step: the call's steps.                                              *)
(***************************************************************************)
InStepNow ==
    /\ IsShell(shell)
    /\ ChannelFits
    /\ Len(shell.modes) = Depth

LEMMA FreshIsShell ==
    ASSUME NEW f
    PROVE  /\ IsShell(FreshShell(f)) /\ FreshShell(f).modes = <<>>
           /\ Len(FreshShell(f).modes) = 0
           /\ FreshShell(f).asking = "nothing" /\ FreshShell(f).down = FALSE
BY DEF IsShell, FreshShell

LEMMA SteadyInit == Init => Steady
<1> SUFFICES ASSUME Init PROVE Steady
  OBVIOUS
<1>1. PICK f : shell = FreshShell(f)
  BY DEF Init, SessionInit
<1>2. /\ wire = <<>> /\ back = <<>> /\ awaiting = NoLine /\ driver = "none"
      /\ stage = "idle"
  BY DEF Init, SessionInit
<1>3. ChannelFits
  BY <1>1, <1>2, FreshIsShell DEF ChannelFits, Waiting, Idle, Pipe
<1>4. Depth = 0
  BY <1>2, DepthOf DEF Stage, Resting
<1> QED BY <1>1, <1>3, <1>4, FreshIsShell DEF Steady

\* Between two commands nothing is under way and nothing is hidden.
LEMMA AtRest ==
    ASSUME StageFits, SessionFits, Idle
    PROVE  /\ ~Waiting /\ answer = Pending /\ agenda = <<>> /\ ~Entering /\ ~Leaving
           /\ stage = "enter" => Depth = entered
           /\ stage = "body"   => Depth = entered
           /\ stage = "unwind" => Depth = Len(todo)
           /\ stage \notin {"enter", "body", "unwind"} => Depth = 0
<1>1. /\ ~Waiting /\ answer = Pending /\ agenda = <<>> /\ ~Entering /\ ~Leaving
  BY DEF SessionFits, Waiting, Idle, Entering, Leaving
<1>2. stage \in Stage /\ entered \in Nat /\ Len(todo) \in Nat
  BY DEF StageFits, Batch
<1> QED BY <1>1, <1>2, DepthOf

\* A step of the call that leaves the session alone.
LEMMA SteadyAside ==
    ASSUME StageFits, SessionFits, Steady, StageFits', SessionFits',
           Idle, UNCHANGED sessionVars, Depth' = Depth
    PROVE  Steady'
<1>1. /\ UNCHANGED <<shell, wire, back, driver, agenda, awaiting, answer, torn>>
  BY DEF sessionVars
<1>2. SUFFICES ASSUME Sound' PROVE IsShell(shell)' /\ ChannelFits' /\ (Len(shell.modes) = Depth)'
  BY DEF Steady
<1>3. Sound
  BY <1>1, <1>2 DEF Sound
<1>4. IsShell(shell) /\ ChannelFits /\ Len(shell.modes) = Depth
  BY <1>3 DEF Steady
<1>5. ~Waiting /\ ~Waiting' /\ Idle'
  BY <1>1 DEF Waiting, Idle
<1>6. Pipe(<<>>, <<>>, "nothing", FALSE)' /\ (driver # "none" => driver = "ready")'
  BY <1>1, <1>4, <1>5 DEF ChannelFits, Pipe
<1>7. answer' = Pending
  BY <1>5 DEF SessionFits
<1>8. ChannelFits'
  BY <1>5, <1>6, <1>7 DEF ChannelFits
<1> QED BY <1>1, <1>4, <1>8 DEF IsShell

LEMMA SteadyInvoke ==
    ASSUME StageFits, SessionFits, Steady, StageFits', SessionFits', Invoke
    PROVE  Steady'
<1>1. UNCHANGED sessionVars /\ Idle /\ Idle' /\ stage \in Resting
  BY DEF Invoke, sessionVars, Idle
<1>2. stage' \in {"refused", "script", "before"}
  BY DEF Invoke, Begin, GoTo
<1>3. Depth = 0
  BY <1>1, AtRest DEF Resting
<1>4. Depth' = 0
  <2>1. stage' \in Stage /\ stage' \notin {"enter", "body", "unwind"}
    BY <1>2 DEF Stage, Resting, Reading
  <2> QED BY <2>1 DEF Depth
<1> QED BY <1>1, <1>3, <1>4, SteadyAside

LEMMA SteadyTurn ==
    ASSUME StageFits, SessionFits, Steady, StageFits', SessionFits', Turn
    PROVE  Steady'
<1>1. /\ UNCHANGED sessionVars /\ Idle /\ Idle' /\ stage \notin Resting /\ todo = <<>>
  BY DEF Turn, sessionVars, Idle
<1>2. /\ stage = "enter" => Depth = entered
      /\ stage = "body"   => Depth = entered
      /\ stage \notin {"enter", "body"} => Depth = 0
  BY <1>1, AtRest
<1>3. /\ stage' = "enter" => Depth' = entered'
      /\ stage' = "body"   => Depth' = entered'
      /\ stage' = "unwind" => Depth' = Len(todo')
      /\ stage' \notin {"enter", "body", "unwind"} => Depth' = 0
  <2>1. ~Entering' /\ ~Leaving' /\ stage' \in Stage /\ entered' \in Nat /\ Len(todo') \in Nat
    BY <1>1 DEF Entering, Leaving, Waiting, Idle, StageFits, Batch
  <2> QED BY <2>1 DEF Depth
<1>4. stage \notin {"enter", "body", "unwind"} => entered = 0
  BY DEF StageFits
<1>5. Depth' = Depth
  <2>1. CASE stage \in {"before", "pvids", "after", "farewell", "script", "unwind"}
             /\ stage' \notin {"enter", "body", "unwind"}
    BY <2>1, <1>2, <1>3
  <2>2. CASE stage \in {"before", "pvids"} /\ stage' = "enter" /\ entered' = entered
    BY <2>2, <1>2, <1>3, <1>4
  <2>3. CASE stage = "enter" /\ stage' = "body" /\ entered' = entered
    BY <2>3, <1>2, <1>3
  <2>4. CASE stage = "body" /\ Unwind(FALSE)
    <3>1. stage' = "unwind" /\ Len(todo') = entered
      BY <2>4, StageUnwind DEF Turn
    <3> QED BY <2>4, <3>1, <1>2, <1>3
  <2> QED
    <3>1. CASE stage = "before"
      BY <3>1, <2>1, <2>2 DEF Turn, Prepare, End, GoTo
    <3>2. CASE stage = "after"
      BY <3>2, <2>1 DEF Turn, Judge, End, GoTo
    <3>3. CASE stage = "pvids"
      BY <3>3, <2>2 DEF Turn, GoTo
    <3>4. CASE stage = "enter"
      BY <3>4, <2>3 DEF Turn, GoTo
    <3>5. CASE stage = "body"
      BY <3>5, <2>4 DEF Turn
    <3>6. CASE stage \in {"unwind", "farewell", "script"}
      BY <3>6, <2>1 DEF Turn, Unwound, End, GoTo
    <3> QED BY <1>1, <3>1, <3>2, <3>3, <3>4, <3>5, <3>6 DEF StageFits, Stage, Reading
<1> QED BY <1>1, <1>5, SteadyAside

\* A command is written to a session that is ready.
LEMMA SteadySend ==
    ASSUME StageFits, SessionFits, Steady, SessionFits', Issue, RunOnDriver(Head(todo))
    PROVE  Steady'
<1> DEFINE c == Head(todo)
<1>1. SUFFICES ASSUME Sound' PROVE IsShell(shell)' /\ ChannelFits' /\ (Len(shell.modes) = Depth)'
  BY DEF Steady
<1>2. /\ driver # "none" /\ wire' = wire \o Lines(c) /\ awaiting' = c
      /\ UNCHANGED <<shell, back, driver, agenda, answer, torn, stage, entered>>
      /\ todo' = Tail(todo) /\ todo # <<>> /\ Idle
  BY DEF Issue, RunOnDriver, SendLine, Run
<1>3. Sound
  BY <1>1, <1>2 DEF Sound
<1>4. /\ Proper(c, stage) /\ Len(todo) = Len(Tail(todo)) + 1 /\ Len(Tail(todo)) \in Nat
      /\ c # NoLine /\ c # Banner /\ c.do # "password"
  BY <1>2, NextCommand
<1>5. ~Waiting /\ answer = Pending /\ agenda = <<>>
  BY <1>2, AtRest
<1>6. Pipe(<<>>, <<>>, "nothing", FALSE) /\ driver = "ready" /\ IsShell(shell)
      /\ Len(shell.modes) = Depth
  BY <1>2, <1>3, <1>5 DEF Steady, ChannelFits
<1> HIDE DEF c
<1>7. Lines(c) # <<>> /\ wire' = Lines(c)
  BY <1>2, <1>6 DEF Pipe, Lines
<1>8. Waiting' /\ ~Idle'
  BY <1>2, <1>4, <1>5 DEF Waiting, Idle
<1>9. AgendaFits'
  BY <1>2, <1>4, <1>5, <1>6 DEF AgendaFits
<1>10. InFlight'
  <2>1. Sent'
    BY <1>2, <1>4, <1>6, <1>7 DEF Sent, Pipe
  <2> QED BY <2>1 DEF InFlight
<1>11. Depth' = Depth
  <2>1. ~Entering' /\ Leaving'
    <3>1. back' = <<>> /\ answer' = Pending /\ Pending.is # "returned"
      BY <1>2, <1>5, <1>6 DEF Pipe, Pending
    <3> QED BY <3>1, <1>7, <1>8 DEF Entering, Leaving, Shown
  <2>2. stage \in Stage /\ entered \in Nat
    BY DEF StageFits
  <2> QED BY <1>2, <1>4, <2>1, <2>2, AtRest DEF Depth
<1> QED BY <1>2, <1>6, <1>8, <1>9, <1>10, <1>11 DEF IsShell, ChannelFits

\* A command connects first, or fails to.
LEMMA SteadyConnect ==
    ASSUME StageFits, SessionFits, Steady, SessionFits', Issue, Connect(Head(todo))
    PROVE  Steady'
<1> DEFINE c == Head(todo)
<1>1. /\ driver = "none" /\ UNCHANGED <<shell, wire, stage, entered>>
      /\ todo' = Tail(todo) /\ todo # <<>> /\ Idle
  BY DEF Issue, Connect, Run
<1>2. /\ Proper(c, stage) /\ Len(todo) = Len(Tail(todo)) + 1 /\ Len(Tail(todo)) \in Nat
      /\ c # NoLine /\ c # Banner /\ c.do # "password"
  BY <1>1, NextCommand
<1>3. ~Waiting /\ answer = Pending /\ agenda = <<>>
  BY <1>1, AtRest
<1>4. /\ wire = <<>> /\ back = <<>> /\ shell = FreshShell(shell.config)
      /\ Len(shell.modes) = Depth
  BY <1>1 DEF SessionFits, Steady, Sound
<1>5. IsShell(shell') /\ Len(shell'.modes) = 0 /\ shell'.asking = "nothing" /\ shell'.down = FALSE
  BY <1>1, <1>4, FreshIsShell
<1>6. Depth = 0
  BY <1>1, <1>4, <1>5
<1>7. stage \in Stage /\ entered \in Nat
  BY DEF StageFits
<1> HIDE DEF c
<1>8. CASE /\ driver' = "made" /\ back' = <<Prompt>> /\ awaiting' = Banner
           /\ agenda' = <<Do("enable"), Do("paging"), c>> /\ UNCHANGED answer
  <2>1. Waiting' /\ agenda' # <<>> /\ agenda'[3] = c
    BY <1>3, <1>8, SetupLines DEF Waiting
  <2>2. AgendaFits'
    BY <1>1, <1>2, <1>8, <2>1 DEF AgendaFits
  <2>3. Prompted'
    BY <1>1, <1>4, <1>5, <1>8, DoIs DEF Prompted, Pipe, Banner
  <2>4. ChannelFits'
    BY <2>1, <2>2, <2>3 DEF ChannelFits, InFlight
  <2>5. Depth' = 0
    <3>1. ~Entering' /\ Leaving'
      BY <2>1 DEF Entering, Leaving
    <3> QED BY <1>1, <1>2, <1>6, <1>7, <3>1, AtRest DEF Depth
  <2> QED BY <1>5, <2>4, <2>5 DEF Steady, IsShell
<1>9. CASE answer' = Raised /\ awaiting' = c /\ UNCHANGED <<driver, back, agenda>>
  <2>1. ~Waiting' /\ ~Idle' /\ answer'.is # "returned" /\ agenda' = <<>>
    BY <1>2, <1>3, <1>9 DEF Waiting, Idle, Raised, Pending
  <2>2. Finished'
    BY <1>1, <1>2, <1>9, <2>1 DEF Finished
  <2>3. Pipe(<<>>, <<>>, "nothing", FALSE)'
    BY <1>1, <1>4, <1>5, <1>9 DEF Pipe
  <2>4. ChannelFits'
    BY <1>1, <1>9, <2>1, <2>2, <2>3 DEF ChannelFits
  <2>5. Depth' = 0
    <3>1. ~Entering' /\ ~Leaving'
      BY <1>4, <1>9, <2>1 DEF Entering, Leaving, Shown
    <3> QED BY <1>1, <1>2, <1>6, <1>7, <3>1, AtRest DEF Depth
  <2> QED BY <1>5, <2>4, <2>5 DEF Steady, IsShell
<1> QED BY <1>8, <1>9 DEF Connect, c

LEMMA SteadyIssue ==
    ASSUME StageFits, SessionFits, Steady, SessionFits', Issue
    PROVE  Steady'
BY SteadySend, SteadyConnect DEF Issue, Run

\* What the command has answered, in step.
LEMMA Judged ==
    ASSUME StageFits, SessionFits, InStepNow, answer # Pending
    PROVE  /\ ~Waiting /\ ~Idle /\ agenda = <<>> /\ ~Leaving
           /\ Pipe(<<>>, <<>>, "nothing", FALSE) /\ Finished
           /\ driver # "none" => driver = "ready" /\ ~Broken
           /\ stage = "enter" => (Accepted <=> Entering)
<1>1. ~Waiting /\ ~Idle /\ agenda = <<>> /\ ~Leaving
  BY DEF SessionFits, Waiting, Idle, Leaving
<1>2. Pipe(<<>>, <<>>, "nothing", FALSE) /\ Finished
  BY <1>1 DEF InStepNow, ChannelFits
<1>3. driver # "none" => driver = "ready" /\ ~Broken
  BY <1>1 DEF InStepNow, ChannelFits, Broken
<1>4. ASSUME stage = "enter" PROVE Accepted <=> Entering
  <2>1. awaiting.do \in EnterDos
    BY <1>2, <1>4, DosOf DEF Finished, Proper
  <2>2. CASE answer.is # "returned"
    <3>1. Shown = <<>>
      BY <1>2, <2>2 DEF Shown, Pipe
    <3> QED BY <2>2, <3>1 DEF Accepted, Entering
  <2>3. CASE answer.is = "returned"
    <3>1. /\ answer = Returned(<<answer.texts[1]>>) /\ answer.texts[1].of = awaiting
      BY <1>2, <2>1, <2>3 DEF Finished, EnterDos, ExecCommands
    <3>2. PICK x : x = answer.texts[1]
      OBVIOUS
    <3>3. answer.texts = <<x>> /\ x.of = awaiting /\ answer.texts # <<>> /\ Len(answer.texts) = 1
          /\ answer.texts[1] = x
      BY <3>1, <3>2 DEF Returned
    <3>4. Accepted <=> x.says = "nothing"
      BY <2>3, <3>3 DEF Accepted, IsEmpty
    <3>5. Entering <=> x.says = "nothing"
      BY <1>1, <2>3, <3>3 DEF Entering, Shown
    <3> QED BY <3>4, <3>5
  <2> QED BY <2>2, <2>3
<1> QED BY <1>1, <1>2, <1>3, <1>4

LEMMA SteadyUse ==
    ASSUME StageFits, SessionFits, Steady, StageFits', SessionFits', Use
    PROVE  Steady'
<1>1. SUFFICES ASSUME Sound' PROVE IsShell(shell)' /\ ChannelFits' /\ (Len(shell.modes) = Depth)'
  BY DEF Steady
<1>2. /\ answer # Pending /\ answer' = Pending /\ Idle'
      /\ UNCHANGED <<shell, wire, back, driver, agenda, torn>>
  BY DEF Use, Take, Idle
<1>3. Sound
  BY <1>1, <1>2 DEF Sound
<1>4. InStepNow
  BY <1>3 DEF Steady, InStepNow
<1>5. /\ ~Waiting /\ ~Idle /\ agenda = <<>> /\ ~Leaving
      /\ Pipe(<<>>, <<>>, "nothing", FALSE) /\ Finished
      /\ driver # "none" => driver = "ready" /\ ~Broken
      /\ stage = "enter" => (Accepted <=> Entering)
  BY <1>2, <1>4, Judged
<1>6. ChannelFits'
  BY <1>2, <1>5 DEF ChannelFits, Pipe, Waiting, Idle
<1>7. ~Entering' /\ ~Leaving'
  BY <1>2 DEF Entering, Leaving, Waiting, Idle
<1>8. stage \in Stage /\ stage' \in Stage /\ entered \in Nat /\ entered' \in Nat
      /\ Len(todo) \in Nat /\ Len(todo') \in Nat
  BY DEF StageFits, Batch
<1>9. /\ stage' = "enter" => Depth' = entered'
      /\ stage' = "body"   => Depth' = entered'
      /\ stage' = "unwind" => Depth' = Len(todo')
      /\ stage' \notin {"enter", "body", "unwind"} => Depth' = 0
  BY <1>7, <1>8 DEF Depth
<1>10. Len(shell.modes) = Depth
  BY <1>4 DEF InStepNow
<1>11. Depth' = Depth
  <2>1. CASE stage \in Reading /\ ~Broken
    <3>1. stage' = stage
      BY <2>1 DEF Use, Reading
    <3> QED BY <2>1, <3>1, <1>8, <1>9, DepthOf DEF Reading
  <2>2. CASE stage = "enter" /\ Accepted
    <3>1. stage' = stage /\ entered' = entered + 1
      BY <2>2 DEF Use, Reading
    <3> QED BY <2>2, <3>1, <1>5, <1>8, <1>9, DepthOf
  <2>3. CASE stage \in {"enter", "body"} /\ ~Accepted
    <3>1. Unwind(TRUE) /\ UNCHANGED call
      BY <2>3 DEF Use, Reading, callVars
    <3>2. stage' = "unwind" /\ Len(todo') = entered
      BY <2>3, <3>1, StageUnwind
    <3> QED BY <2>3, <3>2, <1>5, <1>8, <1>9, DepthOf
  <2>4. CASE stage \in Reading \cup {"unwind", "script"} /\ Broken
    <3>1. Escapes(answer)
      BY <2>4 DEF Use, Reading
    <3>2. stage' \in Resting
      BY <3>1 DEF Escapes, End, GoTo, Resting
    <3>3. Depth' = 0
      BY <3>2, <1>9 DEF Resting
    <3>4. driver = "none"
      BY <2>4, <1>5
    <3>5. Len(shell.modes) = 0
      BY <3>4, FreshIsShell DEF SessionFits
    <3> QED BY <3>3, <3>5, <1>10
  <2>5. CASE \/ stage = "body" /\ Accepted
             \/ stage \in {"unwind", "script"} /\ ~Broken
    <3>1. UNCHANGED <<stage, todo, entered>>
      BY <2>5 DEF Use, Reading
    <3> QED BY <2>5, <3>1, <1>5, <1>8, <1>9, DepthOf
  <2>6. CASE stage \in Resting
    BY <2>6, <1>5 DEF StageFits
  <2> QED BY <1>8, <2>1, <2>2, <2>3, <2>4, <2>5, <2>6 DEF Stage
<1> QED BY <1>2, <1>4, <1>6, <1>10, <1>11 DEF InStepNow, IsShell

-----------------------------------------------------------------------------
(***************************************************************************)
(* In step: the switch's steps.                                            *)
(***************************************************************************)
\* A line is under way, in step.
Underway ==
    /\ StageFits /\ InStepNow /\ Waiting /\ driver # "none"
    /\ AgendaFits

\* The line is one of the setup, or the call's own.
LEMMA LineKinds ==
    ASSUME StageFits, AgendaFits
    PROVE  \/ awaiting = Banner /\ agenda # <<>>
           \/ awaiting \in {Do("enable"), Do("password"), Do("paging")} /\ agenda # <<>>
           \/ /\ Proper(awaiting, stage) /\ agenda = <<>> /\ driver = "ready"
              /\ awaiting.do \notin {"none", "banner", "enable", "password", "paging", "yes"}
              /\ awaiting.do = "copy" => awaiting = Do("copy")
              /\ awaiting.do \in EnterDos <=> stage = "enter"
              /\ awaiting.do = "exit" <=> stage = "unwind"
              /\ awaiting.do \in ExecCommands => stage = "script"
              /\ awaiting.do \in Shows \cup EnterDos \cup BodyDos
                                   \cup {"exit", "https", "copy", "save", "reload"}
<1>1. CASE Proper(awaiting, stage) /\ agenda = <<>> /\ driver = "ready"
  <2>1. stage \in Stage
    BY DEF StageFits
  <2> QED BY <1>1, <2>1, ProperLine, StageOfLine
<1>2. CASE ~(Proper(awaiting, stage) /\ agenda = <<>> /\ driver = "ready")
  BY <1>2 DEF AgendaFits
<1> QED BY <1>1, <1>2

\* While the agenda is not done, the depth does not depend on the channel.
LEMMA DepthInSetup ==
    ASSUME StageFits, Waiting, agenda # <<>>, Waiting', agenda' # <<>> \/ wire' # <<>>,
           agenda' # <<>> \/ (back' = <<>> /\ answer' = Pending), UNCHANGED <<stage, todo, entered>>
    PROVE  Depth' = Depth
<1>1. ~Entering /\ Leaving
  BY DEF Entering, Leaving
<1>2. ~Entering' /\ Leaving'
  BY DEF Entering, Leaving, Shown, Pending
<1> QED BY <1>1, <1>2 DEF StageFits, Depth

\* What is under way of a line that has been executed to the end.
LEMMA PrintoutAfter ==
    ASSUME NEW x, wire' = <<>>, back' = <<x, Prompt>>, shell'.asking = "nothing",
           shell'.down = FALSE, x.of = awaiting', x.says \in Printable \ {"password"},
           Replies' => x.says # "question"
    PROVE  InFlight'
<1>1. back' # <<>> /\ back'[1] = x /\ back' = <<back'[1], Prompt>>
  OBVIOUS
<1>2. Printout'
  BY <1>1 DEF Printout, Pipe
<1> QED BY <1>2 DEF InFlight

\* What is written for a command.
LEMMA LinesOf ==
    ASSUME NEW c
    PROVE  /\ Lines(c) # <<>> /\ Head(Lines(c)) = c
           /\ c.do \notin {"reload", "save"} => Lines(c) = <<c>> /\ Tail(Lines(c)) = <<>>
           /\ Lines(c) = <<c>> \/ Lines(c) = <<c, Do("yes")>>
           /\ Tail(Lines(c)) = <<>> \/ Tail(Lines(c)) = <<Do("yes")>>
           /\ Len(Lines(c)) = 2 => Lines(c) = <<c, Do("yes")>>
BY DEF Lines

\* The line is executed.
LEMMA ExecutesSent ==
    ASSUME SessionFits, Underway, Sent, Executes, UNCHANGED <<stage, todo, entered>>
    PROVE  InStepNow'
<1> DEFINE a == awaiting
<1>1. /\ wire = Lines(a) /\ back = <<>> /\ shell.asking = "nothing" /\ shell.down = FALSE
      /\ a # Banner /\ a.do # "password"
      /\ IsShell(shell) /\ Len(shell.modes) = Depth /\ answer = Pending
  BY DEF Sent, Pipe, Underway, InStepNow, Waiting
<1>2. PICK done \in BOOLEAN :
        /\ shell' = Execute(shell, Head(wire), done).shell
        /\ back' = back \o Execute(shell, Head(wire), done).out
        /\ wire' = IF Execute(shell, Head(wire), done).shell.down THEN <<>> ELSE Tail(wire)
  BY DEF Executes
<1>3. /\ shell' = Execute(shell, a, done).shell
      /\ back' = <<>> \o Execute(shell, a, done).out
      /\ ~shell'.down => wire' = Tail(Lines(a))
  BY <1>1, <1>2, LinesOf
<1>4. UNCHANGED <<driver, agenda, awaiting, answer, torn, stage, todo, entered>>
  BY DEF Executes
<1>5. Waiting' /\ AgendaFits' /\ Waiting
  BY <1>4 DEF Underway, Waiting, AgendaFits
<1>6. stage \in Stage /\ entered \in Nat /\ Len(todo) \in Nat /\ StageFits
  BY DEF Underway, StageFits, Batch
<1> HIDE DEF a
<1>7. ASSUME NEW t, NEW x, Execute(shell, a, done).shell = t,
             Execute(shell, a, done).out = <<x, Prompt>>, Prints(shell, a, t, x),
             x.says \in {"nothing", "error", "table"}, a.do \notin {"reload", "save"}
      PROVE  /\ InFlight' /\ IsShell(shell') /\ shell' = t /\ wire' = <<>> /\ back' = <<x, Prompt>>
             /\ back' # <<>> /\ back'[1] = x
  <2>1. shell' = t /\ IsShell(t) /\ t.asking = "nothing" /\ t.down = FALSE /\ x.of = a
    BY <1>1, <1>3, <1>7 DEF Prints
  <2>2. back' = <<x, Prompt>> /\ wire' = <<>>
    <3>1. back' = <<>> \o <<x, Prompt>>
      BY <1>3, <1>7
    <3>2. wire' = <<>>
      BY <1>3, <1>7, <2>1, LinesOf
    <3> QED BY <3>1, <3>2
  <2>3. InFlight'
    BY <1>4, <1>7, <2>1, <2>2, PrintoutAfter DEF Printable, a
  <2> QED BY <2>1, <2>2, <2>3
<1>8. ASSUME InFlight', IsShell(shell'), Len(shell'.modes) = Depth'
      PROVE  InStepNow'
  BY <1>5, <1>8 DEF InStepNow, IsShell, ChannelFits
<1>9. CASE a = Do("paging") /\ agenda # <<>>
  <2>1. a.do \in PlainDos
    BY <1>9, DoIs DEF PlainDos
  <2>2. PICK t, x : /\ Execute(shell, a, done).shell = t
                    /\ Execute(shell, a, done).out = <<x, Prompt>>
                    /\ Prints(shell, a, t, x) /\ t.modes = shell.modes
                    /\ x.says \in {"nothing", "error", "table"}
    BY <1>1, <2>1, PlainPrints
  <2>3. InFlight' /\ IsShell(shell') /\ shell' = t
    BY <1>7, <1>9, <2>2, DoIs
  <2>4. Depth' = Depth
    BY <1>4, <1>5, <1>6, <1>9, DepthInSetup
  <2> QED BY <1>1, <1>8, <2>2, <2>3, <2>4
<1>10. CASE a = Do("enable") /\ agenda # <<>>
  <2>1. a.do = "enable" /\ Lines(a) = <<a>>
    BY <1>10, DoIs, LinesOf
  <2>2. /\ IsShell(shell') /\ shell'.modes = shell.modes /\ shell'.down = FALSE
        /\ \/ shell'.asking = "enable" /\ back' = <<Says(a, "password")>>
           \/ shell'.asking = "nothing" /\ back' = <<Says(a, "nothing"), Prompt>>
    BY <1>1, <1>3, <2>1, EnablePrints
  <2>3. wire' = <<>>
    BY <1>3, <2>1, <2>2
  <2>4. CASE shell'.asking = "enable" /\ back' = <<Says(a, "password")>>
    <3>1. Asked'
      BY <1>4, <2>1, <2>2, <2>3, <2>4 DEF Asked, Pipe, a
    <3>2. InFlight'
      BY <3>1 DEF InFlight
    <3>3. Depth' = Depth
      BY <1>4, <1>5, <1>6, <1>10, DepthInSetup
    <3> QED BY <1>1, <1>8, <2>2, <3>2, <3>3
  <2>5. CASE shell'.asking = "nothing" /\ back' = <<Says(a, "nothing"), Prompt>>
    <3>1. Says(a, "nothing").of = awaiting' /\ Says(a, "nothing").says = "nothing"
      BY <1>4 DEF Says, a
    <3>2. InFlight'
      BY <2>2, <2>3, <2>5, <3>1, PrintoutAfter DEF Printable
    <3>3. Depth' = Depth
      BY <1>4, <1>5, <1>6, <1>10, DepthInSetup
    <3> QED BY <1>1, <1>8, <2>2, <3>2, <3>3
  <2> QED BY <2>2, <2>4, <2>5
<1>11. CASE /\ a.do \in Shows \cup BodyDos \cup {"https"}
            /\ agenda = <<>> /\ stage \notin {"enter", "unwind"}
  <2>1. a.do \in PlainDos /\ a.do \notin {"reload", "save"}
    BY <1>11 DEF PlainDos, Shows, BodyDos, DatabaseCommands, InterfaceCommands, GlobalCommands,
                 Globals, VlanCommands, PortSettings
  <2>2. PICK t, x : /\ Execute(shell, a, done).shell = t
                    /\ Execute(shell, a, done).out = <<x, Prompt>>
                    /\ Prints(shell, a, t, x) /\ t.modes = shell.modes
                    /\ x.says \in {"nothing", "error", "table"}
    BY <1>1, <2>1, PlainPrints
  <2>3. InFlight' /\ IsShell(shell') /\ shell' = t
    BY <1>7, <2>1, <2>2
  <2>4. Depth' = Depth
    BY <1>4, <1>6, <1>11 DEF Depth
  <2> QED BY <1>1, <1>8, <2>2, <2>3, <2>4
<1>12. CASE a.do \in EnterDos /\ agenda = <<>> /\ stage = "enter"
  <2>1. a.do \notin {"reload", "save"}
    BY <1>12 DEF EnterDos
  <2>2. PICK t, x : /\ Execute(shell, a, done).shell = t
                    /\ Execute(shell, a, done).out = <<x, Prompt>>
                    /\ Prints(shell, a, t, x)
                    /\ \/ x.says = "nothing" /\ Len(t.modes) = Len(shell.modes) + 1
                       \/ x.says = "error" /\ t.modes = shell.modes
    BY <1>1, <1>12, EnterPrints
  <2>3. InFlight' /\ IsShell(shell') /\ shell' = t /\ back' # <<>> /\ back'[1] = x
    BY <1>7, <2>1, <2>2
  <2>4. ~Entering
    BY <1>1 DEF Entering, Shown, Pending
  <2>5. Entering' <=> x.says = "nothing"
    BY <1>1, <1>4, <1>5, <1>12, <2>3 DEF Entering, Shown, Pending, Waiting, Idle
  <2>6. Depth = entered /\ Depth' = entered + (IF x.says = "nothing" THEN 1 ELSE 0)
    BY <1>4, <1>6, <1>12, <2>4, <2>5 DEF Depth
  <2> QED BY <1>1, <1>6, <1>8, <2>2, <2>3, <2>6
<1>13. CASE a.do = "exit" /\ agenda = <<>> /\ stage = "unwind"
  <2>1. Leaving
    BY <1>1, <1>5, LinesOf DEF Leaving
  <2>2. Depth = Len(todo) + 1
    BY <1>6, <1>13, <2>1 DEF Depth
  <2>3. shell.modes # <<>>
    BY <1>1, <1>6, <2>2
  <2>4. PICK t, x : /\ Execute(shell, a, done).shell = t
                    /\ Execute(shell, a, done).out = <<x, Prompt>>
                    /\ Prints(shell, a, t, x) /\ x.says = "nothing"
                    /\ Len(t.modes) = Len(shell.modes) - 1
    BY <1>1, <1>13, <2>3, ExitPrints
  <2>5. InFlight' /\ IsShell(shell') /\ shell' = t /\ wire' = <<>>
    BY <1>7, <1>13, <2>4
  <2>6. ~Leaving'
    BY <1>4, <1>13, <2>5 DEF Leaving
  <2>7. Depth' = Len(todo)
    BY <1>4, <1>6, <1>13, <2>6 DEF Depth
  <2> QED BY <1>1, <1>6, <1>8, <2>2, <2>4, <2>5, <2>7
<1>14. CASE a.do \in ExecCommands /\ agenda = <<>> /\ stage = "script"
  <2>1. Depth = 0 /\ Depth' = 0
    BY <1>4, <1>6, <1>14 DEF Depth
  <2>2. shell.modes = <<>>
    BY <1>1, <2>1 DEF IsShell
  <2>3. /\ IsShell(shell') /\ shell'.modes = shell.modes /\ shell'.down = FALSE
        /\ \/ shell'.asking = a.do /\ back' = <<Says(a, "question")>>
           \/ /\ a.do = "copy" /\ shell'.asking = "nothing"
              /\ back' = <<Says(a, "error"), Prompt>>
    BY <1>1, <1>3, <1>14, <2>2, QuestionPrints
  <2>4. wire' = Tail(Lines(a))
    BY <1>3, <2>3
  <2>5. CASE shell'.asking = a.do /\ back' = <<Says(a, "question")>>
    <3>1. CASE Replies
      <4>1. Lines(a) = <<a>> /\ Replies'
        BY <1>4, <3>1 DEF Replies, Lines, a
      <4>2. Asked'
        BY <1>4, <2>3, <2>4, <2>5, <4>1 DEF Asked, Pipe, a
      <4> QED BY <1>1, <1>8, <2>1, <2>3, <4>2 DEF InFlight
    <3>2. CASE ~Replies
      <4>1. Lines(a) = <<a, Do("yes")>>
        BY <1>14, <3>2 DEF Replies, Lines, ExecCommands, a
      <4>2. Stuffed'
        BY <1>4, <2>3, <2>4, <2>5, <4>1 DEF Stuffed, Pipe, a
      <4> QED BY <1>1, <1>8, <2>1, <2>3, <4>2 DEF InFlight
    <3> QED BY <3>1, <3>2
  <2>6. CASE a.do = "copy" /\ shell'.asking = "nothing" /\ back' = <<Says(a, "error"), Prompt>>
    <3>1. Says(a, "error").of = awaiting' /\ Says(a, "error").says = "error"
      BY <1>4 DEF Says, a
    <3>2. wire' = <<>>
      BY <2>4, <2>6, LinesOf
    <3>3. InFlight'
      BY <2>3, <2>6, <3>1, <3>2, PrintoutAfter DEF Printable
    <3> QED BY <1>1, <1>8, <2>1, <2>3, <3>3
  <2> QED BY <2>3, <2>5, <2>6
<1>15. AgendaFits
  BY DEF Underway
<1>16. \/ a \in {Do("enable"), Do("paging")} /\ agenda # <<>>
       \/ /\ agenda = <<>>
          /\ a.do \in EnterDos <=> stage = "enter"
          /\ a.do = "exit" <=> stage = "unwind"
          /\ a.do \in ExecCommands => stage = "script"
          /\ a.do \in Shows \cup EnterDos \cup BodyDos
                      \cup {"exit", "https", "copy", "save", "reload"}
  BY <1>1, <1>6, <1>15, LineKinds, DoIs DEF a
<1> QED BY <1>9, <1>10, <1>11, <1>12, <1>13, <1>14, <1>16 DEF ExecCommands, EnterDos

LEMMA PairOf ==
    ASSUME NEW x, NEW y
    PROVE  <<x>> \o <<y>> = <<x, y>>
<1> DEFINE s == <<x>>
           t == <<y>>
           u == <<x, y>>
<1>1. /\ s \in Seq({x, y}) /\ Len(s) = 1 /\ s[1] = x
      /\ t \in Seq({x, y}) /\ Len(t) = 1 /\ t[1] = y
      /\ u \in Seq({x, y}) /\ Len(u) = 2 /\ u[1] = x /\ u[2] = y
  OBVIOUS
<1> HIDE DEF s, t, u
<1> DEFINE v == s \o t
<1>2. v \in Seq({x, y}) /\ Len(v) = 2 /\ v[1] = x /\ v[2] = y
  BY <1>1, ConcatProperties
<1> HIDE DEF v
<1>3. \A i \in 1..Len(v) : v[i] = u[i]
  BY <1>1, <1>2
<1>4. v = u
  BY <1>1, <1>2, <1>3, SeqEqual
<1> QED BY <1>4 DEF s, t, u, v

\* The line after a question is executed: it answers it.
LEMMA ExecutesAnswer ==
    ASSUME SessionFits, Underway, Password \/ Replied \/ Stuffed, Executes,
           UNCHANGED <<stage, todo, entered>>
    PROVE  InStepNow'
<1>1. /\ IsShell(shell) /\ Len(shell.modes) = Depth /\ shell.down = FALSE /\ answer = Pending
  BY DEF Password, Replied, Stuffed, Pipe, Underway, InStepNow, Waiting
<1>2. PICK done \in BOOLEAN :
        /\ shell' = Execute(shell, Head(wire), done).shell
        /\ back' = back \o Execute(shell, Head(wire), done).out
        /\ wire' = IF Execute(shell, Head(wire), done).shell.down THEN <<>> ELSE Tail(wire)
  BY DEF Executes
<1>3. UNCHANGED <<driver, agenda, awaiting, answer, torn, stage, todo, entered>>
  BY DEF Executes
<1>4. Waiting' /\ AgendaFits' /\ Waiting
  BY <1>3 DEF Underway, Waiting, AgendaFits
<1>5. stage \in Stage /\ entered \in Nat /\ Len(todo) \in Nat /\ StageFits
  BY DEF Underway, StageFits, Batch
<1>6. AgendaFits
  BY DEF Underway
<1>7. PICK c : wire = <<c>> /\ c \in {awaiting, Do("yes")}
  BY DEF Password, Replied, Stuffed, Pipe
<1>8. Head(wire) = c /\ Tail(wire) = <<>> /\ wire' = <<>>
  BY <1>2, <1>7
<1>9. /\ shell' = Execute(shell, c, done).shell
      /\ back' = back \o Execute(shell, c, done).out
  BY <1>2, <1>8
<1>10. PICK u, out : u = Execute(shell, c, done).shell /\ out = Execute(shell, c, done).out
  OBVIOUS
<1>11. ASSUME shell.asking \in Questions
       PROVE  /\ IsShell(shell') /\ shell'.modes = shell.modes /\ shell'.asking = "nothing"
              /\ back' = back \o out
              /\ shell.asking # "reload" => shell'.down = FALSE
              /\ shell.asking \in {"enable", "save"} => out = <<Prompt>>
              /\ shell.asking = "copy" =>
                   \E what \in {"success", "failure"} : out = <<Says(Do("copy"), what), Prompt>>
  <2>1. /\ IsShell(u) /\ u.modes = shell.modes /\ u.asking = "nothing"
        /\ shell.asking # "reload" => u.down = shell.down
        /\ shell.asking \in {"enable", "save"} => out = <<Prompt>>
        /\ shell.asking = "copy" =>
             \E what \in {"success", "failure"} : out = <<Says(Do("copy"), what), Prompt>>
    BY <1>1, <1>10, <1>11, AnswerPrints
  <2>2. u = shell' /\ back' = back \o out
    BY <1>9, <1>10
  <2> QED BY <1>1, <2>1, <2>2
<1>12. ASSUME InFlight', IsShell(shell'), Len(shell'.modes) = Depth'
       PROVE  InStepNow'
  BY <1>4, <1>12 DEF InStepNow, IsShell, ChannelFits
<1>13. CASE Password
  <2>1. shell.asking = "enable" /\ back = <<>> /\ awaiting.do = "password"
    BY <1>13 DEF Password, Pipe
  <2>2. /\ IsShell(shell') /\ shell'.modes = shell.modes /\ shell'.asking = "nothing"
        /\ back' = <<>> \o <<Prompt>> /\ shell'.down = FALSE
    BY <1>11, <2>1 DEF Questions
  <2>3. Prompted'
    BY <1>3, <1>8, <2>1, <2>2 DEF Prompted, Pipe
  <2>4. agenda # <<>>
    BY <1>5, <1>6, <2>1, LineKinds
  <2>5. Depth' = Depth
    BY <1>3, <1>4, <1>5, <2>4, DepthInSetup
  <2> QED BY <1>1, <1>12, <2>2, <2>3, <2>5 DEF InFlight
<1>14. CASE Replied \/ Stuffed
  <2>1. /\ shell.asking = awaiting.do /\ c = Do("yes") /\ c.do = "yes"
        /\ awaiting.do \in ExecCommands
        /\ awaiting.do = "copy" => back = <<>> /\ Replies
    <3>1. CASE Replied
      BY <1>7, <3>1, DoIs DEF Replied, Replies, Pipe, ExecCommands
    <3>2. CASE Stuffed
      <4>1. awaiting.do \in {"reload", "save"}
        BY <3>2 DEF Stuffed, Lines
      <4> QED BY <1>7, <3>2, <4>1, DoIs DEF Stuffed, Pipe, ExecCommands
    <3> QED BY <1>14, <3>1, <3>2
  <2>2. stage = "script" /\ agenda = <<>> /\ (awaiting.do = "copy" => awaiting = Do("copy"))
    BY <1>5, <1>6, <2>1, LineKinds, DoIs DEF ExecCommands, Banner
  <2>3. Depth' = Depth
    BY <1>3, <1>5, <2>2 DEF Depth
  <2>4. IsShell(shell') /\ shell'.modes = shell.modes /\ shell'.asking = "nothing"
    BY <1>11, <2>1 DEF Questions
  <2>5. ASSUME InFlight' PROVE InStepNow'
    BY <1>1, <1>12, <2>3, <2>4, <2>5
  <2>6. CASE awaiting.do = "copy"
    <3>1. PICK what \in {"success", "failure"} :
            back' = <<>> \o <<Says(Do("copy"), what), Prompt>> /\ shell'.down = FALSE
      BY <1>11, <2>1, <2>6 DEF Questions
    <3>2. PICK x : x = Says(Do("copy"), what)
      OBVIOUS
    <3>3. x.of = awaiting' /\ x.says = what
      BY <1>3, <2>2, <2>6, <3>2 DEF Says
    <3>4. back' = <<x, Prompt>>
      BY <3>1, <3>2
    <3>5. InFlight'
      BY <1>8, <2>4, <3>1, <3>3, <3>4, PrintoutAfter DEF Printable
    <3> QED BY <2>5, <3>5
  <2>7. CASE awaiting.do = "save"
    <3>1. back' = back \o <<Prompt>> /\ shell'.down = FALSE
      BY <1>11, <2>1, <2>7 DEF Questions
    <3>2. CASE Replied
      <4>1. back' = <<Prompt>>
        BY <3>1, <3>2 DEF Replied, Pipe
      <4>2. Prompted'
        BY <1>3, <1>8, <2>4, <2>7, <3>1, <4>1 DEF Prompted, Pipe
      <4> QED BY <2>5, <4>2 DEF InFlight
    <3>3. CASE Stuffed
      <4>1. back = <<Says(awaiting, "question")>> /\ Prestuff
        BY <2>7, <3>3 DEF Stuffed, Pipe, Lines
      <4>2. PICK x : x = Says(awaiting, "question")
        OBVIOUS
      <4>3. x.of = awaiting' /\ x.says = "question" /\ back' = <<x>> \o <<Prompt>>
        BY <1>3, <3>1, <4>1, <4>2 DEF Says
      <4>4. back' = <<x, Prompt>>
        BY <4>3, PairOf
      <4>5. ~Replies'
        BY <1>3, <2>7, <4>1 DEF Replies
      <4>6. InFlight'
        BY <1>8, <2>4, <3>1, <4>3, <4>4, <4>5, PrintoutAfter DEF Printable
      <4> QED BY <2>5, <4>6
    <3> QED BY <1>14, <3>2, <3>3
  <2>8. CASE awaiting.do = "reload"
    <3>1. shell'.down = TRUE /\ back' = back \o <<>>
      BY <1>1, <1>9, <2>1, <2>8, ReloadPrints
    <3>2. back = <<Says(awaiting, "question")>>
      BY <1>14, <2>8 DEF Replied, Replies, Stuffed, Pipe
    <3>3. Halted'
      BY <1>3, <1>8, <2>4, <2>8, <3>1, <3>2 DEF Halted, Pipe
    <3> QED BY <2>5, <3>3 DEF InFlight
  <2> QED BY <2>1, <2>6, <2>7, <2>8 DEF ExecCommands
<1> QED BY <1>13, <1>14

LEMMA SteadyExecutes ==
    ASSUME StageFits, SessionFits, Steady, Executes, UNCHANGED writerVars
    PROVE  Steady'
<1>1. SUFFICES ASSUME Sound' PROVE InStepNow'
  BY DEF Steady, InStepNow
<1>2. /\ wire # <<>> /\ UNCHANGED <<torn, driver>>
      /\ UNCHANGED <<stage, todo, entered>>
  BY DEF Executes, writerVars
<1>3. driver # "none"
  BY <1>2 DEF SessionFits
<1>4. InStepNow
  BY <1>1, <1>2 DEF Steady, InStepNow, Sound
<1>5. Waiting
  BY <1>2, <1>4 DEF InStepNow, ChannelFits, Pipe
<1>6. Underway /\ InFlight
  BY <1>3, <1>4, <1>5 DEF Underway, InStepNow, ChannelFits
<1>7. Sent \/ Password \/ Replied \/ Stuffed
  BY <1>2, <1>6 DEF InFlight, Printout, Prompted, Asked, Halted, Pipe
<1> QED BY <1>2, <1>6, <1>7, ExecutesSent, ExecutesAnswer

-----------------------------------------------------------------------------
(***************************************************************************)
(* In step: what the client reads.                                         *)
(***************************************************************************)
Quiet == wire = <<>> /\ shell.asking = "nothing" /\ shell.down = FALSE

\* The prompt after a line of the setup, and what the setup sends next.
NextOfSetup ==
    /\ agenda # <<>> /\ Quiet /\ back' = <<>>
    /\ wire' = Lines(Head(agenda)) /\ awaiting' = Head(agenda) /\ agenda' = Tail(agenda)
    /\ driver' = IF awaiting.do = "paging" THEN "ready" ELSE driver
    /\ UNCHANGED <<shell, answer, torn>>

\* "enable" asks for the password.
PasswordOfSetup ==
    /\ awaiting.do = "enable" /\ shell.asking = "enable" /\ shell.down = FALSE /\ back' = <<>>
    /\ wire' = <<Do("password")>> /\ awaiting' = Do("password")
    /\ UNCHANGED <<shell, driver, agenda, answer, torn>>

\* The switch asks whether it shall go on.
Confirms ==
    /\ Replies /\ shell.asking = awaiting.do /\ shell.down = FALSE /\ back' = <<>>
    /\ wire' = <<Do("yes")>>
    /\ UNCHANGED <<shell, driver, agenda, awaiting, answer, torn>>

\* The prompt that ends the command.
Comes(texts) ==
    /\ agenda = <<>> /\ Quiet /\ back' = <<>>
    /\ answer' = Returned(texts)
    /\ UNCHANGED <<shell, wire, driver, agenda, awaiting, torn>>

\* What one read of the client comes to.
LEMMA Received ==
    ASSUME StageFits, Waiting, AgendaFits, InFlight, Receive
    PROVE  \/ Raises(Raised)
           \/ NextOfSetup
           \/ PasswordOfSetup
           \/ Confirms
           \/ awaiting.do = "save" /\ Comes(<<>>)
           \/ \E x : back = <<x, Prompt>> /\ x.of = awaiting /\ Comes(<<x>>)
<1>1. PICK n \in 1..Len(back) :
        /\ Ends(back[n]) /\ back' = SubSeq(back, n + 1, Len(back))
        /\ Deals(SubSeq(back, 1, n), back[n])
  BY DEF Receive
<1>2. UNCHANGED shell
  BY DEF Receive
<1>3. back # <<>>
  BY <1>1
<1>4. Printout \/ Prompted \/ Asked
  <2>1. ~Sent /\ ~Password /\ ~Replied
    BY <1>3 DEF Sent, Password, Replied, Pipe
  <2>2. ~(back = <<Says(awaiting, "question")>> /\ ~Replies)
    <3>1. SUFFICES ASSUME back = <<Says(awaiting, "question")>> PROVE Replies
      OBVIOUS
    <3>2. back[n].says = "question"
      BY <1>1, <3>1 DEF Says
    <3> QED BY <1>1, <3>2 DEF Ends
  <2>3. ~Stuffed /\ ~Halted
    BY <2>2 DEF Stuffed, Halted, Pipe, Lines, Replies
  <2> QED BY <2>1, <2>3 DEF InFlight
<1>5. \A k : SetupGoesOn(k) => wire' = wire \o Lines(NextLine(k))
  BY DEF SetupGoesOn, SendLine
<1>6. ASSUME back = <<Prompt>>, Quiet PROVE NextOfSetup \/ Comes(<<>>)
  <2>1. /\ n = 1 /\ back[n] = Prompt /\ Len(back) = 1 /\ back' = <<>>
        /\ SubSeq(back, 1, n) = <<Prompt>>
    BY <1>1, <1>6, OfOne
  <2>2. ~FailureIn(<<Prompt>>) /\ ~QuestionIn(<<Prompt>>) /\ Prompt.says # "password"
    BY OfOne, PromptSays DEF FailureIn, QuestionIn
  <2>3. \/ agenda # <<>> /\ SetupGoesOn(Prompt.says = "password")
        \/ agenda = <<>> /\ Return(<<Prompt>>)
    BY <1>1, <2>1, <2>2 DEF Deals
  <2>4. CASE agenda # <<>> /\ SetupGoesOn(Prompt.says = "password")
    <3>1. /\ wire' = <<>> \o Lines(Head(agenda)) /\ awaiting' = Head(agenda)
          /\ agenda' = Tail(agenda)
          /\ driver' = IF awaiting.do = "paging" THEN "ready" ELSE driver
          /\ UNCHANGED <<answer, torn>>
      BY <1>6, <2>2, <2>4 DEF SetupGoesOn, SendLine, NextLine, AgendaAfter, Quiet
    <3>2. wire' = Lines(Head(agenda))
      BY <3>1 DEF Lines
    <3> QED BY <1>2, <1>6, <2>1, <2>4, <3>1, <3>2 DEF NextOfSetup
  <2>5. CASE agenda = <<>> /\ Return(<<Prompt>>)
    BY <1>2, <1>6, <2>1, <2>5, CleanPrompt DEF Comes, Return
  <2> QED BY <2>3, <2>4, <2>5
<1>7. CASE Prompted
  <2>1. back = <<Prompt>> /\ Quiet
    BY <1>7 DEF Prompted, Pipe, Quiet
  <2>2. awaiting.do \in {"banner", "password"} => agenda # <<>>
    BY LineKinds
  <2> QED BY <1>6, <1>7, <2>1, <2>2 DEF Prompted, Comes
<1>8. CASE Printout
  <2>1. PICK x : x = back[1]
    OBVIOUS
  <2>2. /\ back = <<x, Prompt>> /\ x.of = awaiting /\ Quiet
        /\ x.says \in Printable /\ x.says # "password" /\ (Replies => x.says # "question")
    BY <1>8, <2>1 DEF Printout, Pipe, Quiet
  <2>3. ~QuestionIn(<<x>>) /\ ~QuestionIn(<<x, Prompt>>)
    BY <2>2, OfOne, OfTwo, PromptSays DEF QuestionIn
  <2>4. CASE n = 1
    <3>1. SubSeq(back, 1, n) = <<x>> /\ back[n] = x
      BY <2>2, <2>4, OfTwo
    <3>2. x.says = "failure" /\ awaiting.do = "copy"
      BY <1>1, <2>2, <3>1, PromptSays DEF Ends
    <3>3. FailureIn(<<x>>)
      BY <3>2, OfOne DEF FailureIn
    <3> QED BY <1>1, <2>3, <3>1, <3>3 DEF Deals
  <2>5. CASE n = 2
    <3>1. /\ SubSeq(back, 1, n) = <<x, Prompt>> /\ back[n] = Prompt /\ Len(back) = 2
          /\ back' = <<>>
      BY <1>1, <2>2, <2>5, OfTwo
    <3>2. \/ Raises(Raised)
          \/ agenda # <<>> /\ SetupGoesOn(Prompt.says = "password")
          \/ agenda = <<>> /\ Return(<<x, Prompt>>)
      BY <1>1, <2>3, <3>1 DEF Deals
    <3>3. CASE agenda # <<>> /\ SetupGoesOn(Prompt.says = "password")
      <4>1. /\ wire' = <<>> \o Lines(Head(agenda)) /\ awaiting' = Head(agenda)
            /\ agenda' = Tail(agenda)
            /\ driver' = IF awaiting.do = "paging" THEN "ready" ELSE driver
            /\ UNCHANGED <<answer, torn>>
        BY <2>2, <3>3, PromptSays DEF SetupGoesOn, SendLine, NextLine, AgendaAfter, Quiet
      <4>2. wire' = Lines(Head(agenda))
        BY <4>1 DEF Lines
      <4> QED BY <1>2, <2>2, <3>1, <3>3, <4>1, <4>2 DEF NextOfSetup
    <3>4. CASE agenda = <<>> /\ Return(<<x, Prompt>>)
      <4>1. Comes(<<x>>)
        BY <1>2, <2>2, <3>1, <3>4, CleanPrinted DEF Comes, Return
      <4> QED BY <2>2, <4>1
    <3> QED BY <3>2, <3>3, <3>4
  <2>6. n \in {1, 2}
    <3>1. Len(back) = 2
      BY <2>2, OfTwo
    <3> QED BY <3>1
  <2> QED BY <2>4, <2>5, <2>6
<1>9. CASE Asked
  <2> DEFINE Enables(x) == /\ awaiting.do = "enable" /\ x.says = "password"
                           /\ Pipe(<<>>, <<x>>, "enable", FALSE)
             Asks(x)    == /\ Replies /\ x.says = "question"
                           /\ Pipe(<<>>, <<x>>, awaiting.do, FALSE)
  <2>1. PICK x : back = <<x>> /\ (Enables(x) \/ Asks(x))
    <3>1. CASE awaiting.do = "enable" /\ Pipe(<<>>, <<Says(awaiting, "password")>>, "enable", FALSE)
      <4>1. back = <<Says(awaiting, "password")>> /\ Says(awaiting, "password").says = "password"
        BY <3>1 DEF Pipe, Says
      <4> QED BY <3>1, <4>1
    <3>2. CASE Replies /\ Pipe(<<>>, <<Says(awaiting, "question")>>, awaiting.do, FALSE)
      <4>1. back = <<Says(awaiting, "question")>> /\ Says(awaiting, "question").says = "question"
        BY <3>2 DEF Pipe, Says
      <4> QED BY <3>2, <4>1
    <3> QED BY <1>9, <3>1, <3>2 DEF Asked
  <2>2. n = 1 /\ back[n] = x /\ Len(back) = 1 /\ back' = <<>> /\ SubSeq(back, 1, n) = <<x>>
    BY <1>1, <2>1, OfOne
  <2>3. Deals(<<x>>, x)
    BY <1>1, <2>2
  <2>4. CASE Enables(x)
    <3>1. ~FailureIn(<<x>>) /\ ~QuestionIn(<<x>>)
      BY <2>4, OfOne DEF FailureIn, QuestionIn
    <3>2. agenda # <<>>
      BY <2>4, LineKinds
    <3>3. SetupGoesOn(x.says = "password")
      BY <2>3, <3>1, <3>2 DEF Deals
    <3>4. /\ wire' = <<>> \o Lines(Do("password")) /\ awaiting' = Do("password")
          /\ agenda' = agenda /\ driver' = driver /\ UNCHANGED <<answer, torn>>
      BY <2>4, <3>3 DEF SetupGoesOn, SendLine, NextLine, AgendaAfter, Pipe
    <3>5. wire' = <<Do("password")>>
      BY <3>4, DoIs, LinesOf
    <3> QED BY <1>2, <2>2, <2>4, <3>4, <3>5 DEF PasswordOfSetup, Pipe
  <2>5. CASE Asks(x)
    <3>1. ~FailureIn(<<x>>) /\ QuestionIn(<<x>>)
      BY <2>5, OfOne DEF FailureIn, QuestionIn
    <3>2. Reply
      BY <2>3, <3>1 DEF Deals
    <3> QED BY <1>2, <2>2, <2>5, <3>2 DEF Confirms, Reply, Pipe
  <2> QED BY <2>1, <2>4, <2>5
<1> QED BY <1>4, <1>7, <1>8, <1>9

\* Lists of one, two and three.
LEMMA TailOf ==
    ASSUME NEW x, NEW y, NEW z
    PROVE  /\ Head(<<x>>) = x /\ Tail(<<x>>) = <<>>
           /\ Head(<<x, y>>) = x /\ Tail(<<x, y>>) = <<y>>
           /\ Head(<<x, y, z>>) = x /\ Tail(<<x, y, z>>) = <<y, z>>
OBVIOUS

\* What the agenda says once its first line is sent.
LEMMA AgendaMoves ==
    ASSUME StageFits, AgendaFits, NextOfSetup, UNCHANGED stage
    PROVE  /\ AgendaFits' /\ awaiting' # NoLine /\ awaiting' # Banner
           /\ awaiting'.do # "password"
<1>1. stage \in Stage /\ agenda # <<>>
  BY DEF StageFits, NextOfSetup
<1>2. /\ awaiting' = Head(agenda) /\ agenda' = Tail(agenda)
      /\ driver' = IF awaiting.do = "paging" THEN "ready" ELSE driver
  BY DEF NextOfSetup
<1>3. CASE /\ awaiting = Banner
           /\ agenda = <<Do("enable"), Do("paging"), agenda[3]>> /\ Proper(agenda[3], stage)
  <2>1. PICK c : c = agenda[3]
    OBVIOUS
  <2>2. awaiting' = Do("enable") /\ agenda' = <<Do("paging"), c>> /\ agenda'[2] = c
    <3>1. agenda = <<Do("enable"), Do("paging"), c>>
      BY <1>3, <2>1
    <3> QED BY ONLY <1>2, <3>1, TailOf
  <2> QED BY <1>3, <2>1, <2>2, SetupLines, DoIs DEF AgendaFits
<1>4. CASE /\ awaiting \in {Do("enable"), Do("password")}
           /\ agenda = <<Do("paging"), agenda[2]>> /\ Proper(agenda[2], stage)
  <2>1. PICK c : c = agenda[2]
    OBVIOUS
  <2>2. awaiting' = Do("paging") /\ agenda' = <<c>> /\ agenda'[1] = c
    <3>1. agenda = <<Do("paging"), c>>
      BY <1>4, <2>1
    <3> QED BY ONLY <1>2, <3>1, TailOf
  <2> QED BY <1>4, <2>1, <2>2, SetupLines, DoIs DEF AgendaFits
<1>5. CASE /\ awaiting = Do("paging")
           /\ agenda = <<agenda[1]>> /\ Proper(agenda[1], stage)
  <2>1. PICK c : c = agenda[1]
    OBVIOUS
  <2>2. awaiting' = c /\ agenda' = <<>> /\ driver' = "ready" /\ Proper(c, stage)
    BY <1>2, <1>5, <2>1, DoIs, TailOf
  <2> QED BY <1>1, <2>2, ProperLine DEF AgendaFits
<1> QED BY <1>1, <1>3, <1>4, <1>5 DEF AgendaFits

LEMMA SteadyReceive ==
    ASSUME StageFits, SessionFits, Steady, Receive, UNCHANGED writerVars
    PROVE  Steady'
<1>1. SUFFICES ASSUME Sound' PROVE InStepNow'
  BY DEF Steady, InStepNow
<1>2. Waiting /\ driver # "none" /\ UNCHANGED <<stage, todo, entered>> /\ answer = Pending
  BY DEF Receive, SessionFits, writerVars, Waiting
<1>3. ~Raises(Raised)
  BY <1>1, <1>2 DEF Raises, Sound
<1>4. Sound
  <2>1. torn' = torn /\ driver' # "none"
    BY <1>2, <1>3 DEF Receive, Deals, Reply, SetupGoesOn, Return
  <2> QED BY <1>1, <1>2, <2>1 DEF Sound
<1>5. /\ IsShell(shell) /\ Len(shell.modes) = Depth /\ AgendaFits /\ InFlight
  BY <1>2, <1>4 DEF Steady, ChannelFits
<1>6. /\ IsShell(shell') /\ Len(shell'.modes) = Depth
      /\ shell' = shell
  BY <1>5 DEF Receive
<1>7. stage \in Stage /\ entered \in Nat /\ Len(todo) \in Nat
  BY DEF StageFits, Batch
<1>8. ASSUME Depth' = Depth, ChannelFits' PROVE InStepNow'
  BY <1>6, <1>8 DEF InStepNow, IsShell
<1>9. CASE NextOfSetup
  <2>1. /\ AgendaFits' /\ awaiting' # NoLine /\ awaiting' # Banner
        /\ awaiting'.do # "password"
    BY <1>2, <1>5, <1>9, AgendaMoves
  <2>2. Waiting'
    BY <1>2, <1>9, <2>1 DEF NextOfSetup, Waiting
  <2>3. Sent'
    BY <1>9, <2>1 DEF NextOfSetup, Sent, Pipe, Quiet, Lines
  <2>4. Depth' = Depth
    <3>1. /\ agenda # <<>> /\ wire' # <<>> /\ back' = <<>> /\ answer' = Pending
      BY <1>2, <1>9, LinesOf DEF NextOfSetup
    <3> QED BY <1>2, <2>2, <3>1, DepthInSetup
  <2> QED BY <1>8, <2>1, <2>2, <2>3, <2>4 DEF ChannelFits, InFlight
<1>10. CASE PasswordOfSetup
  <2>1. awaiting.do = "enable" /\ agenda # <<>>
    BY <1>5, <1>10, LineKinds DEF PasswordOfSetup
  <2>2. awaiting = Do("enable")
    BY <1>5, <2>1, <1>7, ProperLine, DoIs DEF AgendaFits, Banner
  <2>3. awaiting' = Do("password") /\ UNCHANGED <<agenda, answer, driver>>
    BY <1>10 DEF PasswordOfSetup
  <2>4. AgendaFits'
    BY <1>2, <1>5, <2>1, <2>2, <2>3, DoIs, SetupLines DEF AgendaFits
  <2>5. Waiting'
    BY <1>2, <2>3, SetupLines DEF Waiting
  <2>6. Password'
    BY <1>10, <2>3, DoIs DEF PasswordOfSetup, Password, Pipe
  <2>7. Depth' = Depth
    BY <1>2, <2>1, <2>3, <2>5, DepthInSetup
  <2> QED BY <1>8, <2>4, <2>5, <2>6, <2>7 DEF ChannelFits, InFlight
<1>11. CASE Confirms
  <2>1. Replies /\ awaiting.do \in ExecCommands
    BY <1>11 DEF Confirms, Replies, ExecCommands
  <2>2. stage = "script" /\ agenda = <<>>
    BY <1>5, <2>1, LineKinds, DoIs DEF ExecCommands, Banner
  <2>3. UNCHANGED <<awaiting, answer, agenda, driver>>
    BY <1>11 DEF Confirms
  <2>4. AgendaFits' /\ Waiting'
    BY <1>2, <1>5, <2>3 DEF AgendaFits, Waiting
  <2>5. Replied'
    BY <1>11, <2>3 DEF Confirms, Replied, Replies, Pipe
  <2>6. Depth' = Depth
    BY <1>2, <2>2, <1>7 DEF Depth
  <2> QED BY <1>8, <2>4, <2>5, <2>6 DEF ChannelFits, InFlight
<1>12. ASSUME NEW texts, Comes(texts),
              \/ awaiting.do = "save" /\ texts = <<>>
              \/ \E x : back = <<x, Prompt>> /\ x.of = awaiting /\ texts = <<x>>
       PROVE  InStepNow'
  <2>1. /\ agenda = <<>> /\ UNCHANGED <<wire, driver, agenda, awaiting, torn, shell>>
        /\ answer' = Returned(texts) /\ back' = <<>> /\ Quiet
    BY <1>12 DEF Comes
  <2>2. answer'.is = "returned" /\ answer'.texts = texts /\ answer' # Pending
    BY <2>1 DEF Returned, Pending
  <2>3. Proper(awaiting, stage) /\ driver = "ready"
    BY <1>5, <2>1, LineKinds
  <2>4. ~Waiting' /\ ~Idle'
    BY <1>2, <2>1, <2>2 DEF Waiting, Idle
  <2>5. Pipe(<<>>, <<>>, "nothing", FALSE)'
    BY <2>1 DEF Pipe, Quiet
  <2>6. CASE awaiting.do = "save" /\ texts = <<>>
    <3>1. Finished'
      BY <1>2, <2>1, <2>3, <2>6 DEF Finished, ExecCommands
    <3>2. stage = "script"
      BY <1>5, <2>1, <2>6, LineKinds DEF ExecCommands
    <3>3. Depth' = Depth
      BY <1>2, <1>7, <3>2 DEF Depth
    <3> QED BY <1>8, <2>1, <2>2, <2>3, <2>4, <2>5, <3>1, <3>3 DEF ChannelFits
  <2>7. CASE \E x : back = <<x, Prompt>> /\ x.of = awaiting /\ texts = <<x>>
    <3>1. PICK x : back = <<x, Prompt>> /\ x.of = awaiting /\ texts = <<x>>
      BY <2>7
    <3>2. answer' = Returned(<<x>>) /\ answer'.texts[1] = x
      BY <2>1, <2>2, <3>1
    <3>3. Finished'
      BY <1>2, <2>1, <2>3, <3>1, <3>2 DEF Finished
    <3>4. Entering <=> x.says = "nothing"
      BY <1>2, <2>1, <3>1 DEF Entering, Shown, Pending, Waiting, Idle
    <3>5. Entering' <=> x.says = "nothing"
      BY <2>1, <2>2, <2>4, <3>1 DEF Entering, Shown
    <3>6. ~Leaving /\ ~Leaving'
      BY <2>1, <2>4 DEF Leaving, Quiet
    <3>7. Depth' = Depth
      BY <1>2, <1>7, <3>4, <3>5, <3>6 DEF Depth
    <3> QED BY <1>8, <2>1, <2>2, <2>3, <2>4, <2>5, <3>3, <3>7 DEF ChannelFits
  <2> QED BY <1>12, <2>6, <2>7
<1> QED BY <1>2, <1>3, <1>5, <1>9, <1>10, <1>11, <1>12, Received

-----------------------------------------------------------------------------
(***************************************************************************)
(* The invariant and what follows from it.                                 *)
(***************************************************************************)
LEMMA SteadyClose ==
    ASSUME StageFits, SessionFits, Close, stage \in Resting, UNCHANGED writerVars
    PROVE  Steady'
<1>1. /\ Idle' /\ driver' = "none" /\ shell' = FreshShell(shell.config)
      /\ wire' = <<>> /\ back' = <<>> /\ UNCHANGED <<stage, todo, entered>>
  BY DEF Close, Idle, writerVars
<1>2. ~Waiting'
  BY <1>1 DEF Waiting, Idle
<1>3. IsShell(shell') /\ Len(shell'.modes) = 0 /\ shell'.asking = "nothing" /\ shell'.down = FALSE
  BY <1>1, FreshIsShell
<1>4. ChannelFits'
  BY <1>1, <1>2, <1>3 DEF ChannelFits, Pipe
<1>5. Depth' = 0
  <2>1. stage' \in Stage /\ stage' \notin {"enter", "body", "unwind"}
    BY <1>1 DEF Stage, Resting
  <2> QED BY <2>1 DEF Depth
<1> QED BY <1>3, <1>4, <1>5 DEF Steady, IsShell

LEMMA SteadyStep ==
    ASSUME StageFits, SessionFits, Steady, StageFits', SessionFits', [Next]_vars
    PROVE  Steady'
<1>1. CASE Invoke
  BY <1>1, SteadyInvoke
<1>2. CASE Issue
  BY <1>2, SteadyIssue
<1>3. CASE Use
  BY <1>3, SteadyUse
<1>4. CASE Turn
  BY <1>4, SteadyTurn
<1>5. CASE Session
  <2>1. UNCHANGED writerVars
    BY <1>5 DEF Session
  <2>2. CASE Executes
    BY <2>1, <2>2, SteadyExecutes
  <2>3. CASE Receive
    BY <2>1, <2>3, SteadyReceive
  <2>4. CASE TimesOut \/ StreamEnds
    BY <2>4 DEF TimesOut, StreamEnds, Raises, SessionFits, Steady, Sound
  <2>5. CASE stage \in Resting /\ Close
    BY <2>1, <2>5, SteadyClose
  <2> QED BY <1>5, <2>2, <2>3, <2>4, <2>5 DEF Session
<1>6. CASE UNCHANGED vars
  BY <1>6 DEF vars, sessionVars, writerVars, Steady, Sound, IsShell, ChannelFits, AgendaFits,
              InFlight, Sent, Password, Printout, Prompted, Asked, Replied, Stuffed, Halted, Pipe,
              Replies, Finished, Waiting, Idle, Depth, Entering, Leaving, Shown
<1> QED BY <1>1, <1>2, <1>3, <1>4, <1>5, <1>6 DEF Next

(***************************************************************************)
(* Every step of the calls, of the session and of the switch keeps the     *)
(* stage and its commands, the driver and what is under way in the channel *)
(* in step, and the shell as deep in its modes as the call believes.       *)
(***************************************************************************)
THEOREM SessionInvariant == Spec => []IInv
<1>1. Init => IInv
  BY StageInit, SessionInitially, SteadyInit DEF IInv
<1>2. IInv /\ [Next]_vars => IInv'
  <2>1. SUFFICES ASSUME IInv, [Next]_vars PROVE IInv'
    OBVIOUS
  <2>2. StageFits /\ SessionFits /\ Steady
    BY <2>1 DEF IInv
  <2>3. StageFits' /\ SessionFits'
    BY <2>1, <2>2, StageStep, SessionStep
  <2>4. Steady'
    BY <2>1, <2>2, <2>3, SteadyStep
  <2> QED BY <2>3, <2>4 DEF IInv
<1> QED BY <1>1, <1>2, PTL DEF Spec

(***************************************************************************)
(* run() returns the output of the command it was given and of no other,   *)
(* and sends a command only when the whole setup has been answered, as     *)
(* long as no run() of the session has raised (CliSession.run, ShellDriver *)
(* .setup in transport/cli/session.py).                                    *)
(***************************************************************************)
THEOREM InStepProved == Spec => []InStep
<1>1. IInv => InStep
  <2>1. SUFFICES ASSUME IInv, ~torn PROVE OwnAnswer /\ SetupFirst
    BY DEF InStep
  <2>2. StageFits /\ SessionFits /\ ChannelFits
    BY <2>1 DEF IInv, Steady, Sound
  <2>3. OwnAnswer
    <3>1. SUFFICES ASSUME answer.is = "returned"
                   PROVE  /\ awaiting.do \notin ExecCommands => answer.texts # <<>>
                          /\ \A i \in 1..Len(answer.texts) : answer.texts[i].of = awaiting
      BY DEF OwnAnswer
    <3>2. answer # Pending
      BY <3>1 DEF Pending
    <3>3. ~Waiting /\ ~Idle
      BY <2>2, <3>2 DEF SessionFits, Waiting
    <3>4. Finished
      BY <2>2, <3>3 DEF ChannelFits
    <3>5. CASE awaiting.do \in ExecCommands /\ answer = Returned(<<>>)
      BY <3>5 DEF Returned
    <3>6. CASE answer = Returned(<<answer.texts[1]>>) /\ answer.texts[1].of = awaiting
      <4>1. PICK x : x = answer.texts[1]
        OBVIOUS
      <4>2. answer.texts = <<x>> /\ x.of = awaiting
        BY <3>6, <4>1 DEF Returned
      <4> QED BY <4>2
    <3> QED BY <3>1, <3>4, <3>5, <3>6 DEF Finished
  <2>4. SetupFirst
    BY <2>2 DEF SetupFirst, ChannelFits, AgendaFits
  <2> QED BY <2>3, <2>4
<1> QED BY <1>1, SessionInvariant, PTL

(***************************************************************************)
(* _in_mode leaves the session in no configuration mode when a call is     *)
(* over, whatever the switch has rejected on the way, as long as no run()  *)
(* of the session has raised (CliWriter._in_mode in cli_write.py).         *)
(***************************************************************************)
THEOREM NotParkedProved == Spec => []NotParkedInStep
<1>1. IInv => NotParkedInStep
  <2>1. SUFFICES ASSUME IInv, ~torn, stage \in Resting PROVE shell.modes = <<>>
    BY DEF NotParkedInStep
  <2>2. StageFits /\ IsShell(shell) /\ Len(shell.modes) = Depth
    BY <2>1 DEF IInv, Steady, Sound
  <2>3. Depth = 0
    BY <2>1, <2>2, DepthOf DEF StageFits, Resting
  <2> QED BY <2>2, <2>3 DEF IsShell
<1> QED BY <1>1, SessionInvariant, PTL
=============================================================================
