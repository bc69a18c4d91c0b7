-------------------------- MODULE CliSuccessProofs ---------------------------
(***************************************************************************)
(* What TLAPS proves of CliWriter about calls that return normally: none   *)
(* succeeds in silence; and about the collectors: none goes that no call   *)
(* has named.  For every kind of call, every set of VLANs, ports and       *)
(* hosts, every image of the switch and every number of timeouts and       *)
(* closed streams, with answers of earlier calls still in the stream.      *)
(*                                                                         *)
(* A call that names the VLAN database, the settings of the switch or a    *)
(* port returns normally only when no line of its own was refused; and a   *)
(* call that reads back has compared with pages which its own commands     *)
(* asked for.  The invariant therefore says, for each kind of line, where  *)
(* its answer is: still ahead of the call in the wire or in the stream, or *)
(* read, and then it is what the switch holds.  It has these parts:        *)
(*                                                                         *)
(*   DbInv, GlobalInv   of the VLAN database and of the settings: what was *)
(*                      sent and not refused is in the configuration, or   *)
(*                      on its way there;                                  *)
(*   InSync, AtOk       once a port call has entered its interface, the    *)
(*                      answers read are those of its own lines;           *)
(*   PortMade, ReadBack what its body has made of the port, and that the   *)
(*                      page it reads back was shown after that;           *)
(*   ScriptInv          the collectors of rows, whose lines are made of    *)
(*                      the rows read before;                              *)
(*   CallMade           what the call has made when it returns.            *)
(*                                                                         *)
(* The collectors have an invariant of their own (RowsInv, at the end): a  *)
(* page, however old, shows the number of a row that is still the same     *)
(* one, or has gone; none has taken its place.                             *)
(***************************************************************************)
EXTENDS CliLateProofs

(***************************************************************************)
(* The VLAN database.  An acceptance of "vlanDatabase" that is unread and  *)
(* followed by that of a change can only be the work of a call that has    *)
(* come and gone, and nobody has entered the database since.               *)
(***************************************************************************)
DbKinds  == {"create", "delete"}
Changing == {"create", "remove"}

Same(c, d) == c.do = d.do /\ c.vlan = d.vlan

\* What a change makes true.
Held(c) ==
    /\ c.do = "create" => c.vlan \in shell.config.vlans
    /\ c.do = "remove" => c.vlan \notin shell.config.vlans

\* The change that the call is about, and whether it is still to be sent.
Aim    == OnVlan(IF call.kind = "create" THEN "create" ELSE "remove", call.vlan)
Unsent == todo # <<>> /\ todo[1].do \in Changing

\* Between two changes on the wire there is an exit.
DbRuns ==
    /\ \A k, l \in 1..Len(wire) :
         k < l /\ wire[k].do \in DatabaseCommands /\ wire[l].do \in Changing =>
           \E j \in (k + 1)..(l - 1) : wire[j].do = "exit"
    /\ stage = "body" /\ call.kind \in DbKinds /\ Unsent =>
         \A k \in 1..Len(wire) : wire[k].do \in DatabaseCommands => ExitBehind(k)

Pair(i) ==
    i + 2 <= Len(back) /\ Said(back[i], {"vlanDatabase"}) /\ Said(back[i + 2], Changing)

Pairs ==
    \A i \in 1..Len(back) : Pair(i) =>
      /\ \A h \in 1..(i - 1) : ~Okay(back[h])
      /\ Held(back[i + 2].of)
      /\ \A k \in 1..Len(wire) : wire[k].do \notin Changing
      /\ Won = 0
      /\ call.kind \in DbKinds => ~(stage = "enter" /\ entered = 1)
      /\ call.kind \in DbKinds /\ stage = "body" => ~Unsent

\* The call has been let into the database and not heard of its change.
Inside ==
    /\ call.kind \in DbKinds
    /\ \/ stage = "enter" /\ (Won = 1 \/ entered = 1)
       \/ stage = "body" /\ (Unsent \/ (Waiting /\ awaiting.do \in Changing))

Leads ==
    /\ Inside
    /\ back # <<>> /\ Said(back[1], Changing)
    /\ stage = "body" /\ ~Idle => Same(back[1].of, awaiting)
    => /\ Held(back[1].of)
       /\ \A k \in 1..Len(wire) : wire[k].do \in Changing =>
            stage = "body" /\ ~Idle /\ wire[k] = awaiting

\* The change has been accepted.
Changed ==
    /\ call.kind \in DbKinds
    /\ \/ /\ stage = "body" /\ ~Unsent
          /\ Idle \/ Accepted \/ awaiting.do = "name"
       \/ stage = "unwind" /\ ~failed
       \/ stage \in {"after", "ok"}

Settled ==
    Changed => Held(Aim) /\ \A k \in 1..Len(wire) : wire[k].do \in Changing => Same(wire[k], Aim)

DbInv == DbRuns /\ Pairs /\ Leads /\ Settled

-----------------------------------------------------------------------------
(***************************************************************************)
(* What an execution does to the VLANs.                                    *)
(***************************************************************************)
LEMMA VlansOf ==
    ASSUME NEW s, s.config \in Config, NEW c \in Line, NEW t, NEW out, Outcome(s, c, t, out)
    PROVE  \/ t.config.vlans = s.config.vlans /\ (c.do \in Changing => ~Works(s, c, t, out))
           \/ /\ c.do \in Changing /\ Works(s, c, t, out)
              /\ t.config.vlans = IF c.do = "create" THEN s.config.vlans \cup {c.vlan}
                                  ELSE s.config.vlans \ {c.vlan}
<1> DEFINE f == s.config
<1>0. /\ \A a, b : [f EXCEPT !.certificate = a].vlans = f.vlans
      /\ \A a : [f EXCEPT !.saved = a].vlans = f.vlans /\ [f EXCEPT !.lag = a].vlans = f.vlans
                /\ [f EXCEPT !.https = a].vlans = f.vlans
  BY DEF Config
<1>1. CASE Works(s, c, t, out)
  <2>1. CASE c.do \in DatabaseCommands
    <3>1. t.config = DatabaseEffect(f, c)
      BY <1>1, <2>1 DEF Works
    <3>2. CASE c.do = "create"
      <4>1. t.config = [f EXCEPT !.vlans = f.vlans \cup {c.vlan}]
        BY <3>1, <3>2 DEF DatabaseEffect
      <4> QED BY <1>1, <3>2, <4>1 DEF Config, Changing
    <3>3. CASE c.do = "name"
      BY <3>1, <3>3 DEF DatabaseEffect, Changing
    <3>4. CASE c.do = "remove"
      <4> DEFINE q == [p \in Port |-> IF f.pvid[p] = c.vlan THEN DefaultVlan ELSE f.pvid[p]]
      <4>1. t.config = [f EXCEPT !.vlans = f.vlans \ {c.vlan}, !.member[c.vlan] = {},
                                 !.untagged[c.vlan] = {}, !.pvid = q]
        BY <3>1, <3>4 DEF DatabaseEffect
      <4> HIDE DEF q
      <4> QED BY <1>1, <3>4, <4>1 DEF Config, Changing
    <3> QED BY <2>1, <3>2, <3>3, <3>4 DEF DatabaseCommands
  <2>2. CASE c.do \in InterfaceCommands
    <3>1. t.config = InterfaceEffect(f, c, s.port)
      BY <1>1, <2>2 DEF Works
    <3>2. t.config.vlans = f.vlans
      BY <2>2, <3>1 DEF InterfaceEffect, VlanEffect, SwitchPower, ResetPower, Config,
           InterfaceCommands, PortSettings, VlanCommands
    <3> QED BY <2>2, <3>2 DEF Changing, InterfaceCommands, PortSettings, VlanCommands
  <2>3. CASE c.do \in GlobalCommands
    <3>1. t.config = GlobalEffect(f, c)
      BY <1>1, <2>3 DEF Works
    <3>2. t.config.vlans = f.vlans
      BY <2>3, <3>1 DEF GlobalEffect, Config, GlobalCommands, Globals
    <3> QED BY <2>3, <3>2 DEF Changing, GlobalCommands, Globals
  <2> QED BY <1>1, <2>1, <2>2, <2>3 DEF Works, BodyDos
<1>2. CASE ~Works(s, c, t, out)
  <2>1. t.config.vlans = s.config.vlans
    <3>1. CASE Resolves(s, t, out)
      BY <1>0, <3>1 DEF Resolves
    <3>2. CASE Refuses(s, c, t, out) \/ Queries(s, c, t, out) \/ Descends(s, c, t, out)
               \/ Climbs(s, c, t, out)
      BY <3>2 DEF Refuses, Queries, Descends, Climbs
    <3>3. CASE Looks(s, c, t, out)
      BY <1>0, <3>3 DEF Looks
    <3>4. CASE Passes(s, c, t, out)
      BY <1>0, <3>4 DEF Passes
    <3> QED BY <1>2, <3>1, <3>2, <3>3, <3>4 DEF Outcome
  <2> QED BY <1>2, <2>1
<1> QED BY <1>1, <1>2

\* What has been made true stays so under the same change.
LEMMA HeldKept ==
    ASSUME Typed, Aimed, Executes, NEW x, Held(x), wire[1].do \in Changing => Same(x, wire[1])
    PROVE  Held(x)'
<1>1. wire[1] \in Line /\ \E out \in Seq(Chunk) : Outcome(shell, wire[1], shell', out)
  BY ExecOf
<1>2. PICK out \in Seq(Chunk) : Outcome(shell, wire[1], shell', out)
  BY <1>1
<1>3. shell.config \in Config
  BY DEF Typed, Shell
<1>4. \/ shell'.config.vlans = shell.config.vlans
      \/ /\ wire[1].do \in Changing
         /\ shell'.config.vlans = IF wire[1].do = "create" THEN shell.config.vlans \cup {wire[1].vlan}
                                  ELSE shell.config.vlans \ {wire[1].vlan}
  BY <1>1, <1>2, <1>3, VlansOf
<1> QED BY <1>4 DEF Held, Same, Changing

LEMMA ExecHeld ==
    ASSUME Typed, Aimed, Executes, NEW i \in 1..Len(back'), i \notin 1..Len(back),
           Said(back'[i], Changing), NEW c, c = wire[1]
    PROVE  /\ i = Len(back) + 1 /\ Len(back) \in Nat /\ back'[i].of = c
           /\ c.do \in Changing /\ Held(c)'
<1>1. back'[i].says = "nothing" /\ back'[i].of.do \in Changing
  BY DEF Said
<1>2. /\ i = Len(back) + 1 /\ Len(back) \in Nat /\ Len(back') = Len(back) + 2
      /\ back'[i].of = wire[1]
  BY <1>1, ExecSays
<1>3. wire[1] \in Line /\ back \in Seq(Chunk) /\ shell.config \in Config
  BY ExecOf DEF Typed, Shell
<1>4. PICK out \in Seq(Chunk) : Outcome(shell, wire[1], shell', out) /\ back' = back \o out
  BY ExecOf
<1>5. Len(out) \in Nat /\ Len(back') = Len(back) + Len(out)
      /\ \A k \in 1..Len(out) : back'[Len(back) + k] = out[k]
  BY <1>3, <1>4, Joined
<1>6. 1 \in 1..Len(out) /\ out[1].says = "nothing"
  BY <1>1, <1>2, <1>5
<1>7. \/ Descends(shell, wire[1], shell', out) \/ Climbs(shell, wire[1], shell', out)
      \/ Works(shell, wire[1], shell', out) \/ Passes(shell, wire[1], shell', out)
  BY <1>3, <1>4, <1>6, OutcomeSaid
<1>8. wire[1].do \in Changing
  BY <1>1, <1>2
<1>9. Works(shell, wire[1], shell', out)
  BY <1>7, <1>8 DEF Descends, Climbs, Passes, Changing, EnterDos
<1>10. shell'.config.vlans = IF wire[1].do = "create" THEN shell.config.vlans \cup {wire[1].vlan}
                             ELSE shell.config.vlans \ {wire[1].vlan}
  BY <1>3, <1>4, <1>8, <1>9, VlansOf
<1> QED BY <1>2, <1>8, <1>10 DEF Held, Changing

\* The body of a call for the database.
LEMMA DbBody ==
    ASSUME Typed, StageFits, Descent, stage = "body", call.kind \in DbKinds
    PROVE  /\ entered = 1 /\ Owed = 1
           /\ Len(todo) \in Nat
           /\ \A k \in 1..Len(todo) : todo[k].do \in Changing => k = 1 /\ todo[k] = Aim
           /\ Unsent => Idle
           /\ \A m \in 1..Len(BodyCommands(call, victim)) :
                BodyCommands(call, victim)[m].do \in Changing => BodyCommands(call, victim)[m] = Aim
           /\ ~Idle /\ awaiting.do \in Changing => awaiting = Aim
           /\ ~Idle => awaiting.do \in Changing \cup {"name"}
           /\ \A k \in 1..Len(todo) : todo[k].do \in Changing \cup {"name"}
           /\ Aim.do \in Changing
<1> DEFINE cmds == BodyCommands(call, victim)
           n == Len(cmds) - Len(todo)
<1>1. call \in Call /\ call.kind \notin {"reboot", "deploy"} /\ victim \in Nat
  BY DeepCall DEF Resting
<1>2. EnterCommands(call) = <<Do("vlanDatabase")>>
  BY <1>1, EnterIs DEF DbKinds
<1>3. /\ n \in 0..Len(cmds)
      /\ \A k \in 1..Len(todo) : todo[k] = cmds[n + k]
      /\ entered = Len(EnterCommands(call))
      /\ ~Idle => n >= 1 /\ awaiting = cmds[n]
  BY DEF Descent
<1>4. entered = 1 /\ Owed = 1
  BY <1>2, <1>3 DEF Owed
<1>5. Len(todo) \in Nat /\ todo \in Seq(Line)
  BY DEF Typed
<1>6. \A k, v : OnVlan(k, v).do = k /\ OnVlan(k, v).vlan = v
  BY DEF OnVlan, Do
<1>7. CASE call.kind = "create"
  <2>1. cmds = <<OnVlan("create", call.vlan), OnVlan("name", call.vlan)>>
    BY <1>7 DEF BodyCommands, PortSettings
  <2>2. Len(cmds) = 2 /\ cmds[1] = Aim /\ cmds[2] = OnVlan("name", call.vlan)
    BY <1>7, <2>1 DEF Aim
  <2>3. Aim.do = "create" /\ cmds[2].do = "name"
    BY <1>6, <1>7, <2>2 DEF Aim
  <2> HIDE DEF cmds
  <2>4. \A m \in 1..Len(cmds) : m = 1 \/ m = 2
    BY <2>2
  <2> DEFINE N == n
  <2>5. N \in 0..2 /\ Len(todo) = 2 - N /\ \A k \in 1..Len(todo) : todo[k] = cmds[N + k]
    BY <1>3, <1>5, <2>2
  <2>6. \A k \in 1..Len(todo) : N + k \in 1..2 /\ (N + k = 1 => k = 1 /\ N = 0)
    BY <1>5, <2>5
  <2>7. \A k \in 1..Len(todo) : todo[k].do \in Changing => k = 1 /\ N = 0 /\ todo[k] = Aim
    BY <2>2, <2>3, <2>4, <2>5, <2>6 DEF Changing
  <2>8. Unsent => N = 0
    <3>1. SUFFICES ASSUME Unsent PROVE N = 0
      OBVIOUS
    <3>2. 1 \in 1..Len(todo)
      BY <1>5, <3>1, EmptySeq DEF Unsent
    <3> QED BY <2>7, <3>1, <3>2 DEF Unsent
  <2>9. ~Idle => N \in 1..2 /\ awaiting = cmds[N]
    BY <1>3, <2>5
  <2>10. /\ Unsent => Idle
         /\ \A m \in 1..Len(cmds) : cmds[m].do \in Changing => cmds[m] = Aim
         /\ ~Idle /\ awaiting.do \in Changing => awaiting = Aim
         /\ ~Idle => awaiting.do \in Changing \cup {"name"}
    <3>1. \A m \in 1..Len(cmds) : cmds[m].do \in Changing => cmds[m] = Aim
      BY <2>2, <2>3, <2>4 DEF Changing
    <3>2. ~Idle => N \in {1, 2}
      BY <2>9
    <3>3. ~Idle => awaiting = Aim \/ (awaiting.do = "name" /\ awaiting = cmds[2])
      <4> HIDE DEF N
      <4>1. CASE ~Idle /\ N = 1
        BY <2>2, <2>9, <4>1
      <4>2. CASE ~Idle /\ N = 2
        BY <2>2, <2>3, <2>9, <4>2
      <4> QED BY <3>2, <4>1, <4>2
    <3>4. Unsent => Idle
      BY <2>8, <3>2
    <3> QED BY <2>3, <3>1, <2>2, <3>3, <3>4 DEF Changing
  <2>11. \A k \in 1..Len(todo) : todo[k].do \in Changing \cup {"name"}
    BY <2>2, <2>3, <2>4, <2>5, <2>6 DEF Changing
  <2> QED BY <1>4, <1>5, <2>3, <2>7, <2>10, <2>11 DEF cmds, Changing
<1>8. CASE call.kind = "delete"
  <2>1. cmds = <<OnVlan("remove", call.vlan)>>
    BY <1>8 DEF BodyCommands, PortSettings
  <2>2. Len(cmds) = 1 /\ cmds[1] = Aim
    BY <1>8, <2>1 DEF Aim
  <2>3. Aim.do = "remove"
    BY <1>6, <1>8 DEF Aim
  <2> HIDE DEF cmds
  <2> DEFINE N == n
  <2>5. N \in 0..1 /\ Len(todo) = 1 - N /\ \A k \in 1..Len(todo) : todo[k] = cmds[N + k]
    BY <1>3, <1>5, <2>2
  <2>6. \A k \in 1..Len(todo) : k = 1 /\ N = 0
    BY <1>5, <2>5
  <2>8. Unsent => N = 0
    <3>1. SUFFICES ASSUME Unsent PROVE N = 0
      OBVIOUS
    <3>2. 1 \in 1..Len(todo)
      BY <1>5, <3>1, EmptySeq DEF Unsent
    <3> QED BY <2>6, <3>1, <3>2
  <2>9. ~Idle => N = 1 /\ awaiting = cmds[N]
    BY <1>3, <2>5
  <2>10. /\ Unsent => Idle
         /\ \A m \in 1..Len(cmds) : cmds[m].do \in Changing => cmds[m] = Aim
         /\ ~Idle /\ awaiting.do \in Changing => awaiting = Aim
         /\ ~Idle => awaiting.do \in Changing \cup {"name"}
    BY <2>2, <2>3, <2>8, <2>9 DEF Changing
  <2>11. \A k \in 1..Len(todo) : todo[k] = Aim /\ todo[k].do \in Changing \cup {"name"}
    BY <2>2, <2>3, <2>5, <2>6 DEF Changing
  <2> QED BY <1>4, <1>5, <2>3, <2>6, <2>10, <2>11 DEF cmds, Changing
<1> QED BY <1>7, <1>8 DEF DbKinds

-----------------------------------------------------------------------------
(***************************************************************************)
(* A change that is about to be executed: the levels leave no room for     *)
(* another acceptance, or for another change.                              *)
(***************************************************************************)
\* Whoever has sent a change owes an exit for it.
LEMMA ChangeOwned ==
    ASSUME Typed, StageFits, Owned, NEW k \in 1..Len(wire), wire[k].do \in Changing
    PROVE  \/ ExitBehind(k)
           \/ stage = "body" /\ entered = 1 /\ Mine(k) /\ Owed = 1
           \/ stage = "unwind" /\ Owed \in Nat /\ Owed >= 1
<1>1. wire[k].do \in TiedDos /\ wire[k].do \notin InnerDos
  BY DEF TiedDos, InnerDos, Changing, DatabaseCommands
<1>2. CASE ExitBehind(k)
  BY <1>2
<1>3. CASE Mine(k)
  <2>1. stage = "body" /\ entered = 1
    BY <1>1, <1>3 DEF Mine
  <2> QED BY <1>3, <2>1 DEF Owed
<1>4. CASE stage = "unwind" /\ Idle /\ todo # <<>>
  <2>1. Len(todo) \in Nat /\ Len(todo) >= 1
    BY <1>4, EmptySeq DEF Typed
  <2> QED BY <1>4, <2>1 DEF Owed
<1> QED BY <1>1, <1>2, <1>3, <1>4 DEF Owned

LEMMA HeadTaken ==
    ASSUME Typed, StageFits, Descent, Credit, Owned, DbRuns, wire # <<>>, wire[1].do \in Changing
    PROVE  /\ \A h, i \in 1..Len(back) : Okay(back[h]) /\ Okay(back[i]) => h = i
           /\ Won = 1 => \A i \in 1..Len(back) : ~Okay(back[i])
           /\ (Won = 1 \/ \E i \in 1..Len(back) : Okay(back[i])) =>
                /\ \A k \in 2..Len(wire) : wire[k].do \notin Changing
                /\ stage \in {"enter", "body"} /\ entered = 1 => ~ExitBehind(1)
           /\ stage = "enter" /\ entered = 1 =>
                /\ \A k \in 2..Len(wire) : wire[k].do \notin Changing
                /\ ExitBehind(1)
           /\ stage = "body" /\ entered = 1 =>
                \A k \in 2..Len(wire) : wire[k].do \in Changing => Mine(k) /\ ~ExitBehind(k)
<1> DEFINE o == Cardinality(Oks)
           x == Cardinality(Outs)
           d == Owed
           L == Len(shell.modes)
<1>1. entered \in Nat
  BY DEF StageFits
<1>2. /\ Won \in {0, 1} /\ d \in Nat /\ L \in Nat /\ o \in Nat /\ x \in Nat
      /\ o + Won + x + d <= L
      /\ (\E k \in 1..Len(wire) : wire[k].do = "exit") => x >= 1
      /\ (\E i \in 1..Len(back) : Okay(back[i])) => o >= 1
  BY <1>1, CreditFacts
<1>3. L <= 2
  BY LevelLens DEF Typed
<1>4. Len(wire) \in Nat /\ Len(back) \in Nat /\ Len(wire) >= 1
  BY EmptySeq DEF Typed
<1>5. Oks \subseteq 1..Len(back) /\ Outs \subseteq 1..Len(wire)
  BY DEF Oks, Outs
<1>6. IsFiniteSet(Oks) /\ IsFiniteSet(Outs)
  BY <1>4, <1>5, CountType
<1>7. (\A a, b \in Oks : a # b => o >= 2) /\ (\A a, b \in Outs : a # b => x >= 2)
  BY <1>6, CountSome
<1> HIDE DEF o, x, d, L
<1>8. 1 \in 1..Len(wire)
  BY <1>4
<1>9. \A k \in 1..Len(wire) : ExitBehind(k) => \E j \in Outs : j > k
  BY <1>4 DEF ExitBehind, Outs
<1>10. \A k \in 1..Len(wire) : ExitBehind(k) => x >= 1
  BY <1>2, <1>9 DEF Outs
<1>11. x + d >= 1
  <2>1. \/ ExitBehind(1)
        \/ stage = "body" /\ entered = 1 /\ Mine(1) /\ d = 1
        \/ stage = "unwind" /\ d \in Nat /\ d >= 1
    BY <1>8, ChangeOwned DEF d
  <2> QED BY <1>2, <1>8, <1>10, <2>1
<1>12. \A k \in 2..Len(wire) : wire[k].do \in Changing =>
          /\ x >= 1 /\ x + d >= 2
          /\ ExitBehind(k) => x >= 2
  <2> SUFFICES ASSUME NEW k \in 2..Len(wire), wire[k].do \in Changing
               PROVE  x >= 1 /\ x + d >= 2 /\ (ExitBehind(k) => x >= 2)
    OBVIOUS
  <2>1. k \in 1..Len(wire) /\ 1 < k /\ wire[1].do \in DatabaseCommands
    BY <1>4 DEF Changing, DatabaseCommands
  <2>2. PICK j \in (1 + 1)..(k - 1) : wire[j].do = "exit"
    BY <1>8, <2>1 DEF DbRuns
  <2>3. j \in 1..Len(wire) /\ j < k /\ j \in Outs
    BY <1>4, <2>1, <2>2 DEF Outs
  <2>4. x >= 1
    BY <1>2, <2>2, <2>3
  <2>5. ExitBehind(k) => x >= 2
    <3> SUFFICES ASSUME ExitBehind(k) PROVE x >= 2
      OBVIOUS
    <3>1. PICK i \in Outs : i > k
      BY <1>9, <2>1
    <3>2. i # j
      BY <1>4, <1>5, <2>3, <3>1
    <3> QED BY <1>7, <2>3, <3>1, <3>2
  <2>6. \/ ExitBehind(k)
        \/ stage = "body" /\ entered = 1 /\ Mine(k) /\ d = 1
        \/ stage = "unwind" /\ d \in Nat /\ d >= 1
    BY <2>1, ChangeOwned DEF d
  <2> QED BY <1>2, <2>4, <2>5, <2>6
<1>13. o + Won <= 1
  BY <1>2, <1>3, <1>11
<1>14. \A h, i \in 1..Len(back) : Okay(back[h]) /\ Okay(back[i]) => h = i
  <2> SUFFICES ASSUME NEW h \in 1..Len(back), NEW i \in 1..Len(back), Okay(back[h]), Okay(back[i]),
                      h # i
               PROVE  FALSE
    OBVIOUS
  <2>1. h \in Oks /\ i \in Oks
    BY DEF Oks
  <2> QED BY <1>2, <1>7, <1>13, <2>1
<1>15. Won = 1 => \A i \in 1..Len(back) : ~Okay(back[i])
  BY <1>2, <1>13
<1>16. stage \in {"enter", "body"} /\ entered = 1 => d = 1
  BY DEF d, Owed
<1>17. (Won = 1 \/ \E i \in 1..Len(back) : Okay(back[i])) =>
         /\ \A k \in 2..Len(wire) : wire[k].do \notin Changing
         /\ stage \in {"enter", "body"} /\ entered = 1 => ~ExitBehind(1)
  <2> SUFFICES ASSUME Won = 1 \/ \E i \in 1..Len(back) : Okay(back[i])
               PROVE  /\ \A k \in 2..Len(wire) : wire[k].do \notin Changing
                      /\ stage \in {"enter", "body"} /\ entered = 1 => ~ExitBehind(1)
    OBVIOUS
  <2>1. o + Won >= 1
    BY <1>2
  <2>2. x + d <= 1
    BY <1>2, <1>3, <2>1
  <2>3. \A k \in 2..Len(wire) : wire[k].do \notin Changing
    BY <1>2, <1>12, <2>2
  <2>4. stage \in {"enter", "body"} /\ entered = 1 => ~ExitBehind(1)
    BY <1>2, <1>8, <1>10, <1>16, <2>2
  <2> QED BY <2>3, <2>4
<1>18. stage = "enter" /\ entered = 1 =>
         /\ \A k \in 2..Len(wire) : wire[k].do \notin Changing
         /\ ExitBehind(1)
  <2> SUFFICES ASSUME stage = "enter", entered = 1
               PROVE  /\ \A k \in 2..Len(wire) : wire[k].do \notin Changing
                      /\ ExitBehind(1)
    OBVIOUS
  <2>1. \A k \in 1..Len(wire) : wire[k].do \in Changing => ExitBehind(k)
    BY ChangeOwned
  <2>2. x <= 1
    BY <1>2, <1>3, <1>16
  <2>3. \A k \in 2..Len(wire) : wire[k].do \notin Changing
    BY <1>2, <1>4, <1>12, <2>1, <2>2
  <2> QED BY <1>8, <2>1, <2>3
<1>19. stage = "body" /\ entered = 1 =>
         \A k \in 2..Len(wire) : wire[k].do \in Changing => Mine(k) /\ ~ExitBehind(k)
  <2> SUFFICES ASSUME stage = "body", entered = 1, NEW k \in 2..Len(wire), wire[k].do \in Changing
               PROVE  Mine(k) /\ ~ExitBehind(k)
    OBVIOUS
  <2>1. x <= 1
    BY <1>2, <1>3, <1>16
  <2>2. ~ExitBehind(k)
    BY <1>2, <1>12, <2>1
  <2>3. k \in 1..Len(wire)
    BY <1>4
  <2> QED BY <2>2, <2>3, ChangeOwned
<1> QED BY <1>14, <1>15, <1>17, <1>18, <1>19

LEMMA DbRunsExecutes ==
    ASSUME Typed, Aimed, DbRuns, Executes, UNCHANGED writerVars
    PROVE  DbRuns'
<1>1. /\ wire \in Seq(Line) /\ wire # <<>> /\ (wire' = <<>> \/ wire' = Tail(wire))
      /\ UNCHANGED <<call, stage, todo>>
  BY ExecOf DEF Typed, writerVars
<1>2. /\ Len(wire) \in Nat /\ Len(wire') \in Nat
      /\ \A k \in 1..Len(wire') :
           wire'[k] = wire[k + 1] /\ k + 1 \in 1..Len(wire) /\ k \in Nat /\ Len(wire) = Len(wire') + 1
  BY <1>1, ExecWire
<1>3. ASSUME NEW k \in 1..Len(wire'), NEW l \in 1..Len(wire'), k < l,
             wire'[k].do \in DatabaseCommands, wire'[l].do \in Changing
      PROVE  \E j \in (k + 1)..(l - 1) : wire'[j].do = "exit"
  <2>1. k + 1 \in 1..Len(wire) /\ l + 1 \in 1..Len(wire) /\ k + 1 < l + 1
        /\ wire[k + 1].do \in DatabaseCommands /\ wire[l + 1].do \in Changing
    BY <1>2, <1>3
  <2>2. PICK j \in ((k + 1) + 1)..((l + 1) - 1) : wire[j].do = "exit"
    BY <2>1 DEF DbRuns
  <2>3. j - 1 \in (k + 1)..(l - 1) /\ j - 1 \in 1..Len(wire') /\ (j - 1) + 1 = j
    BY <1>2, <2>2
  <2>4. wire'[j - 1].do = "exit"
    BY <1>2, <2>2, <2>3
  <2> QED BY <2>3, <2>4
<1>4. ASSUME stage = "body", call.kind \in DbKinds, Unsent, NEW k \in 1..Len(wire'),
             wire'[k].do \in DatabaseCommands
      PROVE  ExitBehind(k)'
  <2>1. k + 1 \in 1..Len(wire) /\ wire[k + 1].do \in DatabaseCommands
    BY <1>2, <1>4
  <2>2. ExitBehind(k + 1)
    BY <1>4, <2>1 DEF DbRuns
  <2>3. PICK j \in ((k + 1) + 1)..Len(wire) : wire[j].do = "exit"
    BY <2>2 DEF ExitBehind
  <2>4. j - 1 \in (k + 1)..Len(wire') /\ j - 1 \in 1..Len(wire') /\ (j - 1) + 1 = j
    BY <1>2, <2>3
  <2>5. wire'[j - 1].do = "exit"
    BY <1>2, <2>3, <2>4
  <2> QED BY <2>4, <2>5 DEF ExitBehind
<1>5. Unsent' <=> Unsent
  BY <1>1 DEF Unsent
<1> QED BY <1>1, <1>3, <1>4, <1>5 DEF DbRuns

\* The two ends of the channel when a line is executed.
LEMMA ExecEnds ==
    ASSUME Typed, Aimed, Executes, UNCHANGED writerVars
    PROVE  /\ wire \in Seq(Line) /\ wire # <<>> /\ Len(wire) \in Nat
           /\ \A k \in 1..Len(wire') : \E l \in 2..Len(wire) : wire'[k] = wire[l]
           /\ Len(back) \in Nat /\ Len(back') \in Nat /\ Len(back) <= Len(back')
           /\ \A i \in 1..Len(back) : back'[i] = back[i] /\ i \in 1..Len(back')
           /\ UNCHANGED <<stage, entered, call, todo, failed, victim, awaiting, answer>>
           /\ Won' = Won /\ (Idle' <=> Idle) /\ (Waiting' <=> Waiting) /\ (Unsent' <=> Unsent)
           /\ (Accepted' <=> Accepted) /\ Aim' = Aim /\ (Broken' <=> Broken)
<1>1. /\ wire \in Seq(Line) /\ wire # <<>> /\ (wire' = <<>> \/ wire' = Tail(wire))
      /\ UNCHANGED <<call, stage, todo, entered, failed, victim, awaiting, answer>>
  BY ExecOf DEF Typed, writerVars
<1>2. /\ Len(wire) \in Nat /\ Len(wire') \in Nat
      /\ \A k \in 1..Len(wire') :
           wire'[k] = wire[k + 1] /\ k + 1 \in 1..Len(wire) /\ k \in Nat /\ Len(wire) = Len(wire') + 1
  BY <1>1, ExecWire
<1>3. \A k \in 1..Len(wire') : \E l \in 2..Len(wire) : wire'[k] = wire[l]
  <2> SUFFICES ASSUME NEW k \in 1..Len(wire') PROVE \E l \in 2..Len(wire) : wire'[k] = wire[l]
    OBVIOUS
  <2>1. k + 1 \in 2..Len(wire) /\ wire'[k] = wire[k + 1]
    BY <1>2
  <2> QED BY <2>1
<1>4. back \in Seq(Chunk) /\ \E out \in Seq(Chunk) : back' = back \o out
  BY ExecOf
<1>5. PICK out \in Seq(Chunk) : back' = back \o out
  BY <1>4
<1>6. /\ Len(back) \in Nat /\ Len(out) \in Nat /\ Len(back') = Len(back) + Len(out)
      /\ \A i \in 1..Len(back) : back'[i] = back[i]
  BY <1>4, <1>5, Joined
<1>7. Len(back') \in Nat /\ Len(back) <= Len(back') /\ \A i \in 1..Len(back) : i \in 1..Len(back')
  BY <1>6
<1>8. /\ Won' = Won /\ (Idle' <=> Idle) /\ (Waiting' <=> Waiting) /\ (Unsent' <=> Unsent)
      /\ (Accepted' <=> Accepted) /\ Aim' = Aim /\ (Broken' <=> Broken)
  BY <1>1 DEF Won, Idle, Waiting, Unsent, Accepted, Aim, Broken
<1> QED BY <1>1, <1>2, <1>3, <1>6, <1>7, <1>8

LEMMA PairsExecutes ==
    ASSUME Typed, Aimed, StageFits, Descent, Credit, Owned, DbRuns, Pairs, Executes,
           UNCHANGED writerVars
    PROVE  Pairs'
<1>0. /\ wire \in Seq(Line) /\ wire # <<>> /\ Len(wire) \in Nat
      /\ \A k \in 1..Len(wire') : \E l \in 2..Len(wire) : wire'[k] = wire[l]
      /\ Len(back) \in Nat /\ Len(back') \in Nat /\ Len(back) <= Len(back')
      /\ \A i \in 1..Len(back) : back'[i] = back[i] /\ i \in 1..Len(back')
      /\ UNCHANGED <<stage, entered, call>>
      /\ Won' = Won /\ (Unsent' <=> Unsent)
  BY ExecEnds
<1>1. ASSUME NEW i \in 1..Len(back'), Pair(i)'
      PROVE  /\ \A h \in 1..(i - 1) : ~Okay(back'[h])
             /\ \A x : x = back'[i + 2].of => Held(x)'
             /\ \A k \in 1..Len(wire') : wire'[k].do \notin Changing
             /\ Won' = 0
             /\ call.kind \in DbKinds => ~(stage = "enter" /\ entered = 1)
             /\ call.kind \in DbKinds /\ stage = "body" => ~Unsent
  <2>0. i + 2 \in 1..Len(back') /\ Said(back'[i], {"vlanDatabase"}) /\ Said(back'[i + 2], Changing)
    BY <1>0, <1>1 DEF Pair
  <2>1. CASE i + 2 <= Len(back)
    <3>1. i \in 1..Len(back) /\ i + 2 \in 1..Len(back) /\ Pair(i)
      BY <1>0, <2>0, <2>1 DEF Pair
    <3>2. /\ \A h \in 1..(i - 1) : ~Okay(back[h])
          /\ Held(back[i + 2].of)
          /\ \A k \in 1..Len(wire) : wire[k].do \notin Changing
          /\ Won = 0
          /\ call.kind \in DbKinds => ~(stage = "enter" /\ entered = 1)
          /\ call.kind \in DbKinds /\ stage = "body" => ~Unsent
      BY <3>1 DEF Pairs
    <3>3. \A h \in 1..(i - 1) : h \in 1..Len(back)
      BY <1>0, <3>1
    <3>4. wire[1].do \notin Changing
      BY <1>0, <3>2, EmptySeq
    <3>5. \A x : x = back'[i + 2].of => Held(x)'
      BY <1>0, <3>1, <3>2, <3>4, HeldKept
    <3> QED BY <1>0, <3>2, <3>3, <3>5
  <2>2. CASE ~(i + 2 <= Len(back))
    <3> DEFINE c == wire[1]
    <3>1. /\ i + 2 = Len(back) + 1 /\ back'[i + 2].of = c
          /\ c.do \in Changing
          /\ \A x : x = c => Held(x)'
      <4>1. i + 2 \notin 1..Len(back)
        BY <2>2
      <4> SUFFICES ASSUME NEW x, x = wire[1]
                   PROVE  /\ i + 2 = Len(back) + 1 /\ back'[i + 2].of = x
                          /\ x.do \in Changing /\ Held(x)'
        OBVIOUS
      <4> QED BY <2>0, <4>1, ExecHeld
    <3>2. i \in 1..Len(back) /\ i = Len(back) - 1
      BY <1>0, <3>1
    <3>3. Okay(back[i])
      BY <1>0, <2>0, <3>2 DEF Okay, Said, EnterDos
    <3>4. /\ \A h, j \in 1..Len(back) : Okay(back[h]) /\ Okay(back[j]) => h = j
          /\ Won = 1 => \A j \in 1..Len(back) : ~Okay(back[j])
          /\ (Won = 1 \/ \E j \in 1..Len(back) : Okay(back[j])) =>
                /\ \A k \in 2..Len(wire) : wire[k].do \notin Changing
                /\ stage \in {"enter", "body"} /\ entered = 1 => ~ExitBehind(1)
          /\ stage = "enter" /\ entered = 1 => ExitBehind(1)
      BY <1>0, <3>1, HeadTaken
    <3>5. /\ \A k \in 2..Len(wire) : wire[k].do \notin Changing
          /\ stage \in {"enter", "body"} /\ entered = 1 => ~ExitBehind(1)
      BY <3>2, <3>3, <3>4
    <3>6. Won \in {0, 1}
      BY DEF Won
    <3>7. Won = 0
      BY <3>2, <3>3, <3>4, <3>6
    <3>8. \A h \in 1..(i - 1) : ~Okay(back'[h])
      <4> SUFFICES ASSUME NEW h \in 1..(i - 1), Okay(back'[h]) PROVE FALSE
        OBVIOUS
      <4>1. h \in 1..Len(back) /\ h # i
        BY <1>0, <3>2
      <4> QED BY <1>0, <3>2, <3>3, <3>4, <4>1
    <3>9. call.kind \in DbKinds /\ stage = "body" => ~Unsent
      <4> SUFFICES ASSUME call.kind \in DbKinds, stage = "body", Unsent PROVE FALSE
        OBVIOUS
      <4>1. entered = 1
        BY DbBody
      <4>2. 1 \in 1..Len(wire) /\ wire[1].do \in DatabaseCommands
        BY <1>0, <3>1, EmptySeq DEF Changing, DatabaseCommands
      <4>3. ExitBehind(1)
        BY <4>2 DEF DbRuns
      <4> QED BY <3>5, <4>1, <4>3
    <3> QED BY <1>0, <3>1, <3>4, <3>5, <3>7, <3>8, <3>9
  <2> QED BY <2>1, <2>2
<1> QED BY <1>0, <1>1 DEF Pairs

LEMMA LeadsExecutes ==
    ASSUME Typed, Aimed, StageFits, Descent, Credit, Owned, DbRuns, Leads, Executes,
           UNCHANGED writerVars
    PROVE  Leads'
<1>0. /\ wire \in Seq(Line) /\ wire # <<>> /\ Len(wire) \in Nat
      /\ \A k \in 1..Len(wire') : \E l \in 2..Len(wire) : wire'[k] = wire[l]
      /\ Len(back) \in Nat /\ Len(back') \in Nat /\ Len(back) <= Len(back')
      /\ \A i \in 1..Len(back) : back'[i] = back[i] /\ i \in 1..Len(back')
      /\ UNCHANGED <<stage, entered, call, awaiting>>
      /\ Won' = Won /\ (Idle' <=> Idle) /\ (Waiting' <=> Waiting) /\ (Unsent' <=> Unsent)
  BY ExecEnds
<1>1. Inside' <=> Inside
  BY <1>0 DEF Inside
<1> SUFFICES ASSUME Inside, back' # <<>>, Said(back'[1], Changing),
                    stage = "body" /\ ~Idle => Same(back'[1].of, awaiting),
                    NEW x, x = back'[1].of
             PROVE  /\ Held(x)'
                    /\ \A k \in 1..Len(wire') : wire'[k].do \in Changing =>
                         stage = "body" /\ ~Idle /\ wire'[k] = awaiting
  BY <1>0, <1>1 DEF Leads
<1>2. CASE back # <<>>
  <2>1. back'[1] = back[1]
    BY <1>0, <1>2, EmptySeq DEF Typed
  <2>2. /\ Held(x)
        /\ \A k \in 1..Len(wire) : wire[k].do \in Changing =>
             stage = "body" /\ ~Idle /\ wire[k] = awaiting
    BY <1>2, <2>1 DEF Leads
  <2>3. 1 \in 1..Len(wire)
    BY <1>0, EmptySeq
  <2>4. wire[1].do \in Changing => Same(x, wire[1])
    BY <2>2, <2>3
  <2>5. Held(x)'
    BY <2>2, <2>4, HeldKept
  <2> QED BY <1>0, <2>2, <2>5
<1>3. CASE back = <<>>
  <2>1. Len(back) = 0 /\ 1 \in 1..Len(back') /\ 1 \notin 1..Len(back)
    <3>1. back' \in Seq(Chunk)
      BY TypedExecutes DEF Typed
    <3> QED BY <1>0, <1>3, <3>1, EmptySeq
  <2>2. x = wire[1] /\ x.do \in Changing /\ Held(x)'
    <3>1. ASSUME NEW c, c = wire[1] PROVE back'[1].of = c /\ c.do \in Changing /\ Held(c)'
      BY <2>1, <3>1, ExecHeld
    <3> QED BY <3>1
  <2>3. /\ (Won = 1 \/ \E i \in 1..Len(back) : Okay(back[i])) =>
             \A k \in 2..Len(wire) : wire[k].do \notin Changing
        /\ stage = "enter" /\ entered = 1 =>
                \A k \in 2..Len(wire) : wire[k].do \notin Changing
        /\ stage = "body" /\ entered = 1 =>
                \A k \in 2..Len(wire) : wire[k].do \in Changing => Mine(k) /\ ~ExitBehind(k)
    BY <1>0, <2>2, HeadTaken
  <2>4. CASE stage = "enter"
    BY <1>0, <2>2, <2>3, <2>4 DEF Inside
  <2>5. CASE stage = "body"
    <3>1. call.kind \in DbKinds
      BY DEF Inside
    <3>2. /\ entered = 1
          /\ \A m \in 1..Len(BodyCommands(call, victim)) :
               BodyCommands(call, victim)[m].do \in Changing => BodyCommands(call, victim)[m] = Aim
          /\ ~Idle /\ awaiting.do \in Changing => awaiting = Aim
      BY <2>5, <3>1, DbBody
    <3>3. ASSUME NEW k \in 2..Len(wire), wire[k].do \in Changing
          PROVE  stage = "body" /\ ~Idle /\ wire[k] = awaiting
      <4>1. Mine(k) /\ ~ExitBehind(k) /\ k \in 1..Len(wire) /\ wire[k].do \in DatabaseCommands
        BY <1>0, <2>3, <2>5, <3>2, <3>3 DEF Changing, DatabaseCommands
      <4>2. ~Unsent
        BY <2>5, <3>1, <4>1 DEF DbRuns
      <4>3. ~Idle /\ awaiting.do \in Changing
        BY <2>5, <4>2 DEF Inside, Waiting, Idle
      <4>4. wire[k] = Aim
        BY <3>2, <3>3, <4>1, <2>5 DEF Mine, InnerDos, Changing
      <4> QED BY <2>5, <3>2, <4>3, <4>4
    <3> QED BY <1>0, <2>2, <3>3
  <2> QED BY <2>4, <2>5 DEF Inside
<1> QED BY <1>2, <1>3

LEMMA SettledExecutes ==
    ASSUME Typed, Aimed, Settled, Executes, UNCHANGED writerVars
    PROVE  Settled'
<1>0. /\ wire \in Seq(Line) /\ wire # <<>> /\ Len(wire) \in Nat
      /\ \A k \in 1..Len(wire') : \E l \in 2..Len(wire) : wire'[k] = wire[l]
      /\ UNCHANGED <<stage, entered, call, awaiting, failed>>
      /\ Won' = Won /\ (Idle' <=> Idle) /\ (Waiting' <=> Waiting) /\ (Unsent' <=> Unsent)
      /\ (Accepted' <=> Accepted) /\ Aim' = Aim
  BY ExecEnds
<1>1. Changed' <=> Changed
  BY <1>0 DEF Changed
<1> SUFFICES ASSUME Changed, NEW x, x = Aim
             PROVE  /\ Held(x)'
                    /\ \A k \in 1..Len(wire') : wire'[k].do \in Changing => Same(wire'[k], x)
  BY <1>0, <1>1 DEF Settled
<1>2. Held(x) /\ \A k \in 1..Len(wire) : wire[k].do \in Changing => Same(wire[k], x)
  BY DEF Settled
<1>3. 1 \in 1..Len(wire)
  BY <1>0, EmptySeq
<1>4. wire[1].do \in Changing => Same(x, wire[1])
  BY <1>2, <1>3 DEF Same
<1>5. Held(x)'
  BY <1>2, <1>4, HeldKept
<1> QED BY <1>0, <1>2, <1>5

LEMMA DbExecutes ==
    ASSUME IInv, LateInv, DbInv, Executes, UNCHANGED writerVars
    PROVE  DbInv'
BY DbRunsExecutes, PairsExecutes, LeadsExecutes, SettledExecutes DEF IInv, LateInv, DbInv
(***************************************************************************)
(* Reading.  An answer that is taken for success is the first two chunks.  *)
(***************************************************************************)
LEMMA AcceptedFirst ==
    ASSUME IInv, Typed, Prompts, Attached, ReadKeeps, NEW n, ReadOf(n), Typed',
           stage \in {"enter", "body"}, Accepted'
    PROVE  /\ n = 2 /\ Len(back) \in Nat /\ Len(back) >= 2 /\ back[2] = Prompt
           /\ back[1] \in Text /\ back[1].says = "nothing"
           /\ Same(back[1].of, awaiting) /\ back[1].of.on = awaiting.on
           /\ back[1].of.host = awaiting.host /\ back[1].of.row = awaiting.row
           /\ awaiting' = awaiting
<1>1. ComesBack(n) /\ awaiting' = awaiting /\ back[n] = Prompt
  BY AcceptedChunk
<1>2. answer'.texts # <<>>
  BY TextsThere DEF Accepted
<1>3. /\ Len(answer'.texts) = 1 /\ answer'.texts[1].says = "nothing"
      /\ [answer'.texts[1].of EXCEPT !.port = NoPort] = [awaiting EXCEPT !.port = NoPort]
  BY <1>1, <1>2 DEF Accepted, IsEmpty
<1>4. PICK h : Picked(answer'.texts, n, h)
  BY <1>1, ReturnedTexts
<1>5. h[1] \in 1..n /\ answer'.texts[1] = back[h[1]] /\ answer'.texts[1] \in Text
  BY <1>3, <1>4 DEF Picked
<1>6. n \in 1..Len(back) /\ Len(back) \in Nat /\ back # <<>>
  BY <1>1, EmptySeq DEF ReadOf, ComesBack, Typed
<1>7. \A j \in 1..n : back[j] # Prompt => j = h[1]
  BY <1>3, <1>4 DEF Picked
<1>8. back[1] # Prompt
  BY <1>6 DEF Attached, ReadKeeps, Clear
<1>9. h[1] = 1 /\ n # 1
  BY <1>1, <1>6, <1>7, <1>8
<1>10. n = 2
  <2> SUFFICES ASSUME n > 2 PROVE FALSE
    BY <1>6, <1>9
  <2>1. n - 1 \in 1..Len(back) - 1 /\ n - 1 \in 1..n /\ n - 1 # 1
    BY <1>6
  <2>2. back[n - 1] = Prompt
    BY <1>7, <1>9, <2>1
  <2>3. back[(n - 1) + 1] # Prompt
    BY <2>1, <2>2 DEF Prompts
  <2> QED BY <1>1, <1>6, <2>3
<1>11. /\ Same(back[1].of, awaiting) /\ back[1].of.on = awaiting.on
       /\ back[1].of.host = awaiting.host /\ back[1].of.row = awaiting.row
  <2>1. awaiting \in Command /\ back[1].of \in Command
    <3>1. awaiting # Banner /\ awaiting # NoLine
      BY <1>1, ProperLine DEF ComesBack, IInv, StageFits
    <3> QED BY <1>5, <1>9, <3>1, ChunkSays DEF Typed, Line
  <2>2. \A c, d \in Command : [c EXCEPT !.port = NoPort] = [d EXCEPT !.port = NoPort] =>
          c.do = d.do /\ c.vlan = d.vlan /\ c.on = d.on /\ c.host = d.host /\ c.row = d.row
    <3> SUFFICES ASSUME NEW c \in Command, NEW d \in Command, NEW x, NEW y,
                        x = [c EXCEPT !.port = NoPort], y = [d EXCEPT !.port = NoPort], x = y
                 PROVE  c.do = d.do /\ c.vlan = d.vlan /\ c.on = d.on /\ c.host = d.host
                          /\ c.row = d.row
      OBVIOUS
    <3>1. x.do = c.do /\ x.vlan = c.vlan /\ x.on = c.on /\ x.host = c.host /\ x.row = c.row
      BY DEF Command
    <3>2. y.do = d.do /\ y.vlan = d.vlan /\ y.on = d.on /\ y.host = d.host /\ y.row = d.row
      BY DEF Command
    <3> QED BY <3>1, <3>2
  <2>3. [back[1].of EXCEPT !.port = NoPort] = [awaiting EXCEPT !.port = NoPort]
    BY <1>3, <1>5, <1>9
  <2> QED BY <2>1, <2>2, <2>3 DEF Same
<1> QED BY <1>1, <1>3, <1>5, <1>6, <1>9, <1>10, <1>11

LEMMA DbRunsReads ==
    ASSUME Typed, DbRuns, ReadKeeps, NEW n, ReadOf(n)
    PROVE  DbRuns'
<1>1. UNCHANGED <<stage, call, todo>>
  BY DEF ReadKeeps, writerVars
<1>2. /\ Len(wire') \in Nat /\ Len(wire) \in Nat /\ Len(wire) <= Len(wire')
      /\ \A k \in 1..Len(wire) : wire'[k] = wire[k] /\ k \in 1..Len(wire')
      /\ \A k \in 1..Len(wire') : k \notin 1..Len(wire) => wire'[k].do \in Harmless
      /\ stage \in Deep => wire' = wire
  BY ReadEnds
<1>3. ASSUME NEW k \in 1..Len(wire'), NEW l \in 1..Len(wire'), k < l,
             wire'[k].do \in DatabaseCommands, wire'[l].do \in Changing
      PROVE  \E j \in (k + 1)..(l - 1) : wire'[j].do = "exit"
  <2>1. wire'[l].do \notin Harmless
    BY <1>3 DEF Harmless, Shows, ExecCommands, SetupCommands, Changing
  <2>2. l \in 1..Len(wire) /\ k \in 1..Len(wire)
    BY <1>2, <1>3, <2>1
  <2>3. wire'[l] = wire[l] /\ wire'[k] = wire[k]
    BY <1>2, <2>2
  <2>4. PICK j \in (k + 1)..(l - 1) : wire[j].do = "exit"
    BY <1>3, <2>2, <2>3 DEF DbRuns
  <2>5. j \in 1..Len(wire)
    BY <1>2, <2>2
  <2> QED BY <1>2, <2>4, <2>5
<1>4. ASSUME stage' = "body", call'.kind \in DbKinds, Unsent', NEW k \in 1..Len(wire'),
             wire'[k].do \in DatabaseCommands
      PROVE  ExitBehind(k)'
  <2>1. wire' = wire
    BY <1>1, <1>2, <1>4 DEF Deep
  <2>2. Unsent
    BY <1>1, <1>4 DEF Unsent
  <2> QED BY <1>1, <1>4, <2>1, <2>2 DEF DbRuns, ExitBehind
<1> QED BY <1>3, <1>4 DEF DbRuns

LEMMA PairsReads ==
    ASSUME IInv, Typed, Attached, Pairs, ReadKeeps, NEW n, ReadOf(n), Typed'
    PROVE  Pairs'
<1>1. UNCHANGED <<stage, call, todo, entered, shell>> /\ (Unsent' <=> Unsent)
  BY DEF ReadKeeps, writerVars, Unsent
<1>2. /\ Len(wire') \in Nat /\ Len(wire) \in Nat
      /\ \A k \in 1..Len(wire) : wire'[k] = wire[k] /\ k \in 1..Len(wire')
      /\ \A k \in 1..Len(wire') : k \notin 1..Len(wire) => wire'[k].do \in Harmless
      /\ Len(back) \in Nat /\ Len(back') \in Nat /\ n \in Nat /\ Len(back') = Len(back) - n
      /\ \A i \in 1..Len(back') : back'[i] = back[i + n] /\ i + n \in 1..Len(back)
  BY ReadEnds
<1> SUFFICES ASSUME NEW i \in 1..Len(back'), Pair(i)', NEW x, x = back'[i + 2].of
             PROVE  /\ \A h \in 1..(i - 1) : ~Okay(back'[h])
                    /\ Held(x)'
                    /\ \A k \in 1..Len(wire') : wire'[k].do \notin Changing
                    /\ Won' = 0
                    /\ call'.kind \in DbKinds => ~(stage' = "enter" /\ entered' = 1)
                    /\ call'.kind \in DbKinds /\ stage' = "body" => ~Unsent'
  BY DEF Pairs, Okay, Said
<1>3. i + n \in 1..Len(back) /\ i + 2 \in 1..Len(back') /\ i + 2 + n = (i + n) + 2
      /\ back'[i] = back[i + n] /\ back'[i + 2] = back[(i + n) + 2] /\ (i + n) + 2 <= Len(back)
  BY <1>2 DEF Pair
<1>4. Pair(i + n)
  BY <1>3 DEF Pair, Said
<1>5. /\ \A h \in 1..((i + n) - 1) : ~Okay(back[h])
      /\ Held(x)
      /\ \A k \in 1..Len(wire) : wire[k].do \notin Changing
      /\ call.kind \in DbKinds => ~(stage = "enter" /\ entered = 1)
      /\ call.kind \in DbKinds /\ stage = "body" => ~Unsent
  BY <1>3, <1>4 DEF Pairs
<1>6. ASSUME NEW h \in 1..(i - 1)
      PROVE  ~Okay(back'[h])
  <2>1. h \in 1..Len(back') /\ h + n \in 1..((i + n) - 1)
    BY <1>2
  <2> QED BY <1>2, <1>5, <2>1
<1>7. Held(x)'
  BY <1>1, <1>5 DEF Held
<1>8. ASSUME NEW k \in 1..Len(wire')
      PROVE  wire'[k].do \notin Changing
  <2>1. \A d \in Harmless : d \notin Changing
    BY DEF Harmless, Shows, ExecCommands, SetupCommands, Changing
  <2> QED BY <1>2, <1>5, <2>1
<1>9. Won' = 0
  <2> SUFFICES ASSUME stage = "enter", Accepted' PROVE FALSE
    BY <1>1 DEF Won
  <2>1. PICK j \in 1..n : back[j].says = "nothing" /\ back[j].of.do = awaiting.do
    BY AcceptedChunk
  <2>2. awaiting.do \in EnterDos
    BY AcceptedChunk
  <2>3. Okay(back[j])
    BY <2>1, <2>2 DEF Okay, Said
  <2>4. j \in 1..((i + n) - 1)
    BY <1>2
  <2> QED BY <1>5, <2>3, <2>4
<1> QED BY <1>1, <1>5, <1>6, <1>7, <1>8, <1>9

LEMMA DbEnter ==
    ASSUME Typed, StageFits, Descent, stage = "enter", call.kind \in DbKinds
    PROVE  /\ EnterCommands(call) = <<Do("vlanDatabase")>>
           /\ ~Idle => entered = 0 /\ awaiting.do = "vlanDatabase" /\ todo = <<>>
           /\ Idle => (entered = 1 <=> todo = <<>>)
           /\ \A k \in 1..Len(todo) : todo[k].do = "vlanDatabase"
<1>1. call \in Call /\ call.kind \notin {"reboot", "deploy"}
  BY DeepCall DEF Resting
<1>2. EnterCommands(call) = <<Do("vlanDatabase")>>
  BY <1>1, EnterIs DEF DbKinds
<1>3. Len(EnterCommands(call)) = 1 /\ EnterCommands(call)[1] = Do("vlanDatabase")
  BY <1>2
<1>4. Do("vlanDatabase").do = "vlanDatabase"
  BY DEF Do
<1>5. todo \in Seq(Line) /\ Len(todo) \in Nat
  BY DEF Typed
<1>6. /\ 1 - Len(todo) \in 0..1
      /\ \A k \in 1..Len(todo) : todo[k] = EnterCommands(call)[(1 - Len(todo)) + k]
      /\ Idle => entered = 1 - Len(todo)
      /\ ~Idle => 1 - Len(todo) >= 1 /\ entered = (1 - Len(todo)) - 1
                  /\ awaiting = EnterCommands(call)[1 - Len(todo)]
  BY <1>3 DEF Descent
<1>7. ASSUME NEW k \in 1..Len(todo) PROVE todo[k].do = "vlanDatabase"
  <2>1. (1 - Len(todo)) + k = 1
    BY <1>5, <1>6
  <2> QED BY <1>3, <1>4, <1>6, <2>1
<1>8. ~Idle => entered = 0 /\ awaiting.do = "vlanDatabase" /\ todo = <<>>
  <2> SUFFICES ASSUME ~Idle PROVE entered = 0 /\ awaiting.do = "vlanDatabase" /\ todo = <<>>
    OBVIOUS
  <2>1. Len(todo) = 0 /\ entered = 0
    BY <1>5, <1>6
  <2>2. 1 - Len(todo) = 1
    BY <2>1
  <2>3. awaiting = EnterCommands(call)[1]
    BY <1>6, <2>2
  <2>4. todo = <<>>
    BY <1>5, <2>1, EmptySeq
  <2> QED BY <1>3, <1>4, <2>1, <2>3, <2>4
<1>9. Idle => (entered = 1 <=> todo = <<>>)
  BY <1>5, <1>6, EmptySeq
<1> QED BY <1>2, <1>7, <1>8, <1>9

LEMMA LeadsReads ==
    ASSUME IInv, Typed, Prompts, Attached, Descent, Pairs, ReadKeeps, NEW n, ReadOf(n), Typed'
    PROVE  Leads'
<1>1. UNCHANGED <<stage, call, todo, entered, shell>> /\ (Unsent' <=> Unsent) /\ ~Idle
  BY DEF ReadKeeps, writerVars, Unsent
<1>2. /\ Len(wire') \in Nat /\ Len(wire) \in Nat
      /\ \A k \in 1..Len(wire) : wire'[k] = wire[k] /\ k \in 1..Len(wire')
      /\ stage \in Deep => wire' = wire /\ awaiting' = awaiting /\ answer' # Pending
      /\ Len(back) \in Nat /\ Len(back') \in Nat /\ n \in Nat /\ Len(back') = Len(back) - n
      /\ \A i \in 1..Len(back') : back'[i] = back[i + n] /\ i + n \in 1..Len(back)
      /\ (back' = <<>> <=> n = Len(back))
  BY ReadEnds
<1>3. StageFits
  BY DEF IInv
<1> SUFFICES ASSUME Inside', back' # <<>>, Said(back'[1], Changing), NEW x, x = back'[1].of
             PROVE  /\ Held(x)'
                    /\ \A k \in 1..Len(wire') : wire'[k].do \notin Changing
  BY DEF Leads, Said
<1>4. call.kind \in DbKinds /\ stage \in {"enter", "body"} /\ stage \in Deep
  BY <1>1 DEF Inside, Deep
<1>5. stage = "enter"
  <2> SUFFICES ASSUME stage = "body" PROVE FALSE
    BY <1>4
  <2>1. ~Unsent
    BY <1>1, <1>3, <1>4, DbBody
  <2>2. ~Waiting'
    BY <1>2, <1>4 DEF Waiting
  <2> QED BY <1>1, <2>1, <2>2 DEF Inside
<1>6. entered = 0 /\ awaiting.do = "vlanDatabase"
  BY <1>1, <1>3, <1>4, <1>5, DbEnter
<1>7. Accepted'
  BY <1>1, <1>5, <1>6 DEF Inside, Won
<1>8. n = 2 /\ back[1].says = "nothing" /\ Same(back[1].of, awaiting)
  BY <1>5, <1>7, AcceptedFirst
<1>9. 1 \in 1..Len(back') /\ back'[1] = back[3] /\ 3 <= Len(back)
  <2>1. Len(back') >= 1
    BY <1>2
  <2>2. 1 \in 1..Len(back') /\ 1 + n = 3
    BY <1>2, <1>8, <2>1
  <2> QED BY <1>2, <1>8, <2>1, <2>2
<1>10. Pair(1) /\ 1 \in 1..Len(back)
  BY <1>2, <1>6, <1>8, <1>9 DEF Pair, Said, Same
<1>11. Held(back[1 + 2].of) /\ \A k \in 1..Len(wire) : wire[k].do \notin Changing
  BY <1>10 DEF Pairs
<1>12. Held(x)
  BY <1>9, <1>11
<1>13. Held(x)'
  BY <1>1, <1>12 DEF Held
<1> QED BY <1>2, <1>4, <1>11, <1>13

LEMMA SettledReads ==
    ASSUME IInv, Typed, Prompts, Attached, Descent, Leads, Settled, ReadKeeps, NEW n, ReadOf(n),
           Typed'
    PROVE  Settled'
<1>1. UNCHANGED <<stage, call, todo, entered, failed, shell>> /\ (Unsent' <=> Unsent) /\ ~Idle
      /\ Aim' = Aim
  BY DEF ReadKeeps, writerVars, Unsent, Aim
<1>2. /\ \A k \in 1..Len(wire) : wire'[k] = wire[k] /\ k \in 1..Len(wire')
      /\ \A k \in 1..Len(wire') : k \notin 1..Len(wire) => wire'[k].do \in Harmless
      /\ stage \in Deep => wire' = wire /\ awaiting' = awaiting
  BY ReadEnds
<1>3. StageFits
  BY DEF IInv
<1> SUFFICES ASSUME Changed', NEW x, x = Aim
             PROVE  /\ Held(x)'
                    /\ \A k \in 1..Len(wire') : wire'[k].do \in Changing => Same(wire'[k], x)
  BY <1>1 DEF Settled
<1>4. \A d \in Harmless : d \notin Changing
  BY DEF Harmless, Shows, ExecCommands, SetupCommands, Changing
<1>5. Held(x) /\ \A k \in 1..Len(wire) : wire[k].do \in Changing => Same(wire[k], x)
  <2>1. CASE Changed
    BY <2>1 DEF Settled
  <2>2. CASE ~Changed
    <3>1. call.kind \in DbKinds /\ stage = "body" /\ ~Unsent /\ awaiting' = awaiting
      BY <1>1, <1>2, <2>2 DEF Changed, Deep
    <3>2. Accepted' /\ awaiting.do # "name"
      BY <1>1, <2>2, <3>1 DEF Changed, Idle
    <3>3. awaiting.do \in Changing /\ awaiting = x
      BY <1>1, <1>3, <3>1, <3>2, DbBody
    <3>4. /\ back[1].says = "nothing" /\ Same(back[1].of, awaiting)
          /\ Len(back) \in Nat /\ Len(back) >= 2
      BY <3>1, <3>2, AcceptedFirst
    <3>5. back # <<>> /\ Said(back[1], Changing)
      BY <3>3, <3>4, EmptySeq DEF Said, Same
    <3>6. Inside
      BY <3>1, <3>3 DEF Inside, ReadKeeps
    <3>7. Held(back[1].of) /\ \A k \in 1..Len(wire) : wire[k].do \in Changing => wire[k] = awaiting
      BY <3>4, <3>5, <3>6 DEF Leads
    <3>8. Held(x)
      BY <3>3, <3>4, <3>7 DEF Held, Same
    <3> QED BY <3>3, <3>7, <3>8 DEF Same
  <2> QED BY <2>1, <2>2
<1>6. Held(x)'
  BY <1>1, <1>5 DEF Held
<1>7. ASSUME NEW k \in 1..Len(wire'), wire'[k].do \in Changing
      PROVE  Same(wire'[k], x)
  <2>1. k \in 1..Len(wire)
    BY <1>2, <1>4, <1>7
  <2> QED BY <1>2, <1>5, <1>7, <2>1
<1> QED BY <1>6, <1>7

LEMMA DbReads ==
    ASSUME IInv, LateInv, LateInv', DbInv, Reads, UNCHANGED writerVars
    PROVE  DbInv'
<1>1. PICK n : ReadOf(n)
  BY ReadsOf DEF LateInv
<1>2. ReadKeeps
  BY ReadsOf DEF LateInv, ReadKeeps
<1>3. Typed'
  BY DEF LateInv
<1> QED BY <1>1, <1>2, <1>3, DbRunsReads, PairsReads, LeadsReads, SettledReads DEF LateInv, DbInv

(***************************************************************************)
(* Issuing.                                                                *)
(***************************************************************************)
LEMMA ChangeSent ==
    ASSUME Typed, StageFits, Descent, NEW c, IssueOf(c)
    PROVE  /\ c.do \in Changing =>
                /\ stage = "body" /\ call.kind \in DbKinds /\ Unsent /\ c = Aim /\ Sends(c)
                /\ awaiting' = c
           /\ stage = "body" /\ call.kind \in DbKinds => ~Unsent'
           /\ \A d \in Changing : d \in DatabaseCommands
           /\ Won' = 0 /\ ~Accepted'
<1>1. /\ c = todo[1] /\ Proper(c, stage) /\ stage \in Stage /\ Idle /\ answer = Pending
      /\ UNCHANGED <<stage, call, entered>> /\ todo # <<>>
      /\ Len(todo) \in Nat /\ Len(todo) >= 1 /\ Len(todo') \in Nat /\ Len(todo') = Len(todo) - 1
      /\ \A k \in 1..Len(todo') : todo'[k] = todo[k + 1] /\ k + 1 \in 1..Len(todo)
      /\ todo' \in Seq(Line)
  BY DEF IssueOf
<1>2. \A d \in Changing : d \in DatabaseCommands
  BY DEF Changing, DatabaseCommands
<1>3. ASSUME c.do \in Changing, c.do \in DatabaseCommands
      PROVE  /\ stage = "body" /\ call.kind \in DbKinds /\ Unsent /\ c = Aim /\ Sends(c)
             /\ awaiting' = c
  <2>1. stage = "body"
    <3>1. c.do \notin Shows \cup {"exit", "https", "copy", "save", "reload"}
      BY <1>3 DEF Changing, Shows
    <3>2. c.do \in Dos(stage)
      BY <1>1 DEF Proper
    <3>3. c.do \notin EnterDos
      BY <1>3 DEF Changing, EnterDos
    <3>4. stage \notin Reading \cup Resting \cup {"unwind", "script", "enter"}
      BY <3>1, <3>2, <3>3, DosOf
    <3> QED BY <1>1, <3>4 DEF Stage
  <2>2. Sends(c)
    BY <2>1, NextLineIs
  <2>3. PICK m \in 1..Len(BodyCommands(call, victim)) : BodyCommands(call, victim)[m] = c
    BY <2>1, NextLineIs
  <2>4. call \in Call /\ call.kind \notin {"reboot", "deploy"} /\ victim \in Nat
    BY <2>1, DeepCall DEF IssueOf
  <2>5. call.kind \in DbKinds
    BY <1>3, <2>3, <2>4, BodyLine DEF DbKinds
  <2>6. 1 \in 1..Len(todo) /\ Unsent
    BY <1>1, <1>3 DEF Unsent
  <2>7. c = Aim
    BY <1>1, <1>3, <2>1, <2>5, <2>6, DbBody
  <2> QED BY <2>1, <2>2, <2>5, <2>6, <2>7 DEF Sends
<1>4. ASSUME stage = "body", call.kind \in DbKinds, Unsent'
      PROVE  FALSE
  <2>1. todo' # <<>> /\ todo'[1].do \in Changing
    BY <1>4 DEF Unsent
  <2>2. Len(todo') # 0
    BY <1>1, <2>1, EmptySeq
  <2>3. 1 \in 1..Len(todo')
    BY <1>1, <2>2
  <2>4. todo'[1] = todo[1 + 1] /\ 1 + 1 \in 1..Len(todo)
    BY <1>1, <2>3
  <2>5. \A k \in 1..Len(todo) : todo[k].do \in Changing => k = 1
    BY <1>4, DbBody
  <2> QED BY <2>1, <2>4, <2>5
<1>5. answer' \in {Pending, Raised}
  BY <1>1 DEF IssueOf, Connects, Sends
<1>6. ~Accepted'
  <2>1. Pending.is # "returned" /\ Raised.is # "returned"
    BY DEF Pending, Raised
  <2> QED BY <1>5, <2>1 DEF Accepted
<1> QED BY <1>2, <1>3, <1>4, <1>6 DEF Said, Won

LEMMA DbRunsIssues ==
    ASSUME Typed, StageFits, Descent, DbRuns, NEW c, IssueOf(c)
    PROVE  DbRuns'
<1>1. UNCHANGED <<stage, call>>
  BY DEF IssueOf
<1>2. ~(stage' = "body" /\ call'.kind \in DbKinds /\ Unsent')
  BY <1>1, ChangeSent
<1>3. CASE Connects(c)
  <2>1. wire' = wire
    BY <1>3 DEF Connects
  <2> QED BY <1>2, <2>1 DEF DbRuns
<1>4. CASE Sends(c)
  <2>1. /\ Len(wire) \in Nat /\ Len(wire') \in Nat
        /\ \A k \in 1..Len(wire) : wire'[k] = wire[k] /\ k \in 1..Len(wire')
        /\ wire'[Len(wire) + 1] = c
        /\ \A k \in 1..Len(wire') : k \in 1..Len(wire) \/ k = Len(wire) + 1 \/ wire'[k].do = "yes"
    BY <1>4, SendsWire
  <2> SUFFICES ASSUME NEW k \in 1..Len(wire'), NEW l \in 1..Len(wire'), k < l,
                      wire'[k].do \in DatabaseCommands, wire'[l].do \in Changing
               PROVE  \E j \in (k + 1)..(l - 1) : wire'[j].do = "exit"
    BY <1>2 DEF DbRuns
  <2>2. wire'[l].do # "yes" /\ wire'[k].do # "yes"
    BY DEF Changing, DatabaseCommands
  <2>3. CASE l \in 1..Len(wire)
    <3>1. k \in 1..Len(wire)
      BY <2>1, <2>3
    <3>2. wire'[k] = wire[k] /\ wire'[l] = wire[l]
      BY <2>1, <2>3, <3>1
    <3>3. PICK j \in (k + 1)..(l - 1) : wire[j].do = "exit"
      BY <2>3, <3>1, <3>2 DEF DbRuns
    <3>4. j \in 1..Len(wire)
      BY <2>1, <2>3, <3>1
    <3> QED BY <2>1, <3>3, <3>4
  <2>4. CASE l = Len(wire) + 1
    <3>1. k \in 1..Len(wire) /\ wire'[k] = wire[k] /\ l - 1 = Len(wire)
      BY <2>1, <2>4
    <3>2. c.do \in Changing
      BY <2>1, <2>4
    <3>3. stage = "body" /\ call.kind \in DbKinds /\ Unsent
      BY <3>2, ChangeSent
    <3>4. ExitBehind(k)
      BY <3>1, <3>3 DEF DbRuns
    <3>5. PICK j \in (k + 1)..Len(wire) : wire[j].do = "exit"
      BY <3>4 DEF ExitBehind
    <3>6. j \in 1..Len(wire)
      BY <2>1, <3>1
    <3> QED BY <2>1, <3>1, <3>5, <3>6
  <2> QED BY <2>1, <2>2, <2>3, <2>4
<1> QED BY <1>3, <1>4 DEF IssueOf

\* What issuing leaves of the wire and of what has been read.
LEMMA IssueEnds ==
    ASSUME Typed, NEW c, IssueOf(c)
    PROVE  /\ UNCHANGED <<shell, stage, call, entered, failed>> /\ Idle /\ ~Idle' /\ Aim' = Aim
           /\ back' = back \/ back' = <<Prompt>>
           /\ stage \in Deep => Sends(c)
           /\ Connects(c) => wire' = wire
           /\ Len(wire) \in Nat
           /\ \A k \in 1..Len(wire') :
                \/ k \in 1..Len(wire) /\ wire'[k] = wire[k]
                \/ k = Len(wire) + 1 /\ wire'[k] = c /\ Sends(c)
                \/ wire'[k].do = "yes"
<1>1. CASE Connects(c)
  BY <1>1 DEF IssueOf, Connects, Typed, Aim
<1>2. CASE Sends(c)
  <2>1. /\ Len(wire) \in Nat
        /\ \A k \in 1..Len(wire) : wire'[k] = wire[k]
        /\ wire'[Len(wire) + 1] = c
        /\ \A k \in 1..Len(wire') : k \in 1..Len(wire) \/ k = Len(wire) + 1 \/ wire'[k].do = "yes"
    BY <1>2, SendsWire
  <2>2. \A k \in 1..Len(wire') :
                \/ k \in 1..Len(wire) /\ wire'[k] = wire[k]
                \/ k = Len(wire) + 1 /\ wire'[k] = c /\ Sends(c)
                \/ wire'[k].do = "yes"
    BY <1>2, <2>1
  <2>3. Connects(c) => wire' = wire
    BY DEF Connects
  <2> QED BY <1>2, <2>1, <2>2, <2>3 DEF IssueOf, Sends, Aim
<1> QED BY <1>1, <1>2 DEF IssueOf

LEMMA PairsIssues ==
    ASSUME Typed, StageFits, Descent, Pairs, NEW c, IssueOf(c)
    PROVE  Pairs'
<1>1. /\ UNCHANGED <<shell, stage, call, entered>>
      /\ back' = back \/ back' = <<Prompt>>
      /\ \A k \in 1..Len(wire') : (k \in 1..Len(wire) /\ wire'[k] = wire[k])
                                    \/ wire'[k] = c \/ wire'[k].do = "yes"
  BY IssueEnds
<1> SUFFICES ASSUME NEW i \in 1..Len(back'), Pair(i)', NEW x, x = back'[i + 2].of
             PROVE  /\ \A h \in 1..(i - 1) : ~Okay(back'[h])
                    /\ Held(x)'
                    /\ \A k \in 1..Len(wire') : wire'[k].do \notin Changing
                    /\ Won' = 0
                    /\ call'.kind \in DbKinds => ~(stage' = "enter" /\ entered' = 1)
                    /\ call'.kind \in DbKinds /\ stage' = "body" => ~Unsent'
  BY DEF Pairs, Okay, Said
<1>2. back' = back
  <2> SUFFICES ASSUME back' = <<Prompt>> PROVE FALSE
    BY <1>1
  <2>1. Len(back') = 1
    OBVIOUS
  <2> QED BY <2>1 DEF Pair
<1>3. Pair(i) /\ i \in 1..Len(back)
  BY <1>2 DEF Pair
<1>4. /\ \A h \in 1..(i - 1) : ~Okay(back[h])
      /\ Held(x)
      /\ \A k \in 1..Len(wire) : wire[k].do \notin Changing
      /\ call.kind \in DbKinds => ~(stage = "enter" /\ entered = 1)
      /\ call.kind \in DbKinds /\ stage = "body" => ~Unsent
  BY <1>2, <1>3 DEF Pairs
<1>5. Held(x)'
  BY <1>1, <1>4 DEF Held
<1>6. c.do \notin Changing
  BY <1>4, ChangeSent
<1>7. "yes" \notin Changing
  BY DEF Changing
<1> QED BY <1>1, <1>2, <1>4, <1>5, <1>6, <1>7, ChangeSent

LEMMA LeadsIssues ==
    ASSUME Typed, StageFits, Descent, Leads, NEW c, IssueOf(c)
    PROVE  Leads'
<1>1. /\ UNCHANGED <<shell, stage, call, entered>> /\ Idle /\ ~Idle'
      /\ back' = back \/ back' = <<Prompt>>
      /\ stage \in Deep => Sends(c)
      /\ \A k \in 1..Len(wire') : (k \in 1..Len(wire) /\ wire'[k] = wire[k])
                                    \/ wire'[k] = c \/ wire'[k].do = "yes"
  BY IssueEnds
<1> SUFFICES ASSUME Inside', back' # <<>>, Said(back'[1], Changing), NEW x, x = back'[1].of
             PROVE  /\ Held(x)'
                    /\ stage = "body"
                    /\ \A k \in 1..Len(wire') : wire'[k].do \in Changing => wire'[k] = awaiting'
  BY <1>1 DEF Leads, Said
<1>2. call.kind \in DbKinds /\ stage \in {"enter", "body"}
  BY <1>1 DEF Inside
<1>3. stage = "body"
  <2> SUFFICES ASSUME stage = "enter" PROVE FALSE
    BY <1>2
  <2>1. entered = 1
    BY <1>1, ChangeSent DEF Inside
  <2> QED BY <1>1, <1>2, <2>1, DbEnter DEF IssueOf
<1>4. Sends(c) /\ back' = back /\ awaiting' = c
  BY <1>1, <1>3 DEF Deep, Sends
<1>5. c.do \in Changing
  BY <1>1, <1>2, <1>3, <1>4, ChangeSent DEF Inside
<1>6. Unsent
  BY <1>5, ChangeSent
<1>7. Inside
  BY <1>2, <1>3, <1>6 DEF Inside
<1>8. Held(x) /\ \A k \in 1..Len(wire) : wire[k].do \notin Changing
  BY <1>1, <1>4, <1>7 DEF Leads
<1>9. Held(x)'
  BY <1>1, <1>8 DEF Held
<1>10. "yes" \notin Changing
  BY DEF Changing
<1> QED BY <1>1, <1>3, <1>4, <1>8, <1>9, <1>10

LEMMA SettledIssues ==
    ASSUME Typed, StageFits, Descent, Settled, NEW c, IssueOf(c)
    PROVE  Settled'
<1>1. /\ UNCHANGED <<shell, stage, call, entered, failed>> /\ Idle /\ ~Idle' /\ Aim' = Aim
      /\ stage \in Deep => Sends(c)
      /\ \A k \in 1..Len(wire') : (k \in 1..Len(wire) /\ wire'[k] = wire[k])
                                    \/ wire'[k] = c \/ wire'[k].do = "yes"
  BY IssueEnds
<1> SUFFICES ASSUME Changed', NEW x, x = Aim
             PROVE  /\ Held(x)'
                    /\ \A k \in 1..Len(wire') : wire'[k].do \in Changing => Same(wire'[k], x)
  BY <1>1 DEF Settled
<1>2. Changed /\ c.do \notin Changing
  <2>1. CASE stage = "body"
    <3>1. awaiting' = c
      BY <1>1, <2>1 DEF Deep, Sends
    <3>2. c.do = "name"
      BY <1>1, <2>1, <3>1, ChangeSent DEF Changed
    <3>3. ~Unsent /\ c.do \notin Changing
      BY <3>2 DEF Unsent, Changing, IssueOf
    <3> QED BY <1>1, <2>1, <3>3 DEF Changed
  <2>2. CASE stage # "body"
    BY <1>1, <2>2, ChangeSent DEF Changed
  <2> QED BY <2>1, <2>2
<1>3. Held(x) /\ \A k \in 1..Len(wire) : wire[k].do \in Changing => Same(wire[k], x)
  BY <1>2 DEF Settled
<1>4. Held(x)'
  BY <1>1, <1>3 DEF Held
<1>5. "yes" \notin Changing
  BY DEF Changing
<1> QED BY <1>1, <1>2, <1>3, <1>4, <1>5

LEMMA DbIssues ==
    ASSUME IInv, LateInv, DbInv, Issue
    PROVE  DbInv'
<1>1. IssueOf(todo[1])
  BY IssuesOf DEF LateInv
<1> QED BY <1>1, DbRunsIssues, PairsIssues, LeadsIssues, SettledIssues DEF IInv, LateInv, DbInv

(***************************************************************************)
(* The writer's own steps: from what stage, and on what ground, it comes   *)
(* to the next.                                                            *)
(***************************************************************************)
LEMMA UseStage ==
    ASSUME Takes, UseOf
    PROVE  /\ Won' = 0 /\ ~Waiting' /\ Idle' /\ ~Accepted' /\ ~Broken' /\ Aim' = Aim
           /\ stage' = "enter" =>
                stage = "enter" /\ Accepted /\ entered' = entered + 1 /\ UNCHANGED todo
           /\ stage' = "body" => stage = "body" /\ Accepted /\ Keeps
           /\ stage' = "unwind" =>
                \/ stage = "unwind" /\ ~Broken /\ Keeps
                \/ stage \in {"enter", "body"} /\ failed'
           /\ stage' \in Reading =>
                stage' = stage /\ ~Broken /\ Note(answer.texts) /\ UNCHANGED <<entered, failed>>
           /\ stage' = "script" => stage = "script" /\ ~Broken /\ Keeps
           /\ stage' = "ok" => call.kind = "reboot" /\ answer.is = "ended"
<1>1. Won' = 0 /\ ~Waiting' /\ Idle' /\ ~Accepted' /\ ~Broken' /\ Aim' = Aim
  BY DEF Takes, Won, Waiting, Idle, Accepted, Broken, Pending, Aim
<1>2. CASE stage \in Reading /\ ~Broken /\ Note(answer.texts) /\ UNCHANGED <<stage, entered, failed>>
  BY <1>1, <1>2 DEF Reading
<1>3. CASE stage = "enter" /\ Accepted /\ entered' = entered + 1 /\ UNCHANGED <<stage, todo, got, failed>>
  BY <1>1, <1>3 DEF Reading
<1>4. CASE stage \in {"enter", "body"} /\ ~Accepted /\ Unwind(TRUE)
  BY <1>1, <1>4 DEF Unwind, GoTo, Reading
<1>5. CASE stage \in Reading \cup {"unwind", "script"} /\ Broken /\ Escapes(answer)
  <2>1. stage' \in {"ok", "failed"} /\ (stage' = "ok" => call.kind = "reboot" /\ answer.is = "ended")
    BY <1>5 DEF Escapes, End, GoTo
  <2> QED BY <1>1, <2>1 DEF Reading
<1>6. CASE stage = "body" /\ Accepted /\ Keeps
  BY <1>1, <1>6 DEF Keeps, Reading
<1>7. CASE stage \in {"unwind", "script"} /\ ~Broken /\ Keeps
  BY <1>1, <1>7 DEF Keeps, Reading
<1> QED BY <1>2, <1>3, <1>4, <1>5, <1>6, <1>7 DEF UseOf

LEMMA TurnStage ==
    ASSUME IInv, Typed, Turn
    PROVE  /\ TurnOf /\ Won' = 0 /\ ~Waiting' /\ ~Accepted' /\ ~Broken' /\ Aim' = Aim
           /\ stage' = "enter" => entered' = 0 /\ todo' = EnterCommands(call)
           /\ stage' = "body" => stage = "enter" /\ todo' = BodyCommands(call, victim)
                                   /\ UNCHANGED <<entered, victim>>
           /\ stage' = "unwind" => stage = "body" /\ ~failed' /\ Unwind(FALSE) /\ UNCHANGED victim
           /\ stage' = "after" =>
                /\ (stage = "unwind" /\ ~failed) \/ stage = "after"
                /\ todo' = PagesAfter(call)
           /\ stage' = "farewell" => stage = "after" /\ todo' = PagesAfter(call)
           /\ stage' = "ok" => (stage = "after" /\ Verified(call, got)) \/ stage = "script"
           /\ stage' # "script"
<1>1. TurnOf
  BY TurnsOf
<1>2. Won' = 0 /\ ~Waiting' /\ ~Accepted' /\ ~Broken' /\ Aim' = Aim
  BY <1>1 DEF TurnOf, Won, Waiting, Idle, Accepted, Broken, Pending, Aim
<1>3. CASE stage = "before"
  <2>1. stage' \in {"refused", "pvids", "enter"}
        /\ (stage' = "enter" => UNCHANGED entered /\ todo' = EnterCommands(call))
    BY <1>3 DEF Turn, Prepare, End, GoTo
  <2>2. entered = 0
    BY <1>3 DEF IInv, StageFits
  <2> QED BY <1>1, <1>2, <2>1, <2>2
<1>4. CASE stage = "after"
  <2>1. Judge
    BY <1>4 DEF Turn
  <2>2. /\ stage' \in {"ok", "diverged", "after", "farewell"}
        /\ stage' = "ok" => Verified(call, got)
        /\ stage' \in {"after", "farewell"} => todo' = PagesAfter(call)
    BY <2>1 DEF Judge, End, GoTo
  <2> QED BY <1>1, <1>2, <1>4, <2>2
<1>5. CASE stage = "pvids"
  <2>1. stage' = "enter" /\ UNCHANGED entered /\ todo' = EnterCommands(call)
    BY <1>5 DEF Turn, GoTo
  <2>2. entered = 0
    BY <1>5 DEF IInv, StageFits
  <2> QED BY <1>1, <1>2, <2>1, <2>2
<1>6. CASE stage = "enter"
  <2>1. stage' = "body" /\ UNCHANGED <<entered, victim>> /\ todo' = BodyCommands(call, victim)
    BY <1>6 DEF Turn, GoTo
  <2> QED BY <1>1, <1>2, <1>6, <2>1
<1>7. CASE stage = "body"
  <2>1. Unwind(FALSE) /\ UNCHANGED victim
    BY <1>7 DEF Turn
  <2>2. stage' = "unwind" /\ ~failed'
    BY <2>1 DEF Unwind, GoTo
  <2> QED BY <1>1, <1>2, <1>7, <2>1, <2>2
<1>8. CASE stage = "unwind"
  <2>1. Unwound
    BY <1>8 DEF Turn
  <2>2. stage' = "failed" \/ (stage' = "after" /\ ~failed /\ todo' = PagesAfter(call))
    BY <2>1 DEF Unwound, End, GoTo
  <2> QED BY <1>1, <1>2, <1>8, <2>2
<1>9. CASE stage = "farewell"
  <2>1. stage' = "diverged"
    BY <1>9 DEF Turn, End, GoTo
  <2> QED BY <1>1, <1>2, <2>1
<1>10. CASE stage = "script"
  <2>1. stage' = "ok"
    BY <1>10 DEF Turn, End, GoTo
  <2> QED BY <1>1, <1>2, <1>10, <2>1
<1> QED BY <1>3, <1>4, <1>5, <1>6, <1>7, <1>8, <1>9, <1>10 DEF Turn

\* A new call, or close() between two calls, which hangs up.
LEMMA CallStage ==
    ASSUME Typed, Invoke \/ (stage \in Resting /\ Close /\ UNCHANGED writerVars)
    PROVE  /\ stage' \in Resting \cup {"before", "script"} /\ Won' = 0
           /\ shell'.config = shell.config
           /\ back' = back \/ back' = <<>>
           /\ wire' = wire \/ wire' = <<>>
           /\ stage' = "ok" =>
                wire' = <<>> /\ UNCHANGED <<stage, call, torn, answer, awaiting, victim>>
           /\ stage' = "script" => todo' = Script(call') /\ UNCHANGED shell /\ Idle
<1>1. CASE Invoke
  <2>1. PICK c \in Calls : call' = c /\ Begin(c)
    BY <1>1 DEF Invoke
  <2>2. stage' \in {"refused", "script", "before"} /\ (stage' = "script" => todo' = Script(call'))
    BY <2>1 DEF Begin, GoTo
  <2>3. UNCHANGED sessionVars /\ Idle
    BY <1>1 DEF Invoke
  <2> QED BY <2>2, <2>3 DEF sessionVars, Resting, Won
<1>2. CASE stage \in Resting /\ Close /\ UNCHANGED writerVars
  <2>1. shell.config \in Config
    BY DEF Typed, Shell
  <2>2. shell'.config = shell.config
    BY <1>2, <2>1, FreshFits DEF Close
  <2> QED BY <1>2, <2>2 DEF Close, writerVars, Resting, Won
<1> QED BY <1>1, <1>2

LEMMA DbUses ==
    ASSUME IInv, LateInv, DbInv, Use
    PROVE  DbInv'
<1>1. Takes /\ UseOf /\ UNCHANGED <<shell, wire, back, call>>
  BY UsesOf DEF Takes
<1>2. /\ Won' = 0 /\ ~Waiting' /\ Idle' /\ Aim' = Aim
      /\ stage' = "enter" => stage = "enter" /\ Accepted /\ entered' = entered + 1
      /\ stage' = "body" => stage = "body" /\ Accepted /\ (Unsent' <=> Unsent) /\ ~Idle
      /\ stage' = "unwind" /\ ~failed' => stage = "unwind" /\ ~failed
      /\ stage' = "after" => stage = "after"
      /\ stage' = "ok" => call.kind = "reboot"
  BY <1>1, UseStage DEF Keeps, Unsent, Reading, Takes
<1>3. StageFits /\ Typed /\ Descent
  BY DEF IInv, LateInv
<1>4. call.kind \in DbKinds /\ stage' = "body" => ~Unsent /\ ~Unsent'
  BY <1>2, <1>3, DbBody
<1>5. DbRuns'
  BY <1>1, <1>4 DEF DbInv, DbRuns
<1>6. stage' = "enter" => Won = 1
  BY <1>2 DEF Won
<1>7. Pairs'
  <2> SUFFICES ASSUME NEW i \in 1..Len(back), Pair(i), NEW x, x = back[i + 2].of
               PROVE  /\ \A h \in 1..(i - 1) : ~Okay(back[h])
                      /\ Held(x)'
                      /\ \A k \in 1..Len(wire) : wire[k].do \notin Changing
                      /\ call.kind \in DbKinds => ~(stage' = "enter")
    BY <1>1, <1>2, <1>4 DEF Pairs, Pair, Okay, Said
  <2>1. /\ \A h \in 1..(i - 1) : ~Okay(back[h])
        /\ Held(x)
        /\ \A k \in 1..Len(wire) : wire[k].do \notin Changing
        /\ Won = 0
    BY DEF DbInv, Pairs
  <2>2. Held(x)'
    BY <1>1, <2>1 DEF Held
  <2> QED BY <1>6, <2>1, <2>2
<1>8. Leads'
  <2> SUFFICES ASSUME Inside', back # <<>>, Said(back[1], Changing), NEW x, x = back[1].of
               PROVE  Held(x)' /\ \A k \in 1..Len(wire) : wire[k].do \notin Changing
    BY <1>1 DEF Leads, Said
  <2>1. stage = "enter" /\ Won = 1 /\ call.kind \in DbKinds
    BY <1>1, <1>2, <1>4, <1>6 DEF Inside
  <2>2. Held(x) /\ \A k \in 1..Len(wire) : wire[k].do \notin Changing
    BY <2>1 DEF DbInv, Leads, Inside
  <2>3. Held(x)'
    BY <1>1, <2>2 DEF Held
  <2> QED BY <2>2, <2>3
<1>9. Settled'
  <2> SUFFICES ASSUME Changed', NEW x, x = Aim
               PROVE  Held(x)' /\ \A k \in 1..Len(wire) : wire[k].do \in Changing => Same(wire[k], x)
    BY <1>1, <1>2 DEF Settled
  <2>1. call.kind \in DbKinds /\ call.kind # "reboot"
    BY <1>1 DEF Changed, DbKinds
  <2>2. Changed
    BY <1>1, <1>2, <1>4, <2>1 DEF Changed
  <2>3. Held(x) /\ \A k \in 1..Len(wire) : wire[k].do \in Changing => Same(wire[k], x)
    BY <2>2 DEF DbInv, Settled
  <2>4. Held(x)'
    BY <1>1, <2>3 DEF Held
  <2> QED BY <2>3, <2>4
<1> QED BY <1>5, <1>7, <1>8, <1>9 DEF DbInv

\* The first command of the body is the change.
LEMMA ChangeFirst ==
    ASSUME NEW c \in Call, c.kind \in DbKinds, NEW row, NEW cmds, cmds = BodyCommands(c, row)
    PROVE  cmds # <<>> /\ cmds[1].do \in Changing
<1>1. \A k, v : OnVlan(k, v).do = k
  BY DEF OnVlan, Do
<1>2. CASE c.kind = "create"
  <2>1. cmds = <<OnVlan("create", c.vlan), OnVlan("name", c.vlan)>>
    BY <1>2 DEF BodyCommands, PortSettings
  <2> QED BY <1>1, <2>1 DEF Changing
<1>3. CASE c.kind = "delete"
  <2>1. cmds = <<OnVlan("remove", c.vlan)>>
    BY <1>3 DEF BodyCommands, PortSettings
  <2> QED BY <1>1, <2>1 DEF Changing
<1> QED BY <1>2, <1>3 DEF DbKinds

LEMMA DbTurns ==
    ASSUME IInv, LateInv, DbInv, Turn
    PROVE  DbInv'
<1>1. /\ TurnOf /\ Won' = 0 /\ ~Waiting' /\ ~Accepted' /\ Aim' = Aim
      /\ stage' = "enter" => entered' = 0
      /\ stage' = "body" => stage = "enter" /\ todo' = BodyCommands(call, victim)
      /\ stage' = "unwind" => stage = "body"
      /\ stage' = "after" => (stage = "unwind" /\ ~failed) \/ stage = "after"
      /\ stage' = "ok" => stage = "after" \/ stage = "script"
  BY TurnStage DEF LateInv
<1>2. UNCHANGED <<shell, wire, back, call>> /\ Idle /\ Idle' /\ todo = <<>> /\ stage \notin Resting
  BY <1>1 DEF TurnOf
<1>3. StageFits /\ Typed /\ Descent /\ Owned
  BY DEF IInv, LateInv
<1>4. call \in Call /\ (stage = "script" => call.kind \notin DbKinds)
  BY <1>2, <1>3 DEF StageFits, DbKinds
<1>5. call.kind \in DbKinds /\ stage' = "body" => Unsent' /\ stage = "enter" /\ entered = 1
  <2> SUFFICES ASSUME call.kind \in DbKinds, stage' = "body" 
               PROVE  Unsent' /\ stage = "enter" /\ entered = 1
    OBVIOUS
  <2>1. stage = "enter" /\ todo' = BodyCommands(call, victim)
    BY <1>1
  <2>2. Unsent'
    BY <1>4, <2>1, ChangeFirst DEF Unsent
  <2>3. entered = 1
    BY <1>2, <1>3, <2>1, DbEnter
  <2> QED BY <2>1, <2>2, <2>3
<1>6. DbRuns'
  <2> SUFFICES ASSUME stage' = "body", call.kind \in DbKinds, NEW k \in 1..Len(wire),
                      wire[k].do \in DatabaseCommands
               PROVE  ExitBehind(k)
    BY <1>2 DEF DbInv, DbRuns, ExitBehind
  <2>1. stage = "enter"
    BY <1>1
  <2>2. wire[k].do \in TiedDos /\ wire[k].do \notin InnerDos
    BY DEF TiedDos, InnerDos, DatabaseCommands
  <2>3. ~Mine(k)
    BY <2>1, <2>2 DEF Mine
  <2> QED BY <1>3, <2>1, <2>2, <2>3 DEF Owned
<1>7. Pairs'
  <2> SUFFICES ASSUME NEW i \in 1..Len(back), Pair(i), NEW x, x = back[i + 2].of
               PROVE  /\ \A h \in 1..(i - 1) : ~Okay(back[h])
                      /\ Held(x)'
                      /\ \A k \in 1..Len(wire) : wire[k].do \notin Changing
                      /\ call.kind \in DbKinds => stage' # "body"
    <3>1. ~(stage' = "enter" /\ entered' = 1) /\ Won' = 0
      BY <1>1
    <3> QED BY <1>2, <3>1 DEF Pairs, Pair, Okay, Said
  <2>1. /\ \A h \in 1..(i - 1) : ~Okay(back[h])
        /\ Held(x)
        /\ \A k \in 1..Len(wire) : wire[k].do \notin Changing
        /\ call.kind \in DbKinds => ~(stage = "enter" /\ entered = 1)
    BY DEF DbInv, Pairs
  <2>2. Held(x)'
    BY <1>2, <2>1 DEF Held
  <2> QED BY <1>5, <2>1, <2>2
<1>8. Leads'
  <2> SUFFICES ASSUME Inside', back # <<>>, Said(back[1], Changing), NEW x, x = back[1].of
               PROVE  Held(x)' /\ \A k \in 1..Len(wire) : wire[k].do \notin Changing
    BY <1>2 DEF Leads, Said
  <2>1. call.kind \in DbKinds /\ stage' = "body"
    BY <1>1, <1>2 DEF Inside
  <2>2. Inside
    BY <1>5, <2>1 DEF Inside
  <2>3. Held(x) /\ \A k \in 1..Len(wire) : wire[k].do \notin Changing
    BY <1>2, <2>2 DEF DbInv, Leads
  <2>4. Held(x)'
    BY <1>2, <2>3 DEF Held
  <2> QED BY <2>3, <2>4
<1>9. Settled'
  <2> SUFFICES ASSUME Changed', NEW x, x = Aim
               PROVE  Held(x)' /\ \A k \in 1..Len(wire) : wire[k].do \in Changing => Same(wire[k], x)
    BY <1>1, <1>2 DEF Settled
  <2>1. call.kind \in DbKinds
    BY <1>2 DEF Changed
  <2>2. ~Unsent
    BY <1>2 DEF Unsent
  <2>3. stage' # "body"
    BY <1>2, <1>5, <2>1 DEF Changed
  <2>4. Changed
    BY <1>1, <1>2, <1>4, <2>1, <2>2, <2>3 DEF Changed
  <2>5. Held(x) /\ \A k \in 1..Len(wire) : wire[k].do \in Changing => Same(wire[k], x)
    BY <2>4 DEF DbInv, Settled
  <2>6. Held(x)'
    BY <1>2, <2>5 DEF Held
  <2> QED BY <2>5, <2>6
<1> QED BY <1>6, <1>7, <1>8, <1>9 DEF DbInv

LEMMA DbCalls ==
    ASSUME IInv, LateInv, DbInv, Invoke \/ (stage \in Resting /\ Close /\ UNCHANGED writerVars)
    PROVE  DbInv'
<1>1. /\ stage' \in Resting \cup {"before", "script"} /\ Won' = 0
      /\ shell'.config = shell.config
      /\ back' = back \/ back' = <<>>
      /\ wire' = wire \/ wire' = <<>>
      /\ stage' = "ok" => wire' = <<>> /\ UNCHANGED <<stage, call>>
  BY CallStage DEF LateInv
<1>2. /\ stage' \notin {"enter", "body", "unwind", "after"}
      /\ Len(<<>>) = 0
  BY <1>1 DEF Resting
<1>3. DbRuns'
  <2>1. CASE wire' = wire
    BY <1>2, <2>1 DEF DbInv, DbRuns
  <2>2. CASE wire' = <<>>
    BY <1>2, <2>2 DEF DbRuns
  <2> QED BY <1>1, <2>1, <2>2
<1>4. Pairs'
  <2> SUFFICES ASSUME NEW i \in 1..Len(back'), Pair(i)', NEW x, x = back'[i + 2].of
               PROVE  /\ \A h \in 1..(i - 1) : ~Okay(back'[h])
                      /\ Held(x)'
                      /\ \A k \in 1..Len(wire') : wire'[k].do \notin Changing
    BY <1>1, <1>2 DEF Pairs, Okay, Said
  <2>1. back' = back
    BY <1>1, <1>2
  <2>2. Pair(i) /\ i \in 1..Len(back)
    BY <2>1 DEF Pair
  <2>3. /\ \A h \in 1..(i - 1) : ~Okay(back[h])
        /\ Held(x)
        /\ \A k \in 1..Len(wire) : wire[k].do \notin Changing
    BY <2>1, <2>2 DEF DbInv, Pairs
  <2>4. Held(x)'
    BY <1>1, <2>3 DEF Held
  <2> QED BY <1>1, <1>2, <2>1, <2>3, <2>4
<1>5. Leads'
  BY <1>2 DEF Leads, Inside
<1>6. Settled'
  <2> SUFFICES ASSUME Changed', NEW x, x = Aim'
               PROVE  Held(x)' /\ \A k \in 1..Len(wire') : wire'[k].do \in Changing => Same(wire'[k], x)
    BY DEF Settled
  <2>1. stage' = "ok"
    BY <1>2 DEF Changed
  <2>2. wire' = <<>> /\ UNCHANGED <<stage, call>> /\ stage = "ok" /\ Aim' = Aim
    BY <1>1, <2>1 DEF Aim
  <2>3. Changed
    BY <2>1, <2>2 DEF Changed
  <2>4. Held(x)
    BY <2>2, <2>3 DEF DbInv, Settled
  <2>5. Held(x)'
    BY <1>1, <2>4 DEF Held
  <2> QED BY <1>2, <2>2, <2>5
<1> QED BY <1>3, <1>4, <1>5, <1>6 DEF DbInv

LEMMA DbInit == Init => DbInv
<1> SUFFICES ASSUME Init PROVE DbInv
  OBVIOUS
<1>1. wire = <<>> /\ back = <<>> /\ stage = "idle"
  BY DEF Init, SessionInit
<1>2. Len(wire) = 0 /\ Len(back) = 0
  BY <1>1
<1> QED BY <1>1, <1>2 DEF DbInv, DbRuns, Pairs, Leads, Inside, Settled, Changed

-----------------------------------------------------------------------------
(***************************************************************************)
(* The global settings.  Every command that sets one asks for TRUE, so     *)
(* that a setting once made stays, and an acceptance of its command tells  *)
(* that it is made, whenever it is read.                                   *)
(***************************************************************************)
GlobalSet(f, c) ==
    c.do \in Globals =>
      f.global[c.do] /\ (c.do = "address" /\ ExecAddress => f.global["gateway"])

Told ==
    /\ \A i \in 1..Len(back) : back[i].says = "nothing" => GlobalSet(shell.config, back[i].of)
    /\ stage = "body" /\ Accepted => GlobalSet(shell.config, awaiting)
    /\ \A k \in 1..Len(wire) : wire[k].do \in Globals => wire[k].on

Issued == Len(BodyCommands(call, victim)) - Len(todo)

GlobalMade ==
    call.kind \in GlobalKinds =>
      /\ stage = "body" =>
           \A m \in 1..Len(BodyCommands(call, victim)) :
             m < Issued \/ (m = Issued /\ Idle) =>
               GlobalSet(shell.config, BodyCommands(call, victim)[m])
      /\ (stage = "unwind" /\ ~failed) \/ stage \in {"after", "ok"} =>
           call \in Calls /\ Setting(call, shell.config)

GlobalInv == Told /\ GlobalMade

LEMMA GlobalsOf ==
    ASSUME NEW s, s.config \in Config, NEW c \in Line, c.do \in Globals => c.on, NEW t, NEW out,
           Outcome(s, c, t, out)
    PROVE  /\ \A g \in Globals : s.config.global[g] => t.config.global[g]
           /\ c.do \in Globals /\ Works(s, c, t, out) => GlobalSet(t.config, c)
<1> DEFINE f == s.config
<1>0. /\ \A a, b : [f EXCEPT !.certificate = a].global = f.global
      /\ \A a : /\ [f EXCEPT !.saved = a].global = f.global
                /\ [f EXCEPT !.lag = a].global = f.global
                /\ [f EXCEPT !.https = a].global = f.global
                /\ [f EXCEPT !.rows = a].global = f.global
      /\ f.global \in [Globals -> BOOLEAN]
  BY DEF Config
<1>1. CASE Works(s, c, t, out)
  <2>1. CASE c.do \in DatabaseCommands
    <3>1. t.config = DatabaseEffect(f, c)
      BY <1>1, <2>1 DEF Works
    <3>2. CASE c.do = "create"
      <4>1. t.config = [f EXCEPT !.vlans = f.vlans \cup {c.vlan}]
        BY <3>1, <3>2 DEF DatabaseEffect
      <4> QED BY <3>2, <4>1 DEF Config, Globals
    <3>3. CASE c.do = "name"
      BY <3>1, <3>3 DEF DatabaseEffect, Globals
    <3>4. CASE c.do = "remove"
      <4> DEFINE q == [p \in Port |-> IF f.pvid[p] = c.vlan THEN DefaultVlan ELSE f.pvid[p]]
      <4>1. t.config = [f EXCEPT !.vlans = f.vlans \ {c.vlan}, !.member[c.vlan] = {},
                                 !.untagged[c.vlan] = {}, !.pvid = q]
        BY <3>1, <3>4 DEF DatabaseEffect
      <4> HIDE DEF q
      <4> QED BY <3>4, <4>1 DEF Config, Globals
    <3> QED BY <2>1, <3>2, <3>3, <3>4 DEF DatabaseCommands
  <2>2. CASE c.do \in InterfaceCommands
    <3>1. t.config = InterfaceEffect(f, c, s.port)
      BY <1>1, <2>2 DEF Works
    <3>2. t.config.global = f.global
      BY <2>2, <3>1 DEF InterfaceEffect, VlanEffect, SwitchPower, ResetPower, Config,
           InterfaceCommands, PortSettings, VlanCommands
    <3>3. c.do \notin Globals
      BY <2>2 DEF Globals, InterfaceCommands, PortSettings, VlanCommands
    <3> QED BY <3>2, <3>3
  <2>3. CASE c.do \in GlobalCommands
    <3>1. t.config = GlobalEffect(f, c) /\ ~GlobalRejects(s, c)
      BY <1>1, <2>3 DEF Works
    <3>2. CASE c.do = "address" /\ ExecAddress
      <4>1. t.config = [f EXCEPT !.global["address"] = c.on, !.global["gateway"] = c.on]
        BY <3>1, <3>2 DEF GlobalEffect
      <4>2. t.config.global = [f.global EXCEPT !["address"] = c.on, !["gateway"] = c.on]
        BY <4>1 DEF Config
      <4>3. c.on
        BY <3>2 DEF Globals
      <4> QED BY <1>0, <3>2, <4>2, <4>3 DEF GlobalSet, Globals
    <3>3. CASE c.do \in Globals /\ ~(c.do = "address" /\ ExecAddress)
      <4>1. t.config = [f EXCEPT !.global[c.do] = c.on]
        BY <3>1, <3>3 DEF GlobalEffect, Globals
      <4>2. t.config.global = [f.global EXCEPT ![c.do] = c.on]
        BY <3>3, <4>1 DEF Config
      <4> QED BY <1>0, <3>3, <4>2 DEF GlobalSet
    <3>4. CASE c.do \in HostDos
      <4>1. \E R : t.config = [f EXCEPT !.rows = R]
        BY <3>1, <3>4 DEF GlobalEffect, Globals, HostDos
      <4>2. c.do \notin Globals
        BY <3>4 DEF Globals, HostDos
      <4> QED BY <1>0, <4>1, <4>2
    <3> QED BY <2>3, <3>2, <3>3, <3>4 DEF GlobalCommands, HostDos
  <2> QED BY <1>1, <2>1, <2>2, <2>3 DEF Works, BodyDos
<1>2. CASE ~Works(s, c, t, out)
  <2>1. t.config.global = s.config.global
    <3>1. CASE Resolves(s, t, out)
      <4>1. PICK a \in BOOLEAN : \/ t.config = f
                                \/ t.config = [f EXCEPT !.certificate = a]
                                \/ t.config = [f EXCEPT !.saved = a]
        BY <3>1 DEF Resolves
      <4>2. /\ [f EXCEPT !.certificate = a].global = f.global
            /\ [f EXCEPT !.saved = a].global = f.global
        BY <1>0
      <4> HIDE DEF f
      <4>3. t.config.global = f.global
        BY <4>1, <4>2
      <4> QED BY <4>3 DEF f
    <3>2. CASE Refuses(s, c, t, out) \/ Queries(s, c, t, out) \/ Descends(s, c, t, out)
               \/ Climbs(s, c, t, out)
      BY <3>2 DEF Refuses, Queries, Descends, Climbs
    <3>3. CASE Looks(s, c, t, out)
      <4>1. t.config = f \/ t.config = [f EXCEPT !.lag = {}]
        BY <3>3 DEF Looks
      <4> QED BY <1>0, <4>1
    <3>4. CASE Passes(s, c, t, out)
      BY <1>0, <3>4 DEF Passes
    <3> QED BY <1>2, <3>1, <3>2, <3>3, <3>4 DEF Outcome
  <2> QED BY <1>2, <2>1
<1> QED BY <1>1, <1>2

\* A setting that is made stays made.
LEMMA SetKept ==
    ASSUME NEW f, NEW g, \A x \in Globals : f.global[x] => g.global[x]
    PROVE  /\ \A c : GlobalSet(f, c) => GlobalSet(g, c)
           /\ \A c \in Calls : c.kind \in GlobalKinds /\ Setting(c, f) => Setting(c, g)
<1>1. \A c : GlobalSet(f, c) => GlobalSet(g, c)
  BY DEF GlobalSet, Globals
<1>2. ASSUME NEW c \in Calls, c.kind \in GlobalKinds, Setting(c, f)
      PROVE  Setting(c, g)
  <2>1. CASE c.kind = "hostname" \/ c.kind = "logging"
    <3>1. Setting(c, f) = f.global[c.kind] /\ Setting(c, g) = g.global[c.kind]
      BY <2>1 DEF Setting, PortSettings, HostKinds
    <3> QED BY <1>2, <2>1, <3>1 DEF Globals
  <2>2. CASE c.kind = "address"
    <3>1. /\ Setting(c, f) = (f.global["address"] /\ f.global["gateway"])
          /\ Setting(c, g) = (g.global["address"] /\ g.global["gateway"])
      BY <2>2 DEF Setting, PortSettings, HostKinds
    <3> QED BY <1>2, <2>2, <3>1 DEF Globals
  <2> QED BY <1>2, <2>1, <2>2 DEF GlobalKinds
<1> QED BY <1>1, <1>2

LEMMA GlobalExecutes ==
    ASSUME Typed, Aimed, StageFits, GlobalInv, Executes, UNCHANGED writerVars
    PROVE  GlobalInv'
<1>1. /\ wire \in Seq(Line) /\ wire # <<>> /\ Len(wire) \in Nat
      /\ \A k \in 1..Len(wire') : \E l \in 2..Len(wire) : wire'[k] = wire[l]
      /\ Len(back) \in Nat /\ Len(back') \in Nat
      /\ \A i \in 1..Len(back) : back'[i] = back[i]
      /\ UNCHANGED <<stage, call, todo, failed, victim, awaiting>>
      /\ (Idle' <=> Idle) /\ (Accepted' <=> Accepted)
  BY ExecEnds
<1>2. PICK out \in Seq(Chunk) : Outcome(shell, wire[1], shell', out) /\ back' = back \o out
  BY ExecOf
<1>3. wire[1] \in Line /\ back \in Seq(Chunk) /\ shell.config \in Config /\ shell'.config \in Config
  BY ExecOf DEF Typed, Shell
<1>4. 1 \in 1..Len(wire)
  BY <1>1, EmptySeq
<1>5. wire[1].do \in Globals => wire[1].on
  BY <1>4 DEF GlobalInv, Told
<1>6. /\ \A g \in Globals : shell.config.global[g] => shell'.config.global[g]
      /\ wire[1].do \in Globals /\ Works(shell, wire[1], shell', out) =>
           GlobalSet(shell'.config, wire[1])
  BY <1>2, <1>3, <1>5, GlobalsOf
<1>7. \A c : GlobalSet(shell.config, c) => GlobalSet(shell'.config, c)
  BY <1>6, SetKept
<1>8. ASSUME NEW i \in 1..Len(back'), back'[i].says = "nothing", NEW c, c = back'[i].of
      PROVE  GlobalSet(shell'.config, c)
  <2>1. CASE i \in 1..Len(back)
    BY <1>1, <1>7, <1>8, <2>1 DEF GlobalInv, Told
  <2>2. CASE i \notin 1..Len(back)
    <3>1. i = Len(back) + 1 /\ Len(back') = Len(back) + 2 /\ c = wire[1]
      BY <1>8, <2>2, ExecSays
    <3>2. Len(back') = Len(back) + Len(out) /\ Len(out) \in Nat
          /\ \A k \in 1..Len(out) : back'[Len(back) + k] = out[k]
      BY <1>2, <1>3, Joined
    <3>3. 1 \in 1..Len(out) /\ out[1].says = "nothing"
      BY <1>1, <1>8, <3>1, <3>2
    <3>4. \/ Descends(shell, wire[1], shell', out) \/ Climbs(shell, wire[1], shell', out)
          \/ Works(shell, wire[1], shell', out) \/ Passes(shell, wire[1], shell', out)
      BY <1>2, <1>3, <3>3, OutcomeSaid
    <3>5. wire[1].do \in Globals => Works(shell, wire[1], shell', out)
      BY <3>4 DEF Descends, Climbs, Passes, Globals, EnterDos
    <3>6. GlobalSet(shell'.config, wire[1])
      BY <1>6, <3>5 DEF GlobalSet
    <3> QED BY <3>1, <3>6
  <2> QED BY <2>1, <2>2
<1>9. ASSUME NEW k \in 1..Len(wire'), wire'[k].do \in Globals
      PROVE  wire'[k].on
  <2>1. PICK l \in 2..Len(wire) : wire'[k] = wire[l]
    BY <1>1
  <2>2. l \in 1..Len(wire)
    BY <1>1
  <2> QED BY <1>9, <2>1, <2>2 DEF GlobalInv, Told
<1>10. Told'
  <2>1. stage = "body" /\ Accepted => GlobalSet(shell'.config, awaiting)
    BY <1>7 DEF GlobalInv, Told
  <2> QED BY <1>1, <1>8, <1>9, <2>1 DEF Told
<1>11. GlobalMade'
  <2> SUFFICES ASSUME call.kind \in GlobalKinds
               PROVE  /\ stage = "body" =>
                           \A m \in 1..Len(BodyCommands(call, victim)) :
                             m < Issued \/ (m = Issued /\ Idle) =>
                               GlobalSet(shell'.config, BodyCommands(call, victim)[m])
                      /\ (stage = "unwind" /\ ~failed) \/ stage \in {"after", "ok"} =>
                           (call \in Calls /\ Setting(call, shell.config))'
    BY <1>1 DEF GlobalMade, Issued
  <2>1. ASSUME stage = "body", NEW m \in 1..Len(BodyCommands(call, victim)),
               m < Issued \/ (m = Issued /\ Idle)
        PROVE  GlobalSet(shell'.config, BodyCommands(call, victim)[m])
    <3>1. GlobalSet(shell.config, BodyCommands(call, victim)[m])
      BY <2>1 DEF GlobalInv, GlobalMade
    <3> QED BY <1>7, <3>1
  <2>2. ASSUME (stage = "unwind" /\ ~failed) \/ stage \in {"after", "ok"}
        PROVE  (call \in Calls /\ Setting(call, shell.config))'
    <3>1. call \in Calls /\ Setting(call, shell.config)
      BY <2>2 DEF GlobalInv, GlobalMade
    <3> QED BY <1>1, <1>3, <1>6, <3>1, SetKept
  <2> QED BY <2>1, <2>2
<1> QED BY <1>10, <1>11 DEF GlobalInv

\* The body of a call for a global setting.
LEMMA GlobalBody ==
    ASSUME NEW c \in Calls, c.kind \in GlobalKinds, NEW row, NEW cmds, cmds = BodyCommands(c, row)
    PROVE  /\ \A m \in 1..Len(cmds) : cmds[m].do \in Globals /\ cmds[m].on
           /\ \A f : (\A m \in 1..Len(cmds) : GlobalSet(f, cmds[m])) => Setting(c, f)
<1>1. c.on = TRUE
  BY DEF Calls, Call, GlobalKinds
<1>2. \A k, p, on : Set(k, p, on).do = k /\ Set(k, p, on).on = on
  BY DEF Set, Do
<1>3. Do("address").do = "address" /\ Do("address").on /\ Do("gateway").do = "gateway" /\ Do("gateway").on
  BY DEF Do
<1>4. CASE c.kind \in {"hostname", "logging"}
  <2>1. cmds = <<Set(c.kind, NoPort, c.on)>>
    BY <1>4 DEF BodyCommands, PortSettings, PowerKinds
  <2>2. Len(cmds) = 1 /\ cmds[1].do = c.kind /\ cmds[1].on
    <3>1. Len(cmds) = 1 /\ cmds[1] = Set(c.kind, NoPort, c.on)
      BY <2>1
    <3>2. cmds[1].do = c.kind /\ cmds[1].on = c.on
      BY <1>2, <3>1
    <3>3. cmds[1].on = TRUE
      BY <1>1, <3>2
    <3> QED BY <3>1, <3>2, <3>3
  <2>3. c.kind \in Globals
    BY <1>4 DEF Globals
  <2>4. \A f : Setting(c, f) = f.global[c.kind]
    BY <1>4 DEF Setting, PortSettings, HostKinds
  <2>5. \A m \in 1..Len(cmds) : m = 1
    BY <2>2
  <2>6. 1 \in 1..Len(cmds)
    BY <2>2
  <2> QED BY <2>2, <2>3, <2>4, <2>5, <2>6 DEF GlobalSet
<1>5. CASE c.kind = "address"
  <2>1. \A f : Setting(c, f) = (f.global["address"] /\ f.global["gateway"])
    BY <1>5 DEF Setting, PortSettings, HostKinds
  <2>2. CASE ExecAddress
    <3>1. cmds = <<Do("address")>>
      BY <1>5, <2>2 DEF BodyCommands, PortSettings, PowerKinds
    <3>2. Len(cmds) = 1 /\ cmds[1] = Do("address")
      BY <3>1
    <3>3. \A m \in 1..Len(cmds) : m = 1
      BY <3>2
    <3>4. 1 \in 1..Len(cmds)
      BY <3>2
    <3> QED BY <1>3, <2>1, <2>2, <3>2, <3>3, <3>4 DEF GlobalSet, Globals
  <2>3. CASE ~ExecAddress
    <3>1. cmds = <<Do("address"), Do("gateway")>>
      BY <1>5, <2>3 DEF BodyCommands, PortSettings, PowerKinds
    <3>2. Len(cmds) = 2 /\ cmds[1] = Do("address") /\ cmds[2] = Do("gateway")
      BY <3>1
    <3>3. \A m \in 1..Len(cmds) : m = 1 \/ m = 2
      BY <3>2
    <3>4. 1 \in 1..Len(cmds) /\ 2 \in 1..Len(cmds)
      BY <3>2
    <3> QED BY <1>3, <2>1, <3>2, <3>3, <3>4 DEF GlobalSet, Globals
  <2> QED BY <2>2, <2>3
<1> QED BY <1>4, <1>5 DEF GlobalKinds

LEMMA GlobalLine ==
    ASSUME Typed, StageFits, Descent, NEW c, IssueOf(c), c.do \in Globals
    PROVE  c.on
<1>1. /\ Proper(c, stage) /\ stage \in Stage /\ stage \notin Resting
  BY DEF IssueOf
<1>2. c.do \in Dos(stage)
  BY <1>1 DEF Proper
<1>3. c.do \notin Shows \cup {"exit", "https", "copy", "save", "reload"} \cup EnterDos
  BY DEF Globals, Shows, EnterDos
<1>4. stage \notin Reading \cup Resting \cup {"unwind", "script", "enter"}
  BY <1>2, <1>3, DosOf
<1>5. stage = "body"
  BY <1>1, <1>4 DEF Stage
<1>6. PICK m \in 1..Len(BodyCommands(call, victim)) : BodyCommands(call, victim)[m] = c
  BY <1>5, NextLineIs
<1>7. call \in Call /\ call.kind \notin {"reboot", "deploy"} /\ victim \in Nat /\ call \in Calls
      /\ call.kind \in Kinds
  BY <1>1, <1>5, DeepCall, CallTyped
<1>8. /\ c.do \in InterfaceCommands <=> call.kind \in PortKinds
      /\ c.do \in DatabaseCommands <=> call.kind \in {"create", "delete"}
      /\ c.do \in HostDos <=> call.kind \in HostKinds
  BY <1>6, <1>7, BodyLine
<1>9. c.do \notin InterfaceCommands \cup DatabaseCommands \cup HostDos
  BY DEF Globals, InterfaceCommands, DatabaseCommands, HostDos, PortSettings, VlanCommands
<1>10. call.kind \in GlobalKinds
  BY <1>7, <1>8, <1>9 DEF Kinds, VlanKinds, PortKinds
<1> QED BY <1>6, <1>7, <1>10, GlobalBody

LEMMA GlobalReads ==
    ASSUME IInv, Typed, Prompts, Attached, GlobalInv, ReadKeeps, NEW n, ReadOf(n), Typed'
    PROVE  GlobalInv'
<1>1. UNCHANGED <<stage, call, todo, entered, failed, victim, shell>> /\ ~Idle
  BY DEF ReadKeeps, writerVars
<1>2. /\ \A k \in 1..Len(wire) : wire'[k] = wire[k]
      /\ \A k \in 1..Len(wire') : k \notin 1..Len(wire) => wire'[k].do \in Harmless
      /\ stage \in Deep => awaiting' = awaiting
      /\ \A i \in 1..Len(back') : back'[i] = back[i + n] /\ i + n \in 1..Len(back)
  BY ReadEnds
<1>3. Told'
  <2>1. \A i \in 1..Len(back') : back'[i].says = "nothing" => GlobalSet(shell'.config, back'[i].of)
    BY <1>1, <1>2 DEF GlobalInv, Told
  <2>2. ASSUME stage = "body", Accepted' PROVE GlobalSet(shell'.config, awaiting')
    <3>1. /\ back[1].says = "nothing" /\ Same(back[1].of, awaiting) /\ awaiting' = awaiting
          /\ Len(back) \in Nat /\ Len(back) >= 2
      BY <2>2, AcceptedFirst
    <3>2. 1 \in 1..Len(back)
      BY <3>1
    <3>3. GlobalSet(shell.config, back[1].of)
      BY <3>1, <3>2 DEF GlobalInv, Told
    <3> QED BY <1>1, <3>1, <3>3 DEF GlobalSet, Same
  <2>3. ASSUME NEW k \in 1..Len(wire'), wire'[k].do \in Globals PROVE wire'[k].on
    <3>1. wire'[k].do \notin Harmless
      BY <2>3 DEF Harmless, Shows, ExecCommands, SetupCommands, Globals
    <3>2. k \in 1..Len(wire) /\ wire'[k] = wire[k]
      BY <1>2, <3>1
    <3> QED BY <2>3, <3>2 DEF GlobalInv, Told
  <2> QED BY <1>1, <2>1, <2>2, <2>3 DEF Told
<1>4. GlobalMade'
  <2>1. stage = "body" => (Idle' <=> Idle)
    BY <1>2 DEF Deep, Idle
  <2> QED BY <1>1, <2>1 DEF GlobalInv, GlobalMade, Issued
<1> QED BY <1>3, <1>4 DEF GlobalInv

LEMMA IssuedOf ==
    ASSUME Typed, StageFits, Descent, stage = "body"
    PROVE  /\ Issued \in Nat /\ Issued <= Len(BodyCommands(call, victim)) /\ Len(todo) \in Nat
           /\ BodyCommands(call, victim) \in Seq(Line)
           /\ Len(BodyCommands(call, victim)) \in Nat
           /\ Len(todo) = Len(BodyCommands(call, victim)) - Issued
           /\ \A k \in 1..Len(todo) : todo[k] = BodyCommands(call, victim)[Issued + k]
           /\ ~Idle => Issued >= 1 /\ awaiting = BodyCommands(call, victim)[Issued]
           /\ todo = <<>> => Issued = Len(BodyCommands(call, victim))
<1>1. call \in Call /\ call.kind \notin {"reboot", "deploy"} /\ victim \in Nat
  BY DeepCall DEF Resting
<1>2. BodyCommands(call, victim) \in Seq(Line) /\ Len(BodyCommands(call, victim)) \in Nat
  BY <1>1, BodyIs
<1>3. Len(todo) \in Nat /\ (todo = <<>> => Len(todo) = 0)
  BY EmptySeq DEF Typed
<1> QED BY <1>2, <1>3 DEF Descent, Issued

LEMMA GlobalIssues ==
    ASSUME Typed, StageFits, Descent, GlobalInv, NEW c, IssueOf(c)
    PROVE  GlobalInv'
<1>1. /\ UNCHANGED <<shell, stage, call, entered, failed, victim>> /\ Idle /\ ~Idle'
      /\ back' = back \/ back' = <<Prompt>>
      /\ Len(todo) \in Nat /\ Len(todo') \in Nat /\ Len(todo') = Len(todo) - 1
      /\ \A k \in 1..Len(wire') : (k \in 1..Len(wire) /\ wire'[k] = wire[k])
                                    \/ wire'[k] = c \/ wire'[k].do = "yes"
  BY IssueEnds DEF IssueOf
<1>2. ~Accepted'
  BY ChangeSent
<1>3. Told'
  <2>1. ASSUME NEW i \in 1..Len(back'), back'[i].says = "nothing"
        PROVE  GlobalSet(shell'.config, back'[i].of)
    <3>1. back' = back
      <4> SUFFICES ASSUME back' = <<Prompt>> PROVE FALSE
        BY <1>1
      <4>1. i = 1 /\ back'[1] = Prompt
        OBVIOUS
      <4> QED BY <2>1, <4>1, ChunkSays
    <3> QED BY <1>1, <2>1, <3>1 DEF GlobalInv, Told
  <2>2. ASSUME NEW k \in 1..Len(wire'), wire'[k].do \in Globals PROVE wire'[k].on
    <3>1. "yes" \notin Globals
      BY DEF Globals
    <3> QED BY <1>1, <2>2, <3>1, GlobalLine DEF GlobalInv, Told
  <2> QED BY <1>2, <2>1, <2>2 DEF Told
<1>4. GlobalMade'
  <2> SUFFICES ASSUME call.kind \in GlobalKinds, stage = "body",
                      NEW m \in 1..Len(BodyCommands(call, victim)), m < Issued'
               PROVE  GlobalSet(shell.config, BodyCommands(call, victim)[m])
    BY <1>1 DEF GlobalInv, GlobalMade
  <2>1. Issued \in Nat /\ Issued' = Issued + 1
    <3>1. Issued \in Nat /\ Len(BodyCommands(call, victim)) \in Nat
      BY IssuedOf
    <3>2. Issued' = Len(BodyCommands(call, victim)) - Len(todo')
      BY <1>1 DEF Issued
    <3> QED BY <1>1, <3>1, <3>2 DEF Issued
  <2>2. m < Issued \/ m = Issued
    BY <2>1
  <2> QED BY <1>1, <2>2 DEF GlobalInv, GlobalMade
<1> QED BY <1>3, <1>4 DEF GlobalInv

LEMMA GlobalUses ==
    ASSUME IInv, LateInv, GlobalInv, Use
    PROVE  GlobalInv'
<1>1. Takes /\ UseOf /\ UNCHANGED <<shell, wire, back, call, victim>>
  BY UsesOf DEF Takes
<1>2. /\ Idle' /\ ~Accepted'
      /\ stage' = "body" => stage = "body" /\ Accepted /\ UNCHANGED todo /\ ~Idle
      /\ stage' = "unwind" /\ ~failed' => stage = "unwind" /\ ~failed
      /\ stage' = "after" => stage = "after"
      /\ stage' = "ok" => call.kind = "reboot"
  BY <1>1, UseStage DEF Keeps, Reading, Takes
<1>3. StageFits /\ Typed /\ Descent
  BY DEF IInv, LateInv
<1>4. Told'
  BY <1>1, <1>2 DEF GlobalInv, Told
<1>5. GlobalMade'
  <2> SUFFICES ASSUME call.kind \in GlobalKinds
               PROVE  /\ stage' = "body" =>
                           \A m \in 1..Len(BodyCommands(call, victim)) :
                             m < Issued' \/ m = Issued' =>
                               GlobalSet(shell.config, BodyCommands(call, victim)[m])
                      /\ (stage' = "unwind" /\ ~failed') \/ stage' \in {"after", "ok"} =>
                           call \in Calls /\ Setting(call, shell.config)
    BY <1>1, <1>2 DEF GlobalMade
  <2>1. ASSUME stage' = "body", NEW m \in 1..Len(BodyCommands(call, victim)),
               m < Issued' \/ m = Issued'
        PROVE  GlobalSet(shell.config, BodyCommands(call, victim)[m])
    <3>1. stage = "body" /\ Accepted /\ ~Idle /\ Issued' = Issued
      BY <1>1, <1>2, <2>1 DEF Issued
    <3>2. CASE m < Issued
      BY <3>1, <3>2 DEF GlobalInv, GlobalMade
    <3>3. CASE m = Issued
      <4>1. awaiting = BodyCommands(call, victim)[m]
        BY <1>3, <3>1, <3>3, IssuedOf
      <4> QED BY <3>1, <4>1 DEF GlobalInv, Told
    <3> QED BY <2>1, <3>1, <3>2, <3>3
  <2>2. call.kind # "reboot"
    BY DEF GlobalKinds
  <2>3. (stage' = "unwind" /\ ~failed') \/ stage' \in {"after", "ok"} =>
           call \in Calls /\ Setting(call, shell.config)
    BY <1>2, <2>2 DEF GlobalInv, GlobalMade
  <2> QED BY <2>1, <2>3
<1> QED BY <1>4, <1>5 DEF GlobalInv

LEMMA GlobalTurns ==
    ASSUME IInv, LateInv, GlobalInv, Turn
    PROVE  GlobalInv'
<1>1. /\ TurnOf /\ ~Accepted'
      /\ stage' = "body" => todo' = BodyCommands(call, victim) /\ stage = "enter" /\ UNCHANGED victim
      /\ stage' = "unwind" => stage = "body"
      /\ stage' = "after" => (stage = "unwind" /\ ~failed) \/ stage = "after"
      /\ stage' = "ok" => stage = "after" \/ stage = "script"
  BY TurnStage DEF LateInv
<1>2. UNCHANGED <<shell, wire, back, call>> /\ Idle /\ todo = <<>> /\ stage \notin Resting
  BY <1>1 DEF TurnOf
<1>3. StageFits /\ Typed /\ Descent
  BY DEF IInv, LateInv
<1>4. call \in Calls /\ (stage = "script" => call.kind \notin GlobalKinds)
  BY <1>2, <1>3 DEF StageFits, GlobalKinds, Typed
<1>5. Told'
  BY <1>1, <1>2 DEF GlobalInv, Told
<1>6. GlobalMade'
  <2> SUFFICES ASSUME call.kind \in GlobalKinds
               PROVE  /\ stage' = "body" =>
                           \A m \in 1..Len(BodyCommands(call, victim)) :
                             ~(m < Issued' \/ m = Issued')
                      /\ (stage' = "unwind" /\ ~failed') \/ stage' \in {"after", "ok"} =>
                           Setting(call, shell.config)
    BY <1>1, <1>2, <1>4 DEF GlobalMade
  <2>1. stage' = "body" => \A m \in 1..Len(BodyCommands(call, victim)) : ~(m < Issued' \/ m = Issued')
    <3> SUFFICES ASSUME stage' = "body" 
                 PROVE  \A m \in 1..Len(BodyCommands(call, victim)) : ~(m < Issued' \/ m = Issued')
      OBVIOUS
    <3>1. BodyCommands(call, victim) \in Seq(Line)
      BY <1>1, <1>2, <1>3, DeepCall, BodyIs DEF Resting
    <3>2. Issued' = Len(BodyCommands(call, victim)) - Len(BodyCommands(call, victim))
      BY <1>1, <1>2 DEF Issued
    <3>3. Issued' = 0
      BY <3>1, <3>2
    <3> QED BY <3>3
  <2>2. CASE stage = "body"
    <3>1. Issued = Len(BodyCommands(call, victim)) /\ Issued \in Nat
      BY <1>2, <1>3, <2>2, IssuedOf
    <3>2. \A m \in 1..Len(BodyCommands(call, victim)) :
            GlobalSet(shell.config, BodyCommands(call, victim)[m])
      <4> SUFFICES ASSUME NEW m \in 1..Len(BodyCommands(call, victim))
                   PROVE  GlobalSet(shell.config, BodyCommands(call, victim)[m])
        OBVIOUS
      <4>1. m < Issued \/ m = Issued
        BY <3>1
      <4> QED BY <1>2, <2>2, <4>1 DEF GlobalInv, GlobalMade
    <3>3. Setting(call, shell.config)
      BY <1>4, <3>2, GlobalBody
    <3> QED BY <2>1, <3>3
  <2>3. CASE stage # "body"
    <3>1. (stage' = "unwind" /\ ~failed') \/ stage' \in {"after", "ok"} =>
            (stage = "unwind" /\ ~failed) \/ stage \in {"after", "ok"}
      BY <1>1, <1>4, <2>3
    <3> QED BY <2>1, <3>1 DEF GlobalInv, GlobalMade
  <2> QED BY <2>2, <2>3
<1> QED BY <1>5, <1>6 DEF GlobalInv

LEMMA GlobalCalls ==
    ASSUME IInv, LateInv, GlobalInv, Invoke \/ (stage \in Resting /\ Close /\ UNCHANGED writerVars)
    PROVE  GlobalInv'
<1>1. /\ stage' \in Resting \cup {"before", "script"}
      /\ shell'.config = shell.config
      /\ back' = back \/ back' = <<>>
      /\ wire' = wire \/ wire' = <<>>
      /\ stage' = "ok" => UNCHANGED <<stage, call>>
  BY CallStage DEF LateInv
<1>2. stage' \notin {"enter", "body", "unwind", "after"} /\ Len(<<>>) = 0
  BY <1>1 DEF Resting
<1>3. Told'
  BY <1>1, <1>2 DEF GlobalInv, Told
<1>4. GlobalMade'
  BY <1>1, <1>2 DEF GlobalInv, GlobalMade
<1> QED BY <1>3, <1>4 DEF GlobalInv

LEMMA GlobalInit == Init => GlobalInv
<1> SUFFICES ASSUME Init PROVE GlobalInv
  OBVIOUS
<1>1. wire = <<>> /\ back = <<>> /\ stage = "idle"
  BY DEF Init, SessionInit
<1>2. Len(wire) = 0 /\ Len(back) = 0
  BY <1>1
<1> QED BY <1>1, <1>2 DEF GlobalInv, Told, GlobalMade

-----------------------------------------------------------------------------
(***************************************************************************)
(* The ports and the collectors.  A call for a port that has entered its   *)
(* interface, and one for a collector whose command has been accepted, is  *)
(* in step: what it reads from then on is the answer of what it has sent,  *)
(* and shows the switch as it is.                                          *)
(***************************************************************************)
Fresh(x) ==
    /\ x.of = awaiting
    /\ awaiting.do \in Shows => x.says = "table"
    /\ x.says = "table" => \E l : x.at = [shell.config EXCEPT !.lag = l]

Arrived ==
    /\ wire = <<>> /\ Len(back) = 2 /\ back[2] = Prompt
    /\ back[1] \in Text /\ Fresh(back[1])

Synced ==
    /\ shell.asking = "nothing" /\ driver # "none" /\ agenda = <<>>
    /\ Idle => wire = <<>> /\ back = <<>>
    /\ Waiting => (wire = <<awaiting>> /\ back = <<>>) \/ Arrived
    /\ answer.is = "returned" =>
         /\ wire = <<>> /\ back = <<>>
         /\ Len(answer.texts) = 1 /\ Fresh(answer.texts[1])

Linked ==
    \/ /\ call.kind \in PortKinds \cup HostKinds
       /\ (stage = "unwind" /\ ~failed) \/ stage \in {"after", "farewell"}
    \/ call.kind \in PortKinds /\ (stage = "body" \/ (stage = "enter" /\ entered = 2))
    \/ call.kind \in HostKinds /\ stage = "body" /\ Idle /\ todo = <<>>

InSync == Linked /\ ~Broken => Synced

AtOk == stage = "ok" /\ call.kind \in PortKinds \cup HostKinds => wire = <<>>

\* What a line does that asks nothing and changes no mode but its own.
LEMMA PlainOutcome ==
    ASSUME NEW s \in Shell, s.asking = "nothing", NEW c \in Line, NEW t, NEW out,
           Outcome(s, c, t, out), c.do \notin ExecCommands \cup SetupCommands
    PROVE  /\ Len(out) = 2 /\ out[2] = Prompt /\ out[1] \in Text /\ out[1].of = c
           /\ t.asking = "nothing"
           /\ c.do \in Shows => out[1].says = "table"
           /\ out[1].says = "table" => out[1].at = s.config
                /\ (t.config = s.config \/ t.config = [s.config EXCEPT !.lag = {}])
           /\ out[1].says # "nothing" => t.config = s.config \/ c.do \in Shows
           /\ out[1].says = "nothing" =>
                Descends(s, c, t, out) \/ Climbs(s, c, t, out) \/ Works(s, c, t, out)
                  \/ Passes(s, c, t, out)
<1>1. Factory \in Config /\ s.config \in Config /\ c \in Command
  BY FactoryFits, LineDos DEF FitConfig, Shell
<1>2. \A what \in Printable : Says(c, what) \in Text /\ Says(c, what).of = c
                                /\ Says(c, what).says = what
  BY ChunkSays
<1>3. Page(s, c) \in Text /\ Page(s, c).of = c /\ Page(s, c).says = "table"
      /\ Page(s, c).at = s.config
  BY <1>1 DEF Page, Text, Printable
<1>4. {"nothing", "error"} \subseteq Printable
  BY DEF Printable
<1>5. \A x, y : Len(<<x, y>>) = 2 /\ <<x, y>>[1] = x /\ <<x, y>>[2] = y
  OBVIOUS
<1>6. CASE Resolves(s, t, out)
  BY <1>6 DEF Resolves, Questions, ExecCommands
<1>7. CASE Refuses(s, c, t, out)
  <2>1. Len(out) = 2 /\ out[2] = Prompt /\ out[1] = Says(c, "error") /\ t = s /\ c.do \notin Shows
    BY <1>5, <1>7 DEF Refuses
  <2>2. out[1] \in Text /\ out[1].of = c /\ out[1].says = "error"
    BY <1>2, <1>4, <2>1
  <2> QED BY <2>1, <2>2
<1>8. CASE Queries(s, c, t, out)
  BY <1>8 DEF Queries, Questions, SetupCommands
<1>9. CASE Looks(s, c, t, out)
  <2>1. Len(out) = 2 /\ out[2] = Prompt /\ out[1] = Page(s, c) /\ t.asking = "nothing" /\ c.do \in Shows
        /\ (t.config = s.config \/ t.config = [s.config EXCEPT !.lag = {}])
    BY <1>5, <1>9 DEF Looks
  <2> QED BY <1>3, <2>1
<1>10. CASE Descends(s, c, t, out) \/ Climbs(s, c, t, out) \/ Works(s, c, t, out)
              \/ Passes(s, c, t, out)
  <2>1. Quietly(s, c, t, out) /\ c.do \notin Shows
    BY <1>10 DEF Descends, Climbs, Works, Passes, Shows, EnterDos, BodyDos, DatabaseCommands,
         InterfaceCommands, GlobalCommands, Globals, PortSettings, VlanCommands
  <2>2. Len(out) = 2 /\ out[2] = Prompt /\ out[1] = Says(c, "nothing") /\ t.asking = "nothing"
    BY <1>5, <2>1 DEF Quietly
  <2>3. out[1] \in Text /\ out[1].of = c /\ out[1].says = "nothing"
    BY <1>2, <1>4, <2>2
  <2> QED BY <1>10, <2>1, <2>2, <2>3
<1> QED BY <1>6, <1>7, <1>8, <1>9, <1>10 DEF Outcome

\* The line that a linked call waits for is one of its stage.
LEMMA LinkedLine ==
    ASSUME IInv, Typed, Attached, Linked, Waiting, agenda = <<>>
    PROVE  /\ awaiting \in Line /\ awaiting.do \notin ExecCommands \cup SetupCommands
           /\ stage \in {"after", "farewell"} => awaiting.do \in Shows
           /\ stage = "unwind" => awaiting.do = "exit"
           /\ awaiting # NoLine
<1>1. Proper(awaiting, stage) /\ stage \in Stage /\ stage \notin Resting
  BY AwaitedLine
<1>2. stage \in {"enter", "body", "unwind", "after", "farewell"}
  BY DEF Linked
<1>3. awaiting.do \in Dos(stage)
  BY <1>1 DEF Proper
<1>4. awaiting.do \in EnterDos \cup BodyDos \cup {"exit"} \cup Shows
      /\ (stage \in {"after", "farewell"} => awaiting.do \in Shows)
      /\ (stage = "unwind" => awaiting.do = "exit")
  BY <1>2, <1>3, DosOf DEF Reading
<1>5. awaiting # NoLine /\ awaiting # Banner
  BY <1>1, ProperLine
<1>6. awaiting.do \notin ExecCommands \cup SetupCommands
  BY <1>4 DEF Shows, EnterDos, BodyDos, DatabaseCommands, ExecCommands, SetupCommands,
       InterfaceCommands, GlobalCommands, Globals, PortSettings, VlanCommands
<1> QED BY <1>4, <1>5, <1>6 DEF Typed

\* A line executed while the call is linked.
LEMMA SyncedExecutes ==
    ASSUME IInv, Typed, Aimed, Attached, Linked, ~Broken, Synced, Executes, UNCHANGED writerVars
    PROVE  /\ Waiting /\ wire = <<awaiting>> /\ back = <<>> /\ wire' = <<>>
           /\ Synced' /\ Arrived'
           /\ awaiting.do \in Shows =>
                shell'.config = shell.config \/ shell'.config = [shell.config EXCEPT !.lag = {}]
           /\ back'[1].says # "nothing" => shell'.config = shell.config \/ awaiting.do \in Shows
           /\ back'[1].says = "nothing" =>
                \/ Descends(shell, awaiting, shell', back')
                \/ Climbs(shell, awaiting, shell', back')
                \/ Works(shell, awaiting, shell', back')
                \/ Passes(shell, awaiting, shell', back')
<1>1. wire # <<>> /\ wire[1] \in Line /\ shell \in Shell
  BY ExecOf DEF Typed
<1>2. Waiting
  <2>1. ~Idle /\ answer.is # "returned"
    BY <1>1 DEF Synced
  <2>2. answer = Pending
    BY <2>1 DEF Typed, Broken, Raised, Ended
  <2> QED BY <2>1, <2>2 DEF Waiting, Idle
<1>3. wire = <<awaiting>> /\ back = <<>> /\ agenda = <<>> /\ driver # "none"
      /\ shell.asking = "nothing"
  BY <1>1, <1>2 DEF Synced, Arrived
<1>4. /\ awaiting \in Line /\ awaiting.do \notin ExecCommands \cup SetupCommands
      /\ awaiting # NoLine
  BY <1>2, <1>3, LinkedLine
<1>5. PICK out \in Seq(Chunk) : Outcome(shell, wire[1], shell', out) /\ back' = back \o out
  BY ExecOf
<1>6. wire[1] = awaiting
  BY <1>3
<1>7. back' = out
  BY <1>3, <1>5
<1>8. UNCHANGED <<driver, agenda, awaiting, answer>> /\ (wire' = <<>> \/ wire' = Tail(wire))
  BY ExecOf
<1>9. wire' = <<>>
  BY <1>3, <1>8
<1>10. /\ Len(out) = 2 /\ out[2] = Prompt /\ out[1] \in Text /\ out[1].of = awaiting
       /\ shell'.asking = "nothing"
       /\ awaiting.do \in Shows => out[1].says = "table"
       /\ out[1].says = "table" => out[1].at = shell.config
            /\ (shell'.config = shell.config \/ shell'.config = [shell.config EXCEPT !.lag = {}])
       /\ out[1].says # "nothing" => shell'.config = shell.config \/ awaiting.do \in Shows
       /\ out[1].says = "nothing" =>
            Descends(shell, awaiting, shell', out) \/ Climbs(shell, awaiting, shell', out)
              \/ Works(shell, awaiting, shell', out) \/ Passes(shell, awaiting, shell', out)
  BY <1>1, <1>3, <1>4, <1>5, <1>6, PlainOutcome
<1>11. out[1].says = "table" => \E l : out[1].at = [shell'.config EXCEPT !.lag = l]
  <2> SUFFICES ASSUME out[1].says = "table" PROVE \E l : out[1].at = [shell'.config EXCEPT !.lag = l]
    OBVIOUS
  <2> DEFINE f == shell.config
  <2>1. f \in Config
    BY <1>1 DEF Shell
  <2>2. f = [f EXCEPT !.lag = f.lag] /\ f = [[f EXCEPT !.lag = {}] EXCEPT !.lag = f.lag]
    BY <2>1 DEF Config
  <2>3. out[1].at = f /\ (shell'.config = f \/ shell'.config = [f EXCEPT !.lag = {}])
    BY <1>10
  <2> HIDE DEF f
  <2>4. out[1].at = [shell'.config EXCEPT !.lag = f.lag]
    BY <2>2, <2>3
  <2> QED BY <2>4
<1>12. Arrived'
  BY <1>7, <1>8, <1>9, <1>10, <1>11 DEF Arrived, Fresh
<1>13. Synced'
  <2>1. Waiting' /\ ~Idle' /\ answer'.is # "returned"
    BY <1>2, <1>4, <1>8 DEF Waiting, Idle, Pending
  <2> QED BY <1>3, <1>8, <1>10, <1>12, <2>1 DEF Synced
<1> QED BY <1>2, <1>3, <1>7, <1>9, <1>10, <1>12, <1>13

LEMMA SyncExecutes ==
    ASSUME IInv, LateInv, InSync, AtOk, Executes, UNCHANGED writerVars
    PROVE  InSync' /\ AtOk'
<1>1. Typed /\ Aimed /\ Attached
  BY DEF LateInv
<1>2. UNCHANGED <<call, stage, failed, entered, todo, answer, awaiting>>
  BY <1>1, ExecOf DEF writerVars
<1>3. (Linked' <=> Linked) /\ (Broken' <=> Broken)
  BY <1>2 DEF Linked, Broken, Idle
<1>4. Linked /\ ~Broken => Synced'
  BY <1>1, SyncedExecutes DEF InSync
<1>5. AtOk'
  BY <1>1, <1>2, ExecOf DEF AtOk
<1> QED BY <1>3, <1>4, <1>5 DEF InSync

\* What has been read when the answer has arrived.
LEMMA ArrivedRead ==
    ASSUME Typed, Arrived, NEW n, ReadOf(n), ComesBack(n), Typed', back[n] = Prompt
    PROVE  /\ n = 2 /\ wire' = <<>> /\ back' = <<>> /\ answer'.is = "returned"
           /\ Len(answer'.texts) = 1 /\ answer'.texts[1] = back[1] /\ awaiting' = awaiting
           /\ UNCHANGED <<driver, agenda>>
<1>1. back[1] # Prompt /\ Len(back) = 2 /\ wire = <<>>
  BY ChunkSays DEF Arrived
<1>2. n \in 0..2 /\ n >= 1
  BY <1>1 DEF ReadOf, ComesBack
<1>3. n = 2
  <2>1. n = 1 \/ n = 2
    BY <1>2
  <2> QED BY <1>1, <2>1
<1>4. back' = <<>> /\ wire' = <<>>
  BY <1>1, <1>3, ReadEnds DEF ComesBack
<1>5. answer'.is = "returned" /\ awaiting' = awaiting /\ UNCHANGED <<driver, agenda>>
  BY DEF ComesBack, Returned
<1>6. PICK h : Picked(answer'.texts, n, h)
  BY ReturnedTexts
<1> DEFINE s == answer'.texts
<1>7. /\ s \in Seq(Text) /\ Len(s) \in Nat /\ h \in [1..Len(s) -> 1..2]
      /\ \A i \in 1..Len(s) : s[i] = back[h[i]]
      /\ \A i, k \in 1..Len(s) : i < k => h[i] < h[k]
      /\ \E i \in 1..Len(s) : h[i] = 1
  BY <1>1, <1>3, <1>6 DEF Picked
<1> HIDE DEF s
<1>8. \A i \in 1..Len(s) : h[i] = 1
  <2> SUFFICES ASSUME NEW i \in 1..Len(s) PROVE h[i] = 1
    OBVIOUS
  <2>1. s[i] # Prompt
    <3>1. s[i] \in Text
      BY <1>7
    <3> QED BY <3>1, ChunkSays
  <2>2. h[i] \in 1..2 /\ h[i] # 2
    BY <1>1, <1>7, <2>1 DEF Arrived
  <2> QED BY <2>2
<1>9. Len(s) = 1
  <2>1. Len(s) >= 1
    BY <1>7
  <2>2. ~(Len(s) >= 2)
    <3> SUFFICES ASSUME Len(s) >= 2 PROVE FALSE
      OBVIOUS
    <3>1. 1 \in 1..Len(s) /\ 2 \in 1..Len(s)
      BY <1>7
    <3>2. h[1] = 1 /\ h[2] = 1 /\ h[1] < h[2]
      BY <1>7, <1>8, <3>1
    <3> QED BY <3>2
  <2>3. Len(s) \in Nat
    BY <1>7
  <2> QED BY <2>1, <2>2, <2>3
<1>10. s[1] = back[1]
  BY <1>7, <1>8, <1>9
<1> QED BY <1>3, <1>4, <1>5, <1>9, <1>10 DEF s

\* A linked call that reads has its own answer, or nothing at all.
LEMMA LinkedRead ==
    ASSUME IInv, Typed, Attached, InSync, Linked, ReadKeeps, NEW n, ReadOf(n), Typed', ~Broken'
    PROVE  /\ Synced' /\ Arrived /\ n = 2 /\ ~Idle' /\ answer'.is = "returned"
           /\ wire' = <<>> /\ back' = <<>>
           /\ Len(answer'.texts) = 1 /\ answer'.texts[1] = back[1] /\ awaiting' = awaiting
           /\ UNCHANGED <<driver, agenda>>
<1>1. Synced /\ Waiting /\ shell' = shell /\ ~Idle
  BY DEF InSync, ReadKeeps
<1>2. agenda = <<>>
  BY <1>1 DEF Synced
<1>3. stage # "script"
  BY DEF Linked
<1>4. ~GivesUp
  BY DEF GivesUp, Broken, Raised, Ended
<1>5. ~\E more : GoesOn(more)
  <2> SUFFICES ASSUME NEW more, GoesOn(more) PROVE FALSE
    OBVIOUS
  <2>1. stage \in {"after", "farewell"} /\ awaiting.do \notin Shows
    BY <1>2 DEF GoesOn, Linked, Deep
  <2> QED BY <1>1, <1>2, <2>1, LinkedLine
<1>6. ComesBack(n) /\ back[n] = Prompt
  BY <1>3, <1>4, <1>5 DEF ReadOf, ComesBack
<1>7. back # <<>>
  BY <1>6 DEF ReadOf, ComesBack
<1>8. Arrived
  BY <1>1, <1>7 DEF Synced
<1>9. /\ n = 2 /\ wire' = <<>> /\ back' = <<>> /\ answer'.is = "returned"
      /\ Len(answer'.texts) = 1 /\ answer'.texts[1] = back[1] /\ awaiting' = awaiting
      /\ UNCHANGED <<driver, agenda>>
  BY <1>6, <1>8, ArrivedRead
<1>10. ~Idle' /\ ~Waiting'
  BY <1>1, <1>9 DEF Idle, Waiting, Pending
<1>11. Synced'
  <2>1. Fresh(back[1])
    BY <1>8 DEF Arrived
  <2>2. Fresh(answer.texts[1])'
    BY <1>1, <1>9, <2>1 DEF Fresh
  <2> QED BY <1>1, <1>9, <1>10, <2>2 DEF Synced
<1> QED BY <1>8, <1>9, <1>10, <1>11

LEMMA SyncReads ==
    ASSUME IInv, Typed, Attached, InSync, ReadKeeps, NEW n, ReadOf(n), Typed'
    PROVE  InSync' /\ AtOk'
<1>1. ~Idle /\ UNCHANGED <<call, stage, failed, entered, todo>>
  BY DEF ReadKeeps, writerVars
<1>2. ~Idle'
  BY <1>1 DEF ReadOf, GivesUp, GoesOn, ComesBack, Idle
<1>3. Linked' => Linked
  BY <1>1, <1>2 DEF Linked
<1>4. stage' # "ok"
  BY <1>1 DEF IInv, StageFits, Resting
<1>5. InSync'
  BY <1>3, LinkedRead DEF InSync
<1> QED BY <1>4, <1>5 DEF AtOk

LEMMA SyncIssues ==
    ASSUME Typed, StageFits, Descent, InSync, NEW c, IssueOf(c)
    PROVE  InSync' /\ AtOk'
<1>1. /\ UNCHANGED <<shell, stage, call, entered, failed>> /\ Idle /\ ~Idle' /\ ~Broken
      /\ stage \notin Resting /\ stage \in Stage /\ Proper(c, stage) /\ c # NoLine
      /\ answer = Pending /\ c \in Line
  BY IssueEnds DEF IssueOf
<1>2. stage' # "ok"
  BY <1>1 DEF Resting
<1>3. SUFFICES ASSUME Linked' PROVE Synced'
  BY <1>2 DEF InSync, AtOk
<1>4. Linked
  BY <1>1, <1>3 DEF Linked
<1>5. shell.asking = "nothing" /\ driver # "none" /\ agenda = <<>> /\ wire = <<>> /\ back = <<>>
  BY <1>1, <1>4 DEF InSync, Synced
<1>6. Sends(c)
  BY <1>5 DEF IssueOf, Connects
<1>7. c.do \notin {"reload", "save"}
  <2>1. stage \in {"unwind", "after", "farewell", "body", "enter"}
    BY <1>4 DEF Linked
  <2>2. c.do \in EnterDos \cup BodyDos \cup {"exit"} \cup Shows
    BY <1>1, <2>1, DosOf DEF Proper, Reading
  <2> QED BY <2>2 DEF Shows, EnterDos, BodyDos, DatabaseCommands,
       InterfaceCommands, GlobalCommands, Globals, PortSettings, VlanCommands
<1>8. wire' = <<c>> /\ awaiting' = c /\ UNCHANGED <<back, driver, agenda, answer>>
  <2>1. Lines(c) = <<c>>
    BY <1>7 DEF Lines
  <2>2. wire' = <<>> \o <<c>>
    BY <1>5, <1>6, <2>1 DEF Sends
  <2>3. <<>> \o <<c>> = <<c>>
    OBVIOUS
  <2> QED BY <1>6, <2>2, <2>3 DEF Sends
<1>9. answer'.is # "returned"
  BY <1>1, <1>8 DEF Pending
<1>10. shell'.asking = "nothing" /\ driver' # "none" /\ agenda' = <<>> /\ back' = <<>>
       /\ wire' = <<awaiting'>>
  BY <1>1, <1>5, <1>8
<1> QED BY <1>1, <1>9, <1>10 DEF Synced

LEMMA SyncUses ==
    ASSUME IInv, LateInv, InSync, Takes, UseOf
    PROVE  InSync' /\ AtOk'
<1>1. Typed /\ Attached /\ Descent /\ Landed /\ StageFits
  BY DEF IInv, LateInv
<1>2. /\ ~Idle /\ ~Waiting /\ Idle' /\ answer # Pending /\ answer' = Pending /\ entered \in Nat
      /\ UNCHANGED <<shell, wire, back, driver, agenda, call, victim>>
  BY DEF Takes
<1>3. ~Waiting' /\ answer'.is # "returned"
  BY <1>2 DEF Waiting, Idle, Pending
<1> DEFINE Clean0 == /\ shell.asking = "nothing" /\ driver # "none" /\ agenda = <<>>
                     /\ wire = <<>> /\ back = <<>>
<1>4. Clean0 => Synced'
  BY <1>2, <1>3 DEF Synced
<1>5. Linked /\ ~Broken => Clean0
  <2> SUFFICES ASSUME Linked, ~Broken PROVE Clean0
    OBVIOUS
  <2>1. answer.is = "returned"
    BY <1>1, <1>2 DEF Typed, Broken, Raised, Ended
  <2> QED BY <2>1 DEF InSync, Synced
<1>6. stage \in {"enter", "body"} /\ Accepted => driver # "none" /\ agenda = <<>> /\ ~Broken
  BY <1>1 DEF Attached, Accepted, Broken
<1>7. ASSUME stage \in {"enter", "body"}, Accepted, entered = 1, awaiting.do \in InnerDos
      PROVE  Clean0
  BY <1>1, <1>2, <1>6, <1>7, InnerAccepted
<1>8. ASSUME Linked', stage' = "enter" PROVE Clean0
  <2>1. entered' = 2 /\ call.kind \in PortKinds /\ stage = "enter" /\ Accepted /\ entered' = entered + 1
    BY <1>2, <1>8, UseStage DEF Linked
  <2>2. entered = 1
    BY <1>2, <2>1
  <2>3. awaiting.do = "interface"
    BY <1>1, <1>2, <2>1, <2>2, AwaitedIs
  <2> QED BY <1>7, <2>1, <2>2, <2>3 DEF InnerDos
<1>9. ASSUME Linked', stage' = "body" PROVE Clean0
  <2>1. stage = "body" /\ Accepted /\ Keeps /\ call.kind \in PortKinds \cup HostKinds
    BY <1>2, <1>9, UseStage DEF Linked
  <2>2. CASE call.kind \in PortKinds
    BY <1>5, <1>6, <2>1, <2>2 DEF Linked
  <2>3. CASE call.kind \in HostKinds
    <3>1. /\ call \in Call /\ call.kind \notin {"reboot", "deploy"} /\ victim \in Nat
          /\ \E m \in 1..Len(BodyCommands(call, victim)) :
               BodyCommands(call, victim)[m] = awaiting
      BY <1>1, <1>2, <2>1, AwaitedIs
    <3>2. awaiting.do \in HostDos /\ Len(EnterCommands(call)) = 1
      BY <2>3, <3>1, BodyLine
    <3>3. entered = 1
      BY <1>1, <2>1, <3>2 DEF Descent
    <3> QED BY <1>7, <2>1, <3>2, <3>3 DEF HostDos, InnerDos
  <2> QED BY <2>1, <2>2, <2>3
<1>10. ASSUME Linked', stage' \notin {"enter", "body"} PROVE Clean0
  <2>1. (stage' = "unwind" /\ ~failed') \/ stage' \in {"after", "farewell"}
    BY <1>10 DEF Linked
  <2>2. stage' = stage /\ failed' = failed /\ ~Broken
    BY <2>1, UseStage DEF Reading, Keeps
  <2>3. Linked
    BY <1>2, <1>10, <2>1, <2>2 DEF Linked
  <2> QED BY <1>5, <2>2, <2>3
<1>11. InSync'
  BY <1>4, <1>8, <1>9, <1>10 DEF InSync
<1>12. AtOk'
  <2>1. stage' = "ok" => call'.kind = "reboot"
    BY <1>2, UseStage
  <2> QED BY <2>1 DEF AtOk, PortKinds, PortSettings, PowerKinds, HostKinds
<1> QED BY <1>11, <1>12

LEMMA SyncTurns ==
    ASSUME IInv, LateInv, InSync, Turn
    PROVE  InSync' /\ AtOk'
<1>1. Typed /\ Attached /\ Descent /\ StageFits
  BY DEF IInv, LateInv
<1>2. TurnOf /\ ~Waiting'
  BY <1>1, TurnStage
<1>3. /\ stage \notin Resting /\ Idle /\ Idle' /\ todo = <<>> /\ ~Broken /\ entered \in Nat
      /\ answer = Pending /\ answer' = Pending
      /\ UNCHANGED <<shell, wire, back, driver, agenda, call>>
  BY <1>2 DEF TurnOf
<1>4. answer'.is # "returned"
  BY <1>3 DEF Pending
<1> DEFINE Clean0 == /\ shell.asking = "nothing" /\ driver # "none" /\ agenda = <<>>
                     /\ wire = <<>> /\ back = <<>>
<1>5. Clean0 => Synced'
  BY <1>2, <1>3, <1>4 DEF Synced
<1>6. Linked => Clean0
  BY <1>3 DEF InSync, Synced
<1>7. ASSUME Linked' PROVE Linked
  <2>1. CASE stage' = "enter"
    <3>1. entered' = 0
      BY <1>1, <2>1, TurnStage
    <3> QED BY <1>7, <2>1, <3>1 DEF Linked
  <2>2. CASE stage' = "body"
    <3>1. stage = "enter" /\ todo' = BodyCommands(call, victim) /\ UNCHANGED <<entered, victim>>
      BY <1>1, <2>2, TurnStage
    <3>2. call \in Call /\ call.kind \notin {"reboot", "deploy"} /\ victim \in Nat
      BY <1>1, <1>3, <3>1, DeepCall
    <3>3. CASE call.kind \in PortKinds
      <4>1. EnterCommands(call) = <<Do("configure"), OnPort("interface", NoVlan, call.port)>>
        BY <3>2, <3>3, EnterIs
      <4>2. Len(EnterCommands(call)) = 2
        BY <4>1
      <4>3. Len(todo) = 0
        BY <1>3
      <4>4. entered = Len(EnterCommands(call)) - Len(todo)
        BY <1>1, <1>3, <3>1 DEF Descent
      <4>5. entered = 2
        BY <4>2, <4>3, <4>4
      <4> QED BY <3>1, <3>3, <4>5 DEF Linked
    <3>4. CASE call.kind \in HostKinds
      <4>1. PICK x \in Line : BodyCommands(call, victim) = <<x>>
        BY <3>2, <3>4, BodyIs
      <4>2. todo' # <<>>
        BY <3>1, <4>1
      <4>3. call.kind \notin PortKinds
        BY <3>4 DEF PortKinds, PortSettings, PowerKinds, HostKinds
      <4> QED BY <1>3, <1>7, <2>2, <4>2, <4>3 DEF Linked
    <3> QED BY <1>3, <1>7, <3>3, <3>4 DEF Linked
  <2>3. CASE stage' = "unwind"
    <3>1. stage = "body" /\ call.kind \in PortKinds \cup HostKinds
      BY <1>1, <1>3, <1>7, <2>3, TurnStage DEF Linked
    <3> QED BY <1>3, <3>1 DEF Linked
  <2>4. CASE stage' \in {"after", "farewell"}
    <3>1. (stage = "unwind" /\ ~failed) \/ stage = "after"
      BY <1>1, <2>4, TurnStage
    <3>2. call.kind \in PortKinds \cup HostKinds
      BY <1>3, <1>7, <2>4 DEF Linked
    <3> QED BY <3>1, <3>2 DEF Linked
  <2> QED BY <1>7, <2>1, <2>2, <2>3, <2>4 DEF Linked
<1>8. InSync'
  BY <1>5, <1>6, <1>7 DEF InSync
<1>9. AtOk'
  <2> SUFFICES ASSUME stage' = "ok", call.kind \in PortKinds \cup HostKinds PROVE wire' = <<>>
    BY <1>3 DEF AtOk
  <2>1. stage \in {"after", "script"}
    BY <1>1, TurnStage
  <2>2. stage # "script"
    BY <1>1, <1>3 DEF StageFits, PortKinds, PortSettings, PowerKinds, HostKinds
  <2>3. Linked
    BY <2>1, <2>2 DEF Linked
  <2> QED BY <1>3, <1>6, <2>3
<1> QED BY <1>8, <1>9

LEMMA SyncCalls ==
    ASSUME IInv, LateInv, AtOk, Invoke \/ (stage \in Resting /\ Close /\ UNCHANGED writerVars)
    PROVE  InSync' /\ AtOk'
<1>1. Typed
  BY DEF LateInv
<1>2. stage' \in Resting \cup {"before", "script"} /\ (stage' = "ok" => wire' = <<>>)
  BY <1>1, CallStage
<1>3. ~Linked'
  BY <1>2 DEF Linked, Resting
<1> QED BY <1>2, <1>3 DEF InSync, AtOk

LEMMA SyncInit == Init => InSync /\ AtOk
<1> SUFFICES ASSUME Init PROVE InSync /\ AtOk
  OBVIOUS
<1>1. stage = "idle"
  BY DEF Init
<1> QED BY <1>1 DEF InSync, AtOk, Linked

-----------------------------------------------------------------------------
(***************************************************************************)
(* What the lines of a call for a port have made so far.                   *)
(***************************************************************************)
\* What a line leaves behind, on a port that honours it.
Does(f, x) ==
    /\ x.do \in {"general"} \cup VlanCommands => x.port \in f.general
    /\ x.do \in {"include", "tag", "untag"} => x.port \in f.member[x.vlan]
    /\ x.do \in {"include", "untag"} => x.port \in f.untagged[x.vlan]
    /\ x.do \in {"exclude", "tag"} => x.port \notin f.untagged[x.vlan]
    /\ x.do = "exclude" => x.port \notin f.member[x.vlan]
    /\ x.do = "pvid" => f.pvid[x.port] = x.vlan
    /\ x.do \in PortSettings => f.setting[x.do][x.port] = x.on
    /\ x.do = "poe" => (f.power[x.port] # "off" <=> x.on)
    /\ x.do = "poeReset" => x.port \in f.reset /\ f.power[x.port] \in {"delivering", "searching"}

\* The line before.
Follows(x, y) ==
    /\ x.port = y.port
    /\ x.do \in {"include", "exclude", "pvid"} => y.do = "general"
    /\ x.do \in {"tag", "untag"} => y.do = "include" /\ x.vlan = y.vlan

LastLine(c, row) == BodyCommands(c, row)[Len(BodyCommands(c, row))]

BodyLines == BodyCommands(call, victim)

AllGeneral == ~HasModes => shell.config.general = Port

PortBodyMade ==
    stage = "body" /\ ~Broken =>
      /\ Idle /\ Issued >= 1 => Does(shell.config, BodyLines[Issued])
      /\ Waiting /\ wire # <<>> /\ Issued >= 2 => Does(shell.config, BodyLines[Issued - 1])
      /\ Waiting /\ back # <<>> /\ back[1].says = "nothing" => Does(shell.config, awaiting)
      /\ Accepted => Does(shell.config, awaiting)

PortLeft == ((stage = "unwind" /\ ~failed) \/ stage \in {"after", "farewell", "ok"}) /\ ~Broken

PortLeftMade ==
    PortLeft => call \in Calls /\ \E row \in Nat : Does(shell.config, LastLine(call, row))

PortMade == call.kind \in PortKinds => PortBodyMade /\ PortLeftMade

\* The lag of a page does not matter.
LEMMA DoesLag ==
    ASSUME NEW f \in Config, NEW x, NEW l, Does(f, x)
    PROVE  Does([f EXCEPT !.lag = l], x)
<1> DEFINE g == [f EXCEPT !.lag = l]
<1>1. /\ g.general = f.general /\ g.member = f.member /\ g.untagged = f.untagged /\ g.pvid = f.pvid
      /\ g.setting = f.setting /\ g.power = f.power /\ g.reset = f.reset
  BY DEF Config
<1> HIDE DEF g
<1>2. Does(g, x)
  BY <1>1 DEF Does
<1> QED BY <1>2 DEF g

\* A line of a port's mode does what it is for, after the one before it.
LEMMA LineDoes ==
    ASSUME NEW f \in Config, NEW x \in Line, x.do \in InterfaceCommands,
           x.do \in {"include", "exclude", "pvid", "tag", "untag"} => x.port \in f.general,
           x.do \in {"tag", "untag"} =>
             x.port \in f.member[x.vlan] /\ x.port \in f.untagged[x.vlan]
    PROVE  Does(InterfaceEffect(f, x, x.port), x)
<1>1. x.port \in Port /\ x.on \in BOOLEAN /\ (x.do \in VlanCommands => x.vlan \in Vlan)
  BY LineDos
<1> DEFINE g == InterfaceEffect(f, x, x.port)
<1>2. CASE x.do \in PortSettings
  <2>1. g = [f EXCEPT !.setting[x.do][x.port] = x.on]
    BY <1>2 DEF InterfaceEffect, PortSettings, VlanCommands
  <2>2. g.setting[x.do][x.port] = x.on
    BY <1>1, <1>2, <2>1 DEF Config
  <2> HIDE DEF g
  <2>3. Does(g, x)
    BY <1>2, <2>2 DEF Does, PortSettings, VlanCommands
  <2> QED BY <2>3 DEF g
<1>3. CASE x.do = "general"
  <2>1. g = [f EXCEPT !.general = @ \cup {x.port}]
    BY <1>3 DEF InterfaceEffect, PortSettings, VlanCommands
  <2>2. x.port \in g.general
    BY <2>1 DEF Config
  <2> HIDE DEF g
  <2>3. Does(g, x)
    BY <1>3, <2>2 DEF Does, PortSettings, VlanCommands
  <2> QED BY <2>3 DEF g
<1>4. CASE x.do = "poe"
  <2> DEFINE lag == IF x.on /\ f.power[x.port] = "off" THEN f.lag \cup {x.port} ELSE f.lag
             pow == IF x.on THEN "delivering" ELSE "off"
  <2>1. g = [f EXCEPT !.power[x.port] = pow, !.lag = lag]
    BY <1>4 DEF InterfaceEffect, PortSettings, VlanCommands, SwitchPower
  <2>2. pow # "off" <=> x.on
    BY <1>1
  <2> HIDE DEF lag, pow
  <2>3. g.power[x.port] = pow
    BY <1>1, <2>1 DEF Config
  <2> HIDE DEF g
  <2>4. Does(g, x)
    BY <1>4, <2>2, <2>3 DEF Does, PortSettings, VlanCommands
  <2> QED BY <2>4 DEF g
<1>5. CASE x.do = "poeReset"
  <2> DEFINE pow == IF x.port \in f.draws THEN "delivering" ELSE "searching"
  <2>1. g = [f EXCEPT !.power[x.port] = pow, !.reset = @ \cup {x.port}]
    BY <1>5 DEF InterfaceEffect, PortSettings, VlanCommands, ResetPower
  <2>2. pow \in {"searching", "delivering"}
    OBVIOUS
  <2> HIDE DEF pow
  <2>3. g.power[x.port] = pow /\ x.port \in g.reset
    BY <1>1, <2>1 DEF Config
  <2> HIDE DEF g
  <2>4. Does(g, x)
    BY <1>5, <2>2, <2>3 DEF Does, PortSettings, VlanCommands
  <2> QED BY <2>4 DEF g
<1>6. CASE x.do \in VlanCommands
  <2> DEFINE p == x.port
             v == x.vlan
  <2>0. p \in f.general /\ p \in Port /\ v \in Vlan
    BY <1>1, <1>6 DEF VlanCommands
  <2>1. g = VlanEffect(f, x, p)
    BY <1>6 DEF InterfaceEffect, PortSettings, VlanCommands
  <2>2. CASE x.do = "include"
    <3>1. g = [f EXCEPT !.member[v] = @ \cup {p}, !.untagged[v] = @ \cup {p}]
      BY <2>0, <2>1, <2>2 DEF VlanEffect
    <3>2. p \in g.member[v] /\ p \in g.untagged[v] /\ g.general = f.general
      BY <2>0, <3>1 DEF Config
    <3> HIDE DEF g
    <3>3. Does(g, x)
      BY <2>0, <2>2, <3>2 DEF Does, PortSettings, VlanCommands
    <3> QED BY <3>3 DEF g
  <2>3. CASE x.do = "exclude"
    <3>1. g = [f EXCEPT !.member[v] = @ \ {p}, !.untagged[v] = @ \ {p}]
      BY <2>0, <2>1, <2>3 DEF VlanEffect
    <3>2. p \notin g.member[v] /\ p \notin g.untagged[v] /\ g.general = f.general
      BY <2>0, <3>1 DEF Config
    <3> HIDE DEF g
    <3>3. Does(g, x)
      BY <2>0, <2>3, <3>2 DEF Does, PortSettings, VlanCommands
    <3> QED BY <3>3 DEF g
  <2>4. CASE x.do = "tag"
    <3>1. g = [f EXCEPT !.untagged[v] = @ \ {p}]
      BY <2>0, <2>1, <2>4 DEF VlanEffect
    <3>2. p \in g.member[v] /\ p \notin g.untagged[v] /\ g.general = f.general
      BY <2>0, <2>4, <3>1 DEF Config
    <3> HIDE DEF g
    <3>3. Does(g, x)
      BY <2>0, <2>4, <3>2 DEF Does, PortSettings, VlanCommands
    <3> QED BY <3>3 DEF g
  <2>5. CASE x.do = "untag"
    <3>1. g = [f EXCEPT !.untagged[v] = @ \cup {p}]
      BY <2>0, <2>1, <2>5 DEF VlanEffect
    <3>2. p \in g.member[v] /\ p \in g.untagged[v] /\ g.general = f.general
      BY <2>0, <2>5, <3>1 DEF Config
    <3> HIDE DEF g
    <3>3. Does(g, x)
      BY <2>0, <2>5, <3>2 DEF Does, PortSettings, VlanCommands
    <3> QED BY <3>3 DEF g
  <2>6. CASE x.do = "pvid"
    <3>1. g = [f EXCEPT !.pvid[p] = v]
      BY <2>0, <2>1, <2>6 DEF VlanEffect
    <3>2. g.pvid[p] = v /\ g.general = f.general
      BY <2>0, <3>1 DEF Config
    <3> HIDE DEF g
    <3>3. Does(g, x)
      BY <2>0, <2>6, <3>2 DEF Does, PortSettings, VlanCommands
    <3> QED BY <3>3 DEF g
  <2> QED BY <1>6, <2>2, <2>3, <2>4, <2>5, <2>6 DEF VlanCommands
<1> QED BY <1>2, <1>3, <1>4, <1>5, <1>6 DEF InterfaceCommands

LEMMA GluedSeqs ==
    ASSUME NEW g, NEW x, NEW y
    PROVE  /\ <<>> \o <<x>> = <<x>> /\ <<>> \o <<x, y>> = <<x, y>>
           /\ <<g>> \o <<x>> = <<g, x>> /\ <<g>> \o <<x, y>> = <<g, x, y>>
<1>1. <<>> \o <<x>> = <<x>>
  OBVIOUS
<1>2. <<>> \o <<x, y>> = <<x, y>>
  OBVIOUS
<1> DEFINE S == {g, x, y}
<1>0. g \in S /\ x \in S /\ y \in S
  OBVIOUS
<1> HIDE DEF S
<1>3. <<g>> \o <<x>> = <<g, x>>
  <2> DEFINE u == <<g>> \o <<x>>
  <2>1. /\ <<g>> \in Seq(S) /\ Len(<<g>>) = 1 /\ <<g>>[1] = g
        /\ <<x>> \in Seq(S) /\ Len(<<x>>) = 1 /\ <<x>>[1] = x
    BY <1>0, ShortSeqs
  <2>2. u \in Seq(S) /\ Len(u) = 2 /\ u[1] = g /\ u[2] = x
    <3> DEFINE v == <<g>>
               w == <<x>>
    <3> HIDE DEF v, w
    <3>1. u \in Seq(S) /\ Len(u) = Len(v) + Len(w) /\ (\A i \in 1..Len(v) : u[i] = v[i])
          /\ \A i \in 1..Len(w) : u[Len(v) + i] = w[i]
      BY <2>1, Joined DEF v, w
    <3>2. Len(v) = 1 /\ Len(w) = 1 /\ v[1] = g /\ w[1] = x
      BY <2>1 DEF v, w
    <3> HIDE DEF u
    <3> QED BY <3>1, <3>2
  <2> HIDE DEF u
  <2>3. u = <<u[1], u[2]>>
    BY <2>2
  <2> QED BY <2>2, <2>3 DEF u
<1>4. <<g>> \o <<x, y>> = <<g, x, y>>
  <2> DEFINE u == <<g>> \o <<x, y>>
  <2>1. /\ <<g>> \in Seq(S) /\ Len(<<g>>) = 1 /\ <<g>>[1] = g
        /\ <<x, y>> \in Seq(S) /\ Len(<<x, y>>) = 2 /\ <<x, y>>[1] = x /\ <<x, y>>[2] = y
    BY <1>0, ShortSeqs
  <2>2. u \in Seq(S) /\ Len(u) = 3 /\ u[1] = g /\ u[2] = x /\ u[3] = y
    <3> DEFINE v == <<g>>
               w == <<x, y>>
    <3> HIDE DEF v, w
    <3>1. u \in Seq(S) /\ Len(u) = Len(v) + Len(w) /\ (\A i \in 1..Len(v) : u[i] = v[i])
          /\ \A i \in 1..Len(w) : u[Len(v) + i] = w[i]
      BY <2>1, Joined DEF v, w
    <3>2. Len(v) = 1 /\ Len(w) = 2 /\ v[1] = g /\ w[1] = x /\ w[2] = y
      BY <2>1 DEF v, w
    <3> HIDE DEF u
    <3>3. u[2] = w[1] /\ u[3] = w[2]
      BY <3>1, <3>2
    <3> QED BY <3>1, <3>2, <3>3
  <2> HIDE DEF u
  <2>3. u = <<u[1], u[2], u[3]>>
    BY <2>2
  <2> QED BY <2>2, <2>3 DEF u
<1> QED BY <1>1, <1>2, <1>3, <1>4

\* The lines of a call for a port.
LEMMA PortBodyIs ==
    ASSUME NEW c, NEW row
    PROVE  /\ c.kind = "pvid" => BodyCommands(c, row) = GeneralMode(c) \o <<OnPort("pvid", c.vlan, c.port)>>
           /\ c.kind = "membership" =>
                /\ c.mode = "excluded" =>
                     BodyCommands(c, row) = GeneralMode(c) \o <<OnPort("exclude", c.vlan, c.port)>>
                /\ c.mode = "tagged" =>
                     BodyCommands(c, row) =
                       GeneralMode(c) \o <<OnPort("include", c.vlan, c.port),
                                           OnPort("tag", c.vlan, c.port)>>
                /\ c.mode = "untagged" =>
                     BodyCommands(c, row) =
                       GeneralMode(c) \o <<OnPort("include", c.vlan, c.port),
                                           OnPort("untag", c.vlan, c.port)>>
<1> DEFINE s == BodyCommands(c, row)
<1> HIDE DEF s
<1> DEFINE on(what) == OnPort(what, c.vlan, c.port)
<1> HIDE DEF on
<1> USE DEF PortSettings, PowerKinds, GlobalKinds, HostKinds
<1>1. c.kind = "pvid" => s = GeneralMode(c) \o <<on("pvid")>>
  BY DEF BodyCommands, on, s
<1>2. CASE c.kind = "membership"
  <2> DEFINE u == CASE c.mode = "excluded" -> <<on("exclude")>>
                    [] c.mode = "tagged"   -> <<on("include"), on("tag")>>
                    [] c.mode = "untagged" -> <<on("include"), on("untag")>>
  <2>1. s = GeneralMode(c) \o u
    BY <1>2 DEF BodyCommands, on, s
  <2>2. /\ c.mode = "excluded" => u = <<on("exclude")>>
        /\ c.mode = "tagged" => u = <<on("include"), on("tag")>>
        /\ c.mode = "untagged" => u = <<on("include"), on("untag")>>
    OBVIOUS
  <2> HIDE DEF u
  <2> QED BY <1>1, <1>2, <2>1, <2>2 DEF on, s
<1> QED BY <1>1, <1>2 DEF on, s

LEMMA SetBodyIs ==
    ASSUME NEW c, NEW row, NEW s, s = BodyCommands(c, row)
    PROVE  /\ c.kind \in PortSettings \cup {"poe"} => s = <<Set(c.kind, c.port, c.on)>>
           /\ c.kind \in {"cycle", "clearFault"} => s = <<OnPort("poeReset", NoVlan, c.port)>>
<1> USE DEF PortSettings, PowerKinds, GlobalKinds, HostKinds
<1>3. c.kind \in PortSettings \cup {"poe"} => s = <<Set(c.kind, c.port, c.on)>>
  BY DEF BodyCommands
<1>4. c.kind \in {"cycle", "clearFault"} => s = <<OnPort("poeReset", NoVlan, c.port)>>
  BY DEF BodyCommands
<1> QED BY <1>3, <1>4

\* The order of a port's lines.
LEMMA BodyOrder ==
    ASSUME NEW c \in Call, c.kind \in PortKinds, NEW row, NEW s, s = BodyCommands(c, row)
    PROVE  /\ Len(s) \in 1..3
           /\ \A k \in 1..Len(s) : k >= 2 => Follows(s[k], s[k - 1])
           /\ s[1].do \notin {"tag", "untag"}
           /\ HasModes => s[1].do \notin {"include", "exclude", "pvid"}
<1> DEFINE on(what) == OnPort(what, c.vlan, c.port)
           gen == OnPort("general", NoVlan, c.port)
           Fine == /\ Len(s) \in 1..3
                   /\ \A k \in 1..Len(s) : k >= 2 => Follows(s[k], s[k - 1])
                   /\ s[1].do \notin {"tag", "untag"}
                   /\ HasModes => s[1].do \notin {"include", "exclude", "pvid"}
<1>0. HasModes \in BOOLEAN
  BY FastpathShellAssumption
<1>1. /\ \A what : on(what).do = what /\ on(what).port = c.port /\ on(what).vlan = c.vlan
      /\ gen.do = "general" /\ gen.port = c.port
  BY DEF OnPort, Do
<1>2. ASSUME NEW x, s = <<x>>, x.do \notin {"tag", "untag"},
             HasModes => x.do \notin {"include", "exclude", "pvid"}
      PROVE  Fine
  <2>1. Len(s) = 1 /\ s[1] = x
    BY <1>2
  <2> QED BY <1>2, <2>1
<1>3. ASSUME NEW x, NEW y, s = <<x, y>>, x.do \notin {"tag", "untag"},
             HasModes => x.do \notin {"include", "exclude", "pvid"}, Follows(y, x)
      PROVE  Fine
  <2>1. Len(s) = 2 /\ s[1] = x /\ s[2] = y
    BY <1>3
  <2>2. \A k \in 1..2 : k >= 2 => k = 2 /\ k - 1 = 1
    OBVIOUS
  <2> HIDE DEF on, gen
  <2> QED BY <1>3, <2>1, <2>2
<1>4. ASSUME NEW x, NEW y, NEW z, s = <<x, y, z>>, x.do \notin {"tag", "untag"},
             HasModes => x.do \notin {"include", "exclude", "pvid"}, Follows(y, x), Follows(z, y)
      PROVE  Fine
  <2>1. Len(s) = 3 /\ s[1] = x /\ s[2] = y /\ s[3] = z
    BY <1>4
  <2>2. \A k \in 1..3 : k >= 2 => (k = 2 /\ k - 1 = 1) \/ (k = 3 /\ k - 1 = 2)
    OBVIOUS
  <2> HIDE DEF on, gen
  <2> QED BY <1>4, <2>1, <2>2
<1>5. GeneralMode(c) = IF HasModes THEN <<gen>> ELSE <<>>
  BY DEF GeneralMode
<1>6. ASSUME NEW x, NEW y
      PROVE  /\ <<>> \o <<x>> = <<x>> /\ <<>> \o <<x, y>> = <<x, y>>
             /\ <<gen>> \o <<x>> = <<gen, x>> /\ <<gen>> \o <<x, y>> = <<gen, x, y>>
  BY GluedSeqs
<1>7. ASSUME NEW x, s = GeneralMode(c) \o <<x>>, x.do \in {"pvid", "exclude"}, x.port = c.port
      PROVE  Fine
  <2>1. CASE HasModes
    <3>1. s = <<gen, x>>
      BY <1>5, <1>6, <1>7, <2>1
    <3>2. Follows(x, gen)
      BY <1>1, <1>7 DEF Follows
    <3> HIDE DEF gen, Fine
    <3> QED BY <1>1, <1>3, <3>1, <3>2
  <2>2. CASE ~HasModes
    <3>1. s = <<x>>
      BY <1>5, <1>6, <1>7, <2>2
    <3> HIDE DEF gen, Fine
    <3> QED BY <1>2, <1>7, <2>2, <3>1
  <2> QED BY <1>0, <2>1, <2>2
<1>8. ASSUME NEW x, NEW y, s = GeneralMode(c) \o <<x, y>>, x.do = "include", x.port = c.port,
             Follows(y, x)
      PROVE  Fine
  <2>1. CASE HasModes
    <3>1. s = <<gen, x, y>>
      BY <1>5, <1>6, <1>8, <2>1
    <3>2. Follows(x, gen)
      BY <1>1, <1>8 DEF Follows
    <3> HIDE DEF gen, Fine
    <3> QED BY <1>1, <1>4, <1>8, <3>1, <3>2
  <2>2. CASE ~HasModes
    <3>1. s = <<x, y>>
      BY <1>5, <1>6, <1>8, <2>2
    <3> HIDE DEF gen, Fine
    <3> QED BY <1>3, <1>8, <2>2, <3>1
  <2> QED BY <1>0, <2>1, <2>2
<1>9. CASE c.kind = "pvid"
  <2>1. s = GeneralMode(c) \o <<on("pvid")>>
    BY <1>9, PortBodyIs
  <2> HIDE DEF on, Fine
  <2> QED BY <1>1, <1>7, <2>1 DEF Fine
<1>10. CASE c.kind = "membership"
  <2>1. c.mode \in {"untagged", "tagged", "excluded"}
    BY CallKind DEF VlanMode
  <2>2. Follows(on("tag"), on("include")) /\ Follows(on("untag"), on("include"))
    BY <1>1 DEF Follows
  <2>3. CASE c.mode = "excluded"
    <3>1. s = GeneralMode(c) \o <<on("exclude")>>
      BY <1>10, <2>3, PortBodyIs
    <3> HIDE DEF on, Fine
    <3> QED BY <1>1, <1>7, <3>1 DEF Fine
  <2>4. CASE c.mode = "tagged"
    <3>1. s = GeneralMode(c) \o <<on("include"), on("tag")>>
      BY <1>10, <2>4, PortBodyIs
    <3> HIDE DEF on, Fine
    <3> QED BY <1>1, <1>8, <2>2, <3>1 DEF Fine
  <2>5. CASE c.mode = "untagged"
    <3>1. s = GeneralMode(c) \o <<on("include"), on("untag")>>
      BY <1>10, <2>5, PortBodyIs
    <3> HIDE DEF on, Fine
    <3> QED BY <1>1, <1>8, <2>2, <3>1 DEF Fine
  <2> QED BY <2>1, <2>3, <2>4, <2>5
<1>11. CASE c.kind \in PortSettings \cup {"poe"}
  <2>1. s = <<Set(c.kind, c.port, c.on)>>
    BY <1>11, SetBodyIs
  <2>2. Set(c.kind, c.port, c.on).do = c.kind
    BY DEF Set, Do
  <2>3. c.kind \notin {"tag", "untag", "include", "exclude", "pvid"}
    BY <1>11 DEF PortSettings
  <2> HIDE DEF on, gen, Fine
  <2>4. Fine
    BY <1>2, <2>1, <2>2, <2>3
  <2> QED BY <2>4 DEF Fine
<1>12. CASE c.kind \in {"cycle", "clearFault"}
  <2>1. s = <<OnPort("poeReset", NoVlan, c.port)>>
    BY <1>12, SetBodyIs
  <2>2. OnPort("poeReset", NoVlan, c.port).do = "poeReset"
    BY DEF OnPort, Do
  <2> HIDE DEF on, gen, Fine
  <2>3. Fine
    BY <1>2, <2>1, <2>2
  <2> QED BY <2>3 DEF Fine
<1> QED BY <1>9, <1>10, <1>11, <1>12 DEF PortKinds, PowerKinds

\* No line takes a port out of general mode.
LEMMA GeneralGrows ==
    ASSUME NEW s, s.config \in Config, NEW c \in Line, NEW t, NEW out, Outcome(s, c, t, out)
    PROVE  s.config.general \subseteq t.config.general
<1> DEFINE f == s.config
<1>0. /\ \A a, b : [f EXCEPT !.certificate = a].general = f.general
      /\ \A a : /\ [f EXCEPT !.saved = a].general = f.general
                /\ [f EXCEPT !.lag = a].general = f.general
                /\ [f EXCEPT !.https = a].general = f.general
  BY DEF Config
<1>1. CASE Works(s, c, t, out)
  <2>1. CASE c.do \in DatabaseCommands
    <3>1. t.config = DatabaseEffect(f, c)
      BY <1>1, <2>1 DEF Works
    <3>2. CASE c.do = "create"
      BY <3>1, <3>2 DEF DatabaseEffect, Config
    <3>3. CASE c.do = "name"
      BY <3>1, <3>3 DEF DatabaseEffect
    <3>4. CASE c.do = "remove"
      <4> DEFINE q == [p \in Port |-> IF f.pvid[p] = c.vlan THEN DefaultVlan ELSE f.pvid[p]]
      <4>1. t.config = [f EXCEPT !.vlans = f.vlans \ {c.vlan}, !.member[c.vlan] = {},
                                 !.untagged[c.vlan] = {}, !.pvid = q]
        BY <3>1, <3>4 DEF DatabaseEffect
      <4> HIDE DEF q
      <4> QED BY <4>1 DEF Config
    <3> QED BY <2>1, <3>2, <3>3, <3>4 DEF DatabaseCommands
  <2>2. CASE c.do \in InterfaceCommands
    <3>1. t.config = InterfaceEffect(f, c, s.port)
      BY <1>1, <2>2 DEF Works
    <3>2. t.config.general \in {f.general, f.general \cup {s.port}}
      BY <2>2, <3>1 DEF InterfaceEffect, VlanEffect, SwitchPower, ResetPower, Config,
           InterfaceCommands, PortSettings, VlanCommands
    <3> QED BY <3>2
  <2>3. CASE c.do \in GlobalCommands
    <3>1. t.config = GlobalEffect(f, c)
      BY <1>1, <2>3 DEF Works
    <3>2. t.config.general = f.general
      BY <2>3, <3>1 DEF GlobalEffect, Config, GlobalCommands, Globals
    <3> QED BY <3>2
  <2> QED BY <1>1, <2>1, <2>2, <2>3 DEF Works, BodyDos
<1>2. CASE ~Works(s, c, t, out)
  <2>1. t.config.general = f.general
    <3>1. CASE Resolves(s, t, out)
      BY <1>0, <3>1 DEF Resolves
    <3>2. CASE Refuses(s, c, t, out) \/ Queries(s, c, t, out) \/ Descends(s, c, t, out)
               \/ Climbs(s, c, t, out)
      BY <3>2 DEF Refuses, Queries, Descends, Climbs
    <3>3. CASE Looks(s, c, t, out)
      BY <1>0, <3>3 DEF Looks
    <3>4. CASE Passes(s, c, t, out)
      BY <1>0, <3>4 DEF Passes
    <3> QED BY <1>2, <3>1, <3>2, <3>3, <3>4 DEF Outcome
  <2> QED BY <2>1
<1> QED BY <1>1, <1>2

LEMMA GeneralExecutes ==
    ASSUME Typed, Aimed, AllGeneral, Executes
    PROVE  AllGeneral'
<1>1. PICK out \in Seq(Chunk) : Outcome(shell, wire[1], shell', out)
  BY ExecOf
<1>2. wire[1] \in Line /\ FitConfig(shell'.config) /\ shell.config \in Config
  BY ExecOf DEF Typed, Shell
<1>3. shell.config.general \subseteq shell'.config.general
  BY <1>1, <1>2, GeneralGrows
<1>4. shell'.config.general \subseteq Port
  BY <1>2 DEF FitConfig, Config
<1> QED BY <1>3, <1>4 DEF AllGeneral

LEMMA GeneralStays ==
    ASSUME AllGeneral, shell'.config = shell.config
    PROVE  AllGeneral'
BY DEF AllGeneral

LEMMA GeneralInit == Init => AllGeneral
<1> SUFFICES ASSUME Init PROVE AllGeneral
  OBVIOUS
<1>1. PICK f \in {Factory, InUse} : shell = FreshShell(f)
  BY DEF Init, SessionInit
<1>2. ~HasModes => Factory.general = Port
  BY DEF Factory
<1>3. InUse.general = Port
  <2>1. Factory \in Config
    BY FactoryFits DEF FitConfig
  <2> DEFINE all   == [v \in Vlan |-> IF v = DefaultVlan THEN {} ELSE Port]
             hosts == SetToSeq(Host)
             rows  == {[row |-> 2 * i, host |-> hosts[i]] : i \in 1..Len(hosts)}
             pow   == [p \in Port |-> "fault"]
  <2>2. InUse = [Factory EXCEPT !.vlans = Vlan, !.member = all, !.untagged = all, !.general = Port,
                   !.rows = rows, !.draws = {}, !.power = pow]
    BY DEF InUse
  <2> HIDE DEF all, rows, pow
  <2> QED BY <2>1, <2>2 DEF Config
<1>4. shell.config = f
  BY <1>1 DEF FreshShell
<1> QED BY <1>2, <1>3, <1>4 DEF AllGeneral

-----------------------------------------------------------------------------
LEMMA PortExecutes ==
    ASSUME IInv, LateInv, InSync, AtOk, AllGeneral, PortMade, Executes, UNCHANGED writerVars
    PROVE  PortMade'
<1>1. Typed /\ Aimed /\ Attached /\ Descent /\ StageFits
  BY DEF IInv, LateInv
<1>2. /\ UNCHANGED <<call, stage, failed, entered, todo, victim, answer, awaiting>>
      /\ wire # <<>> /\ FitConfig(shell'.config)
  BY <1>1, ExecOf DEF writerVars
<1>3. SUFFICES ASSUME call.kind \in PortKinds, ~Broken
               PROVE  PortBodyMade' /\ PortLeftMade'
  BY <1>2 DEF PortMade, PortBodyMade, PortLeftMade, PortLeft, Broken
<1>4. PortBodyMade /\ PortLeftMade
  BY <1>3 DEF PortMade
<1>5. shell.config \in Config
  BY <1>1 DEF Typed, Shell
<1>6. PortBodyMade'
  <2> SUFFICES ASSUME stage = "body" PROVE PortBodyMade'
    BY <1>2 DEF PortBodyMade
  <2>1. Linked
    BY <1>3 DEF Linked
  <2>2. Synced
    BY <1>3, <2>1 DEF InSync
  <2>3. /\ Waiting /\ wire = <<awaiting>> /\ back = <<>> /\ wire' = <<>>
        /\ back'[1].says = "nothing" =>
             \/ Descends(shell, awaiting, shell', back')
             \/ Climbs(shell, awaiting, shell', back')
             \/ Works(shell, awaiting, shell', back')
             \/ Passes(shell, awaiting, shell', back')
    BY <1>1, <1>3, <2>1, <2>2, SyncedExecutes
  <2>4. ~Idle /\ answer = Pending
    BY <2>3 DEF Waiting, Idle
  <2>5. ~Idle' /\ ~Accepted'
    BY <1>2, <2>4 DEF Idle, Accepted, Pending
  <2>6. /\ Issued \in Nat /\ Issued <= Len(BodyLines) /\ Issued >= 1 /\ awaiting = BodyLines[Issued]
        /\ Len(BodyLines) \in Nat
    BY <1>1, <2>4, IssuedOf DEF BodyLines
  <2>7. call \in Call /\ call.kind \notin {"reboot", "deploy"} /\ victim \in Nat
    BY <1>1, DeepCall DEF Resting
  <2>8. Issued \in 1..Len(BodyLines)
    BY <2>6
  <2>9. /\ awaiting \in Line /\ awaiting.do \in InterfaceCommands /\ awaiting.port = call.port
    <3> DEFINE k == Issued
    <3>1. k \in 1..Len(BodyCommands(call, victim)) /\ awaiting = BodyCommands(call, victim)[k]
      BY <2>6, <2>8 DEF BodyLines
    <3> HIDE DEF k
    <3> QED BY <1>3, <2>7, <3>1, BodyLine
  <2>10. ASSUME back'[1].says = "nothing" PROVE Does(shell'.config, awaiting)
    <3>1. Works(shell, awaiting, shell', back')
      BY <2>3, <2>9, <2>10 DEF Descends, Climbs, Passes, EnterDos, InterfaceCommands,
         PortSettings, VlanCommands
    <3>2. shell.port = awaiting.port
      <4>1. wire[1] = awaiting
        BY <2>3
      <4> QED BY <1>1, <2>9, <4>1, ExecOf
    <3>3. shell'.config = InterfaceEffect(shell.config, awaiting, awaiting.port)
          /\ ~InterfaceRejects(shell.config, awaiting)
      BY <2>9, <3>1, <3>2 DEF Works
    <3>4. /\ \A k \in 1..Len(BodyLines) : k >= 2 => Follows(BodyLines[k], BodyLines[k - 1])
          /\ BodyLines[1].do \notin {"tag", "untag"}
          /\ HasModes => BodyLines[1].do \notin {"include", "exclude", "pvid"}
      BY <1>3, <2>7, BodyOrder DEF BodyLines
    <3>5. CASE Issued >= 2
      <4>1. Does(shell.config, BodyLines[Issued - 1])
        BY <1>3, <1>4, <2>3, <3>5 DEF PortBodyMade
      <4>2. Follows(awaiting, BodyLines[Issued - 1])
        BY <2>6, <2>8, <3>4, <3>5
      <4> DEFINE y == BodyLines[Issued - 1]
      <4>3. Does(shell.config, y) /\ Follows(awaiting, y)
        BY <4>1, <4>2
      <4> HIDE DEF y
      <4>4. awaiting.do \in {"include", "exclude", "pvid", "tag", "untag"} =>
              awaiting.port \in shell.config.general
        BY <4>3 DEF Does, Follows, VlanCommands
      <4>5. awaiting.do \in {"tag", "untag"} =>
              awaiting.port \in shell.config.member[awaiting.vlan]
                /\ awaiting.port \in shell.config.untagged[awaiting.vlan]
        BY <4>3 DEF Does, Follows, VlanCommands
      <4> QED BY <1>5, <2>9, <3>3, <4>4, <4>5, LineDoes
    <3>6. CASE ~(Issued >= 2)
      <4>1. Issued = 1
        BY <2>6, <3>6
      <4>2. awaiting = BodyLines[1]
        BY <2>6, <4>1
      <4>3. awaiting.do \notin {"tag", "untag"}
        BY <3>4, <4>2
      <4>4. awaiting.do \in {"include", "exclude", "pvid"} => awaiting.port \in shell.config.general
        <5> SUFFICES ASSUME awaiting.do \in {"include", "exclude", "pvid"}
                     PROVE  awaiting.port \in shell.config.general
          OBVIOUS
        <5>1. ~HasModes
          BY <3>4, <4>2
        <5>2. shell.config.general = Port
          BY <5>1 DEF AllGeneral
        <5> QED BY <2>9, <5>2, LineDos
      <4> QED BY <1>5, <2>9, <3>3, <4>3, <4>4, LineDoes
    <3> QED BY <3>5, <3>6
  <2> QED BY <1>2, <2>3, <2>5, <2>10 DEF PortBodyMade
<1>7. PortLeftMade'
  <2> SUFFICES ASSUME PortLeft PROVE PortLeftMade'
    BY <1>2 DEF PortLeftMade, PortLeft, Broken
  <2>1. stage # "ok"
    BY <1>2, <1>3 DEF AtOk
  <2>2. Linked
    BY <1>3, <2>1 DEF PortLeft, Linked
  <2>3. Synced
    BY <1>3, <2>2 DEF InSync
  <2>4. /\ Waiting /\ wire = <<awaiting>> /\ back = <<>>
        /\ awaiting.do \in Shows =>
             shell'.config = shell.config \/ shell'.config = [shell.config EXCEPT !.lag = {}]
        /\ back'[1].says # "nothing" => shell'.config = shell.config \/ awaiting.do \in Shows
        /\ back'[1].says = "nothing" =>
             \/ Descends(shell, awaiting, shell', back')
             \/ Climbs(shell, awaiting, shell', back')
             \/ Works(shell, awaiting, shell', back')
             \/ Passes(shell, awaiting, shell', back')
    BY <1>1, <1>3, <2>2, <2>3, SyncedExecutes
  <2>5. agenda = <<>>
    BY <2>3 DEF Synced
  <2>6. awaiting.do \in Shows \/ awaiting.do = "exit"
    <3>1. stage \in {"unwind", "after", "farewell"}
      BY <2>1 DEF PortLeft
    <3>2. awaiting.do \in {"exit"} \cup Shows
      BY <1>1, <2>2, <2>4, <2>5, <3>1, LinkedLine
    <3> QED BY <3>2
  <2>7. shell'.config = shell.config \/ shell'.config = [shell.config EXCEPT !.lag = {}]
    <3>1. CASE awaiting.do \in Shows
      BY <2>4, <3>1
    <3>2. CASE awaiting.do = "exit"
      <4>1. awaiting.do \notin Shows
        BY <3>2 DEF Shows
      <4>2. CASE back'[1].says # "nothing"
        BY <2>4, <4>1, <4>2
      <4>3. CASE back'[1].says = "nothing"
        <5>1. Climbs(shell, awaiting, shell', back')
          BY <2>4, <3>2, <4>3 DEF Descends, Works, Passes, EnterDos, BodyDos, InterfaceCommands,
             DatabaseCommands, GlobalCommands, Globals, PortSettings, VlanCommands
        <5> QED BY <5>1 DEF Climbs
      <4> QED BY <4>2, <4>3
    <3> QED BY <2>6, <3>1, <3>2
  <2>8. PICK row \in Nat : Does(shell.config, LastLine(call, row))
    BY <1>4 DEF PortLeftMade
  <2> DEFINE x == LastLine(call, row)
  <2>9. Does(shell.config, x)
    BY <2>8
  <2> HIDE DEF x
  <2>10. Does(shell'.config, x)
    BY <1>5, <2>7, <2>9, DoesLag
  <2>11. call' \in Calls
    BY <1>2, <1>4 DEF PortLeftMade
  <2>12. LastLine(call, row)' = x
    BY <1>2 DEF LastLine, x
  <2>13. \E n \in Nat : Does(shell'.config, LastLine(call', n))
    <3>1. LastLine(call', row) = x
      BY <1>2 DEF x
    <3> QED BY <2>8, <2>10, <3>1
  <2> QED BY <2>11, <2>13 DEF PortLeftMade
<1> QED BY <1>6, <1>7

LEMMA PortReads ==
    ASSUME IInv, Typed, Attached, InSync, PortMade, ReadKeeps, NEW n, ReadOf(n), Typed'
    PROVE  PortMade'
<1>1. ~Idle /\ Waiting /\ ~Broken /\ UNCHANGED <<shell, call, stage, failed, entered, todo, victim>>
  BY DEF ReadKeeps, writerVars
<1>2. SUFFICES ASSUME call.kind \in PortKinds, ~Broken' PROVE PortBodyMade' /\ PortLeftMade'
  BY <1>1 DEF PortMade, PortBodyMade, PortLeftMade, PortLeft
<1>3. PortBodyMade /\ PortLeftMade
  BY <1>1, <1>2 DEF PortMade
<1>4. PortBodyMade'
  <2> SUFFICES ASSUME stage = "body" PROVE PortBodyMade'
    BY <1>1 DEF PortBodyMade
  <2>1. Linked
    BY <1>2 DEF Linked
  <2>2. /\ Arrived /\ ~Idle' /\ answer'.is = "returned" /\ Len(answer'.texts) = 1
        /\ answer'.texts[1] = back[1] /\ awaiting' = awaiting
    BY <1>2, <2>1, LinkedRead
  <2>3. ~Waiting'
    BY <2>2 DEF Waiting, Pending
  <2>4. ASSUME Accepted' PROVE Does(shell.config, awaiting)
    <3>1. IsEmpty(answer'.texts, awaiting')
      BY <2>4 DEF Accepted
    <3>2. answer'.texts # <<>>
      BY <2>2
    <3>3. back[1].says = "nothing"
      BY <2>2, <3>1, <3>2 DEF IsEmpty
    <3>4. back # <<>>
      BY <2>2 DEF Arrived
    <3> QED BY <1>1, <1>3, <3>3, <3>4 DEF PortBodyMade
  <2> QED BY <1>1, <2>2, <2>3, <2>4 DEF PortBodyMade
<1>5. PortLeftMade'
  <2>1. PortLeft' => PortLeft
    BY <1>1 DEF PortLeft
  <2>2. \A row : LastLine(call', row) = LastLine(call, row)
    BY <1>1
  <2> QED BY <1>1, <1>3, <2>1, <2>2 DEF PortLeftMade
<1> QED BY <1>4, <1>5

LEMMA PortIssues ==
    ASSUME Typed, StageFits, Descent, InSync, PortMade, NEW c, IssueOf(c)
    PROVE  PortMade'
<1>1. /\ UNCHANGED <<shell, stage, call, entered, failed, victim>> /\ Idle /\ ~Idle' /\ ~Broken
      /\ answer = Pending /\ Len(todo') = Len(todo) - 1 /\ Len(todo) \in Nat /\ stage \notin Resting
  BY IssueEnds DEF IssueOf
<1>2. SUFFICES ASSUME call.kind \in PortKinds PROVE PortBodyMade' /\ PortLeftMade'
  BY <1>1 DEF PortMade
<1>3. PortBodyMade /\ PortLeftMade
  BY <1>1, <1>2 DEF PortMade
<1>4. PortBodyMade'
  <2> SUFFICES ASSUME stage = "body" PROVE PortBodyMade'
    BY <1>1 DEF PortBodyMade
  <2>1. Linked
    BY <1>2 DEF Linked
  <2>2. back = <<>>
    BY <1>1, <2>1 DEF InSync, Synced
  <2>3. Sends(c)
    BY IssueEnds DEF Deep
  <2>4. back' = <<>> /\ answer' = Pending
    BY <1>1, <2>2, <2>3 DEF Sends
  <2>5. ~Accepted'
    BY <2>4 DEF Accepted, Pending
  <2>6. Issued' = Issued + 1 /\ Issued \in Nat /\ BodyLines' = BodyLines
    <3> DEFINE b == Len(BodyCommands(call, victim))
    <3>1. Issued \in Nat /\ b \in Nat
      BY <1>1, IssuedOf
    <3>2. Issued = b - Len(todo) /\ Issued' = b - Len(todo')
      BY <1>1 DEF Issued
    <3> HIDE DEF b
    <3>3. Issued' = Issued + 1
      BY <1>1, <3>1, <3>2
    <3> QED BY <1>1, <3>1, <3>3 DEF BodyLines
  <2>7. Issued' >= 2 => Does(shell'.config, BodyLines'[Issued' - 1])
    <3> SUFFICES ASSUME Issued' >= 2 PROVE Does(shell'.config, BodyLines'[Issued' - 1])
      OBVIOUS
    <3>1. Issued >= 1 /\ Issued' - 1 = Issued
      BY <2>6
    <3>2. Does(shell.config, BodyLines[Issued])
      BY <1>1, <1>3, <3>1 DEF PortBodyMade
    <3> QED BY <1>1, <2>6, <3>1, <3>2
  <2> QED BY <1>1, <2>4, <2>5, <2>7 DEF PortBodyMade
<1>5. PortLeftMade'
  <2>1. PortLeft' => PortLeft
    BY <1>1 DEF PortLeft
  <2>2. \A row : LastLine(call', row) = LastLine(call, row)
    BY <1>1
  <2> QED BY <1>1, <1>3, <2>1, <2>2 DEF PortLeftMade
<1> QED BY <1>4, <1>5

LEMMA PortUses ==
    ASSUME IInv, LateInv, PortMade, Takes, UseOf
    PROVE  PortMade'
<1>1. Typed /\ Descent /\ StageFits
  BY DEF IInv, LateInv
<1>2. ~Idle /\ Idle' /\ ~Waiting' /\ ~Accepted' /\ UNCHANGED <<shell, wire, back, call, victim>>
  BY UseStage DEF Takes
<1>3. SUFFICES ASSUME call.kind \in PortKinds PROVE PortBodyMade' /\ PortLeftMade'
  BY <1>2 DEF PortMade
<1>4. PortBodyMade /\ PortLeftMade
  BY <1>2, <1>3 DEF PortMade
<1>5. PortBodyMade'
  <2> SUFFICES ASSUME stage' = "body" PROVE PortBodyMade'
    BY DEF PortBodyMade
  <2>1. stage = "body" /\ Accepted /\ Keeps
    BY UseStage
  <2>2. Issued' = Issued /\ BodyLines' = BodyLines
    BY <1>2, <2>1 DEF Issued, BodyLines, Keeps
  <2>3. awaiting = BodyLines[Issued]
    BY <1>1, <1>2, <2>1, IssuedOf DEF BodyLines
  <2>4. ~Broken
    BY <2>1 DEF Accepted, Broken
  <2>5. Does(shell.config, awaiting)
    BY <1>4, <2>1, <2>4 DEF PortBodyMade
  <2> QED BY <1>2, <2>2, <2>3, <2>5 DEF PortBodyMade
<1>6. PortLeftMade'
  <2> SUFFICES ASSUME PortLeft' PROVE PortLeftMade'
    BY DEF PortLeftMade
  <2>1. stage' # "ok"
    <3>1. stage' = "ok" => call.kind = "reboot"
      BY UseStage
    <3> QED BY <1>3, <3>1 DEF PortKinds, PortSettings, PowerKinds
  <2>2. stage' = stage /\ failed' = failed /\ ~Broken
    BY <2>1, UseStage DEF PortLeft, Keeps, Reading
  <2>3. PortLeft
    BY <2>2 DEF PortLeft
  <2>4. \A row : LastLine(call', row) = LastLine(call, row)
    BY <1>2
  <2> QED BY <1>2, <1>4, <2>3, <2>4 DEF PortLeftMade
<1> QED BY <1>5, <1>6

LEMMA PortTurns ==
    ASSUME IInv, LateInv, PortMade, Turn
    PROVE  PortMade'
<1>1. Typed /\ Descent /\ StageFits
  BY DEF IInv, LateInv
<1>2. TurnOf /\ ~Accepted' /\ ~Waiting'
  BY <1>1, TurnStage
<1>3. stage \notin Resting /\ Idle /\ Idle' /\ todo = <<>> /\ ~Broken /\ UNCHANGED <<shell, call>>
  BY <1>2 DEF TurnOf
<1>4. SUFFICES ASSUME call.kind \in PortKinds PROVE PortBodyMade' /\ PortLeftMade'
  BY <1>3 DEF PortMade
<1>5. PortBodyMade /\ PortLeftMade
  BY <1>3, <1>4 DEF PortMade
<1>6. PortBodyMade'
  <2> SUFFICES ASSUME stage' = "body" PROVE PortBodyMade'
    BY DEF PortBodyMade
  <2>1. stage = "enter" /\ todo' = BodyCommands(call, victim) /\ UNCHANGED victim
    BY <1>1, TurnStage
  <2>2. call \in Call /\ call.kind \notin {"reboot", "deploy"} /\ victim \in Nat
    BY <1>1, <1>3, <2>1, DeepCall
  <2>3. Issued' = 0
    <3> DEFINE b == BodyCommands(call, victim)
    <3>1. b \in Seq(Line)
      BY <2>2, BodyIs
    <3>2. Issued' = Len(b) - Len(b)
      BY <1>3, <2>1 DEF Issued
    <3> HIDE DEF b
    <3> QED BY <3>1, <3>2
  <2> QED BY <1>2, <2>3 DEF PortBodyMade
<1>7. PortLeftMade'
  <2> SUFFICES ASSUME PortLeft' PROVE PortLeftMade'
    BY DEF PortLeftMade
  <2>1. \A row : LastLine(call', row) = LastLine(call, row)
    BY <1>3
  <2>2. CASE stage' = "unwind"
    <3>1. stage = "body"
      BY <1>1, <2>2, TurnStage
    <3>2. /\ call \in Calls /\ call \in Call /\ call.kind \notin {"reboot", "deploy"}
          /\ victim \in Nat
      BY <1>1, <1>3, <3>1, DeepCall
    <3>3. Issued = Len(BodyLines) /\ Issued >= 1
      <4>1. Issued = Len(BodyLines)
        BY <1>1, <1>3, <3>1, IssuedOf DEF BodyLines
      <4>2. Len(BodyLines) \in 1..3
        BY <1>4, <3>2, BodyOrder DEF BodyLines
      <4> QED BY <4>1, <4>2
    <3>4. Does(shell.config, BodyLines[Issued])
      BY <1>3, <1>5, <3>1, <3>3 DEF PortBodyMade
    <3>5. LastLine(call, victim) = BodyLines[Issued]
      BY <3>3 DEF LastLine, BodyLines
    <3> QED BY <1>3, <2>1, <3>2, <3>4, <3>5 DEF PortLeftMade
  <2>3. CASE stage' # "unwind"
    <3>1. (stage = "unwind" /\ ~failed) \/ stage = "after" \/ stage = "script"
      BY <1>1, <2>3, TurnStage DEF PortLeft
    <3>2. stage # "script"
      BY <1>1, <1>3, <1>4 DEF StageFits, PortKinds, PortSettings, PowerKinds
    <3>3. PortLeft
      BY <1>3, <3>1, <3>2 DEF PortLeft
    <3> QED BY <1>3, <1>5, <2>1, <3>3 DEF PortLeftMade
  <2> QED BY <2>2, <2>3
<1> QED BY <1>6, <1>7

LEMMA PortCalls ==
    ASSUME IInv, LateInv, PortMade, Invoke \/ (stage \in Resting /\ Close /\ UNCHANGED writerVars)
    PROVE  PortMade'
<1>1. Typed
  BY DEF LateInv
<1>2. /\ stage' \in Resting \cup {"before", "script"} /\ shell'.config = shell.config
      /\ stage' = "ok" => UNCHANGED <<stage, call, answer>>
  BY <1>1, CallStage
<1>3. PortBodyMade'
  BY <1>2 DEF PortBodyMade, Resting
<1>4. call.kind \in PortKinds => PortLeftMade
  BY DEF PortMade
<1>5. ASSUME call'.kind \in PortKinds, PortLeft' PROVE PortLeftMade'
  <2>1. stage' = "ok"
    BY <1>2, <1>5 DEF PortLeft, Resting
  <2>2. stage = "ok" /\ call' = call /\ answer' = answer
    BY <1>2, <2>1
  <2>3. PortLeft
    BY <1>5, <2>2 DEF PortLeft, Broken
  <2>4. \A row : LastLine(call', row) = LastLine(call, row)
    BY <2>2
  <2> QED BY <1>2, <1>4, <1>5, <2>2, <2>3, <2>4 DEF PortLeftMade
<1> QED BY <1>3, <1>5 DEF PortMade, PortLeftMade

LEMMA PortInit == Init => PortMade
<1> SUFFICES ASSUME Init PROVE PortMade
  OBVIOUS
<1>1. stage = "idle"
  BY DEF Init
<1> QED BY <1>1 DEF PortMade, PortBodyMade, PortLeftMade, PortLeft

LEMMA LastGlued ==
    ASSUME NEW g, NEW x, NEW y
    PROVE  \A u : u = <<g>> \o <<x, y>> => u[Len(u)] = y
<1> DEFINE S == {g, x, y}
<1>0. g \in S /\ x \in S /\ y \in S
  OBVIOUS
<1> HIDE DEF S
<1> DEFINE u == <<g>> \o <<x, y>>
<1>1. /\ <<g>> \in Seq(S) /\ Len(<<g>>) = 1 /\ <<g>>[1] = g
      /\ <<x, y>> \in Seq(S) /\ Len(<<x, y>>) = 2 /\ <<x, y>>[1] = x /\ <<x, y>>[2] = y
  BY <1>0, ShortSeqs
<1> DEFINE v == <<g>>
           w == <<x, y>>
<1> HIDE DEF v, w
<1>2. /\ u \in Seq(S) /\ Len(u) = Len(v) + Len(w) /\ (\A i \in 1..Len(v) : u[i] = v[i])
      /\ \A i \in 1..Len(w) : u[Len(v) + i] = w[i]
  BY <1>1, Joined DEF v, w
<1>4. Len(v) = 1 /\ Len(w) = 2 /\ w[2] = y
  BY <1>1 DEF v, w
<1> HIDE DEF u
<1>5. Len(u) = 3 /\ u[3] = y
  BY <1>2, <1>4
<1>3. u[Len(u)] = y
  BY <1>5
<1> QED BY <1>3 DEF u

\* What the last line does is what the call is for, but for the power that
\* the detection of a device ends in.
LEMMA PortDone ==
    ASSUME NEW f, NEW c \in Calls, c.kind \in PortKinds, NEW row, Does(f, LastLine(c, row))
    PROVE  /\ c.kind # "cycle" => Effected(f, c)
           /\ c.kind = "cycle" => c.port \in f.reset
<1> DEFINE s == BodyCommands(c, row)
           x == LastLine(c, row)
<1>1. c \in Call /\ c.kind \in PortSettings \cup PowerKinds \cup {"membership", "pvid"}
  BY DEF Calls, PortKinds
<1>2. /\ \A what, v : /\ OnPort(what, v, c.port).do = what /\ OnPort(what, v, c.port).port = c.port
                      /\ OnPort(what, v, c.port).vlan = v
      /\ \A what : Set(what, c.port, c.on).do = what /\ Set(what, c.port, c.on).port = c.port
                     /\ Set(what, c.port, c.on).on = c.on
  BY DEF OnPort, Set, Do
<1> DEFINE g == OnPort("general", NoVlan, c.port)
<1>0. GeneralMode(c) = <<>> \/ GeneralMode(c) = <<g>>
  BY DEF GeneralMode
<1> HIDE DEF g, s
<1>3. ASSUME NEW y, s = GeneralMode(c) \o <<y>> PROVE s[Len(s)] = y
  <2>1. CASE GeneralMode(c) = <<>>
    <3>1. s = <<y>>
      BY <1>3, <2>1, GluedSeqs
    <3> QED BY <3>1
  <2>2. CASE GeneralMode(c) = <<g>>
    <3>1. s = <<g, y>>
      BY <1>3, <2>2, GluedSeqs
    <3>2. Len(s) = 2 /\ s[2] = y
      BY <3>1
    <3> QED BY <3>2
  <2> QED BY <1>0, <2>1, <2>2
<1>4. ASSUME NEW z, NEW y, s = GeneralMode(c) \o <<z, y>> PROVE s[Len(s)] = y
  <2>1. CASE GeneralMode(c) = <<>>
    <3>1. s = <<z, y>>
      BY <1>4, <2>1, GluedSeqs
    <3>2. Len(s) = 2 /\ s[2] = y
      BY <3>1
    <3> QED BY <3>2
  <2>2. CASE GeneralMode(c) = <<g>>
    <3>2. s[Len(s)] = y
      BY <1>4, <2>2, LastGlued
    <3> QED BY <3>2
  <2> QED BY <1>0, <2>1, <2>2
<1>5. ASSUME NEW y, s = <<y>> PROVE s[Len(s)] = y
  <2>1. Len(s) = 1 /\ s[1] = y
    BY <1>5
  <2> QED BY <2>1
<1>12. x = s[Len(s)]
  BY DEF LastLine, s
<1>6. Does(f, x)
  OBVIOUS
<1> HIDE DEF s, x
<1>7. CASE c.kind = "pvid"
  <2>1. x = OnPort("pvid", c.vlan, c.port)
    BY <1>12, <1>3, <1>7, PortBodyIs DEF s
  <2>2. f.pvid[c.port] = c.vlan
    BY <1>2, <1>6, <2>1 DEF Does
  <2> QED BY <1>7, <2>2 DEF Effected, PortSettings, GlobalKinds
<1>8. CASE c.kind = "membership"
  <2> DEFINE m == c.port \in f.member[c.vlan]
             u == c.port \in f.untagged[c.vlan]
  <2>1. /\ c.mode = "excluded" => x = OnPort("exclude", c.vlan, c.port)
        /\ c.mode = "tagged" => x = OnPort("tag", c.vlan, c.port)
        /\ c.mode = "untagged" => x = OnPort("untag", c.vlan, c.port)
    BY <1>12, <1>3, <1>4, <1>8, PortBodyIs DEF s
  <2>2. c.mode \in {"excluded", "tagged", "untagged"}
    BY <1>1, CallKind DEF VlanMode
  <2>3. CASE c.mode = "excluded"
    <3>1. ~m /\ ~u
      BY <1>2, <1>6, <2>1, <2>3 DEF Does
    <3> QED BY <1>8, <2>3, <3>1 DEF Effected, PortSettings, GlobalKinds
  <2>4. CASE c.mode = "tagged"
    <3>1. m /\ ~u
      BY <1>2, <1>6, <2>1, <2>4 DEF Does
    <3> QED BY <1>8, <2>4, <3>1 DEF Effected, PortSettings, GlobalKinds
  <2>5. CASE c.mode = "untagged"
    <3>1. m /\ u
      BY <1>2, <1>6, <2>1, <2>5 DEF Does
    <3> QED BY <1>8, <2>5, <3>1 DEF Effected, PortSettings, GlobalKinds
  <2> QED BY <2>2, <2>3, <2>4, <2>5
<1>9. CASE c.kind \in PortSettings
  <2>1. x = Set(c.kind, c.port, c.on)
    BY <1>12, <1>5, <1>9, SetBodyIs DEF s
  <2>2. f.setting[c.kind][c.port] = c.on
    BY <1>2, <1>6, <1>9, <2>1 DEF Does
  <2>3. Setting(c, f) = c.on
    BY <1>9, <2>2 DEF Setting, PortSettings, GlobalKinds, HostKinds
  <2> QED BY <1>9, <2>3 DEF Effected, PortSettings, GlobalKinds
<1>10. CASE c.kind = "poe"
  <2>1. x = Set(c.kind, c.port, c.on)
    BY <1>12, <1>5, <1>10, SetBodyIs DEF s
  <2>2. f.power[c.port] # "off" <=> c.on
    BY <1>2, <1>6, <1>10, <2>1 DEF Does
  <2> QED BY <1>10, <2>2 DEF Effected, PortSettings, GlobalKinds
<1>11. CASE c.kind \in {"cycle", "clearFault"}
  <2>1. x = OnPort("poeReset", NoVlan, c.port)
    BY <1>12, <1>5, <1>11, SetBodyIs DEF s
  <2>2. c.port \in f.reset /\ f.power[c.port] \in {"delivering", "searching"}
    BY <1>2, <1>6, <2>1 DEF Does
  <2>3. f.power[c.port] \notin {"fault", "off"}
    BY <2>2
  <2>4. c.kind = "clearFault" => Effected(f, c)
    BY <2>3 DEF Effected, PortSettings, GlobalKinds
  <2> QED BY <1>11, <2>2, <2>4
<1> QED BY <1>1, <1>7, <1>8, <1>9, <1>10, <1>11 DEF PowerKinds

-----------------------------------------------------------------------------
(***************************************************************************)
(* What is read back, for the calls whose last line does not settle them:  *)
(* the power that a re-armed port ends in and the table of collectors.     *)
(***************************************************************************)
BackKinds == {"cycle"} \cup HostKinds
LastPage  == IF call.kind = "cycle" THEN "power" ELSE "collectors"

Seen ==
    IF call.kind = "cycle"
    THEN got.power = {"delivering"} => shell.config.power[call.port] = "delivering"
    ELSE got.rows = shell.config.rows

\* What the call promises of it.
Confirmed(f, c) ==
    /\ c.kind = "cycle" => f.power[c.port] = "delivering"
    /\ c.kind = "collect" => \E r \in f.rows : r.host = c.host
    /\ c.kind = "uncollect" => \A r \in f.rows : r.host # c.host

ReadBack ==
    /\ stage = "after" /\ call.kind \in BackKinds =>
         /\ \A k \in 1..Len(todo) : todo[k].do # "brief"
         /\ todo # <<>> => todo[Len(todo)].do = LastPage
         /\ ~Idle => awaiting.do # "brief" /\ (todo = <<>> => awaiting.do = LastPage)
         /\ Idle /\ todo = <<>> => Seen
    /\ stage = "ok" => Confirmed(shell.config, call)

\* The page that has been read is one of the switch as it is.
LEMMA PageShown ==
    ASSUME Typed, Synced, answer.is = "returned", awaiting.do \in Shows
    PROVE  /\ FirstIs(answer.texts, awaiting.do)
           /\ \E l : Tables(answer.texts)[1].at = [shell.config EXCEPT !.lag = l]
<1> DEFINE x == answer.texts[1]
           s == Tables(answer.texts)
<1>1. Len(answer.texts) = 1 /\ Fresh(x) /\ answer.texts \in Seq(Text)
  BY DEF Synced, Typed
<1>2. x.of = awaiting /\ x.says = "table" /\ \E l : x.at = [shell.config EXCEPT !.lag = l]
  BY <1>1 DEF Fresh
<1>3. s \in Seq(Text) /\ \E h : Places(answer.texts, {"table"}, Len(answer.texts), s, h)
  BY <1>1, SayingOf DEF Tables
<1>4. PICK h : Places(answer.texts, {"table"}, Len(answer.texts), s, h)
  BY <1>3
<1> HIDE DEF s
<1>5. Len(s) \in Nat /\ h \in [1..Len(s) -> 1..1] /\ \A i \in 1..Len(s) : s[i] = answer.texts[h[i]]
  BY <1>1, <1>3, <1>4 DEF Places
<1>6. \E i \in 1..Len(s) : h[i] = 1
  <2>1. 1 \in 1..Len(answer.texts) /\ answer.texts[1].says \in {"table"}
    BY <1>1, <1>2
  <2> QED BY <1>4, <2>1 DEF Places
<1>7. 1 \in 1..Len(s) /\ s # <<>>
  <2>1. Len(<<>>) = 0
    OBVIOUS
  <2> QED BY <1>5, <1>6, <2>1
<1>8. s[1] = x
  <2>1. h[1] = 1
    BY <1>5, <1>7
  <2> QED BY <1>5, <1>7, <2>1
<1> QED BY <1>2, <1>7, <1>8 DEF FirstIs, s

LEMMA ReadBackExecutes ==
    ASSUME IInv, LateInv, InSync, AtOk, ReadBack, Executes, UNCHANGED writerVars
    PROVE  ReadBack'
<1>1. UNCHANGED <<stage, call, todo, got, awaiting>> /\ wire # <<>>
  BY DEF Executes, writerVars
<1>2. ASSUME stage' = "after", call.kind \in BackKinds
      PROVE  /\ \A k \in 1..Len(todo) : todo[k].do # "brief"
             /\ todo # <<>> => todo[Len(todo)].do = LastPage
             /\ ~Idle => awaiting.do # "brief" /\ (todo = <<>> => awaiting.do = LastPage)
             /\ ~Idle
  <2>1. ~Idle
    <3> SUFFICES ASSUME Idle PROVE FALSE
      OBVIOUS
    <3>1. ~Broken
      BY DEF IInv, SessionFits, Broken, Pending
    <3>2. Linked
      BY <1>1, <1>2 DEF Linked, BackKinds, PortKinds, PowerKinds
    <3> QED BY <1>1, <3>1, <3>2 DEF InSync, Synced
  <2> QED BY <1>1, <1>2, <2>1 DEF ReadBack
<1>3. stage' = "ok" => Confirmed(shell'.config, call)
  <2> SUFFICES ASSUME stage = "ok", call.kind \in BackKinds PROVE FALSE
    BY <1>1 DEF Confirmed, BackKinds, HostKinds
  <2> QED BY <1>1 DEF AtOk, BackKinds, PortKinds, PowerKinds
<1> QED BY <1>1, <1>2, <1>3 DEF ReadBack, LastPage, Idle, Confirmed

LEMMA ReadBackReads ==
    ASSUME IInv, Typed, Attached, InSync, ReadBack, ReadKeeps, NEW n, ReadOf(n), Typed'
    PROVE  ReadBack'
<1>1. UNCHANGED <<shell, stage, call, todo, got>> /\ ~Idle
  BY DEF ReadKeeps, writerVars
<1>2. ASSUME stage = "after", call.kind \in BackKinds PROVE awaiting' = awaiting
  <2>1. Linked
    BY <1>2 DEF Linked, BackKinds, PortKinds, PowerKinds
  <2>2. CASE Broken'
    <3>1. answer' # Pending
      BY <2>2 DEF Broken, Pending
    <3> QED BY <3>1 DEF ReadOf, GivesUp, GoesOn, ComesBack
  <2>3. CASE ~Broken'
    BY <2>1, <2>3, LinkedRead
  <2> QED BY <2>2, <2>3
<1> QED BY <1>1, <1>2 DEF ReadBack, LastPage, Idle, Seen

LEMMA ReadBackIssues ==
    ASSUME Typed, StageFits, Descent, InSync, ReadBack, NEW c, IssueOf(c)
    PROVE  ReadBack'
<1>1. UNCHANGED <<shell, stage, call, got>> /\ Idle /\ ~Idle' /\ ~Broken /\ c = todo[1]
  BY DEF IssueOf
<1>2. /\ Len(todo') \in Nat /\ Len(todo) = Len(todo') + 1
      /\ \A k \in 1..Len(todo') : todo'[k] = todo[k + 1] /\ k + 1 \in 1..Len(todo)
      /\ todo' \in Seq(Line) /\ todo # <<>> /\ todo \in Seq(Line)
  BY DEF IssueOf
<1>3. ASSUME stage = "after", call.kind \in BackKinds
      PROVE  /\ awaiting' = c
             /\ \A k \in 1..Len(todo') : todo'[k].do # "brief"
             /\ todo' # <<>> => todo'[Len(todo')].do = LastPage
             /\ c.do # "brief" /\ (todo' = <<>> => c.do = LastPage)
  <2>1. Linked
    BY <1>3 DEF Linked, BackKinds, PortKinds, PowerKinds
  <2>2. awaiting' = c
    BY <1>1, <2>1 DEF InSync, Synced, IssueOf, Connects, Sends
  <2>3. /\ \A k \in 1..Len(todo) : todo[k].do # "brief"
        /\ todo[Len(todo)].do = LastPage
    BY <1>2, <1>3 DEF ReadBack
  <2>4. todo' = <<>> => Len(todo') = 0
    OBVIOUS
  <2>5. todo' # <<>> => Len(todo') \in 1..Len(todo')
    BY <1>2, EmptySeq
  <2>6. 1 \in 1..Len(todo)
    BY <1>2
  <2> HIDE DEF LastPage
  <2> QED BY <1>1, <1>2, <2>2, <2>3, <2>4, <2>5, <2>6
<1> QED BY <1>1, <1>3 DEF ReadBack, LastPage

LEMMA ReadBackUses ==
    ASSUME IInv, LateInv, InSync, ReadBack, Takes, UseOf
    PROVE  ReadBack'
<1>1. UNCHANGED <<shell, call>> /\ Idle' /\ ~Idle /\ stage \in Stage /\ stage \notin Resting
  BY DEF Takes
<1>2. Typed /\ StageFits
  BY DEF IInv, LateInv
<1>3. stage' = "ok" => Confirmed(shell'.config, call')
  <2>1. stage' = "ok" => call.kind = "reboot"
    BY UseStage
  <2> QED BY <1>1, <2>1 DEF Confirmed
<1>4. ASSUME stage' = "after", call.kind \in BackKinds
      PROVE  /\ \A k \in 1..Len(todo') : todo'[k].do # "brief"
             /\ todo' # <<>> => todo'[Len(todo')].do = LastPage
             /\ todo' = <<>> => Seen'
  <2>1. stage = "after" /\ ~Broken /\ Note(answer.texts)
    BY <1>4, UseStage DEF Reading
  <2>2. awaiting.do # "brief" /\ (todo = <<>> => awaiting.do = LastPage)
    BY <1>1, <1>4, <2>1 DEF ReadBack
  <2>3. UNCHANGED todo /\ got' = Noted(answer.texts)
    BY <2>1, <2>2 DEF Note
  <2>4. ASSUME todo = <<>> PROVE Seen'
    <3> DEFINE texts == answer.texts
    <3>1. answer.is = "returned"
      BY <1>2, <2>1 DEF Typed, Takes, Broken, Raised, Ended
    <3>2. Synced
      BY <1>4, <2>1 DEF InSync, Linked, BackKinds, PortKinds, PowerKinds
    <3>3. awaiting.do = LastPage
      BY <2>2, <2>4
    <3>4. awaiting.do \in Shows
      BY <3>3 DEF LastPage, Shows
    <3>5. PICK l : FirstIs(texts, awaiting.do) /\ Tables(texts)[1].at = [shell.config EXCEPT !.lag = l]
      BY <1>2, <3>1, <3>2, <3>4, PageShown
    <3>6. shell.config \in Config
      BY <1>2 DEF Typed, Shell
    <3> DEFINE f == Tables(texts)[1].at
    <3>7. f.power = shell.config.power /\ f.rows = shell.config.rows
      BY <3>5, <3>6 DEF Config
    <3>8. GotFits(got)
      BY <1>2 DEF Typed
    <3> HIDE DEF f, texts
    <3>9. CASE call.kind = "cycle"
      <4>1. awaiting.do = "power"
        BY <3>3, <3>9 DEF LastPage
      <4>2. Noted(texts) = [got EXCEPT !.power = ParsePower(texts, call.port)]
        BY <4>1 DEF Noted
      <4>3. got'.power = ParsePower(texts, call.port)
        BY <2>3, <3>8, <4>2 DEF GotFits, texts
      <4>4. ParsePort(texts, "power") = {f}
        BY <3>5, <4>1 DEF ParsePort, f, texts
      <4>5. got'.power = {IF call.port \in f.lag THEN "off" ELSE f.power[call.port]}
        BY <4>3, <4>4 DEF ParsePower
      <4>6. got'.power = {"delivering"} => f.power[call.port] = "delivering"
        BY <4>5
      <4> QED BY <1>1, <3>7, <3>9, <4>6 DEF Seen
    <3>10. CASE call.kind # "cycle"
      <4>1. awaiting.do = "collectors"
        BY <3>3, <3>10 DEF LastPage
      <4>2. Noted(texts) = [got EXCEPT !.rows = f.rows]
        BY <3>5, <4>1 DEF Noted, f, texts
      <4>3. got'.rows = f.rows
        BY <2>3, <3>8, <4>2 DEF GotFits, texts
      <4> QED BY <1>1, <3>7, <3>10, <4>3 DEF Seen
    <3> QED BY <3>9, <3>10
  <2>5. /\ \A k \in 1..Len(todo) : todo[k].do # "brief"
        /\ todo # <<>> => todo[Len(todo)].do = LastPage
    BY <1>4, <2>1 DEF ReadBack
  <2> QED BY <2>3, <2>4, <2>5
<1> QED BY <1>1, <1>3, <1>4 DEF ReadBack, LastPage

\* The pages of these calls.
LEMMA BackPages ==
    ASSUME NEW c, c.kind \in BackKinds
    PROVE  LET s == PagesAfter(c) IN
             /\ s # <<>> /\ Len(s) \in 1..2
             /\ \A k \in 1..Len(s) : s[k].do # "brief"
             /\ s[Len(s)].do = (IF c.kind = "cycle" THEN "power" ELSE "collectors")
<1>1. \A what : Do(what).do = what
  BY DEF Do
<1>2. CASE c.kind = "cycle"
  <2>1. PagesAfter(c) = <<Do("power")>>
    BY <1>2 DEF PagesAfter, PagesBefore, PowerKinds, VlanKinds, PortSettings, HostKinds
  <2>2. <<Do("power")>> # <<>> /\ Len(<<Do("power")>>) = 1 /\ <<Do("power")>>[1] = Do("power")
    OBVIOUS
  <2> QED BY <1>1, <1>2, <2>1, <2>2
<1>3. CASE c.kind \in HostKinds
  <2> DEFINE s == <<Do("logs"), Do("collectors")>>
  <2>1. PagesAfter(c) = s
    BY <1>3 DEF PagesAfter, PagesBefore, PowerKinds, VlanKinds, PortSettings, HostKinds
  <2>2. s # <<>> /\ Len(s) = 2 /\ s[1] = Do("logs") /\ s[2] = Do("collectors")
    OBVIOUS
  <2> HIDE DEF s
  <2>3. c.kind # "cycle"
    BY <1>3 DEF HostKinds
  <2>4. \A k \in 1..2 : k = 1 \/ k = 2
    OBVIOUS
  <2> QED BY <1>1, <2>1, <2>2, <2>3, <2>4
<1> QED BY <1>2, <1>3 DEF BackKinds

LEMMA ReadBackTurns ==
    ASSUME IInv, LateInv, ReadBack, Turn
    PROVE  ReadBack'
<1>1. /\ TurnOf
      /\ stage' = "after" => todo' = PagesAfter(call)
      /\ stage' = "ok" => (stage = "after" /\ Verified(call, got)) \/ stage = "script"
  BY TurnStage DEF LateInv
<1>2. UNCHANGED <<shell, call>> /\ Idle /\ Idle' /\ todo = <<>> /\ stage \notin Resting
  BY <1>1 DEF TurnOf
<1>3. ASSUME stage' = "after", call.kind \in BackKinds
      PROVE  /\ \A k \in 1..Len(todo') : todo'[k].do # "brief"
             /\ todo' # <<>> /\ todo'[Len(todo')].do = LastPage
  BY <1>1, <1>3, BackPages DEF LastPage
<1>4. ASSUME stage' = "ok" PROVE Confirmed(shell.config, call)
  <2>1. CASE stage = "script"
    <3>1. call.kind \in {"reboot", "deploy"}
      BY <2>1 DEF IInv, StageFits, Resting
    <3> QED BY <3>1 DEF Confirmed
  <2>2. CASE stage = "after" /\ Verified(call, got) /\ call.kind \in BackKinds
    <3>1. Seen
      BY <1>2, <2>2 DEF ReadBack
    <3>2. CASE call.kind = "cycle"
      <4>1. got.power = {"delivering"}
        BY <2>2, <3>2 DEF Verified, PortSettings, GlobalKinds
      <4> QED BY <3>1, <3>2, <4>1 DEF Seen, Confirmed
    <3>3. CASE call.kind = "collect"
      <4>1. call.host \in HostsOf(got)
        BY <2>2, <3>3 DEF Verified, PortSettings, GlobalKinds
      <4> QED BY <3>1, <3>3, <4>1 DEF Seen, Confirmed, HostsOf
    <3>4. CASE call.kind = "uncollect"
      <4>1. call.host \notin HostsOf(got)
        BY <2>2, <3>4 DEF Verified, PortSettings, GlobalKinds
      <4> QED BY <3>1, <3>4, <4>1 DEF Seen, Confirmed, HostsOf
    <3> QED BY <2>2, <3>2, <3>3, <3>4 DEF BackKinds, HostKinds
  <2>3. CASE call.kind \notin BackKinds
    BY <2>3 DEF Confirmed, BackKinds, HostKinds
  <2> QED BY <1>1, <1>4, <2>1, <2>2, <2>3
<1> QED BY <1>2, <1>3, <1>4 DEF ReadBack, LastPage

LEMMA ReadBackCalls ==
    ASSUME IInv, LateInv, ReadBack, Invoke \/ (stage \in Resting /\ Close /\ UNCHANGED writerVars)
    PROVE  ReadBack'
<1>1. /\ stage' \in Resting \cup {"before", "script"}
      /\ shell'.config = shell.config
      /\ stage' = "ok" => UNCHANGED <<stage, call>>
  BY CallStage DEF LateInv
<1> QED BY <1>1 DEF ReadBack, Resting, Confirmed

LEMMA ReadBackInit == Init => ReadBack
<1> SUFFICES ASSUME Init PROVE ReadBack
  OBVIOUS
<1>1. stage = "idle"
  BY DEF Init
<1> QED BY <1>1 DEF ReadBack

-----------------------------------------------------------------------------
(***************************************************************************)
(* The scripts, whose answers nobody looks at.  In step, a line that has   *)
(* come back has done its work, for a transfer that fails is raised; and a *)
(* switch that has been told to reload does not answer, but hangs up.      *)
(***************************************************************************)
\* How many lines of the script have been issued.
Scripted == Len(Script(call)) - Len(todo)

\* The prompt that ends the line has been printed.
Over ==
    /\ agenda = <<>> /\ wire = <<>> /\ back # <<>> /\ back[Len(back)] = Prompt
    /\ ~FailureIn(back)

\* What the first k lines of a script have made of the switch.
Carried(f, c, k) ==
    LET n == Len(Script(c)) IN
    /\ c.kind = "deploy" =>
         /\ k >= 1 /\ k < n - 1 => ~f.https
         /\ k >= 2 => f.certificate
         /\ k >= n - 1 => f.https
         /\ k >= n => f.saved
    /\ c.kind = "reboot" => k = 0

\* In step, and not on the way out.
InScript == stage = "script" /\ ~Broken /\ Sound

ScriptOrder ==
    /\ Scripted \in 0..Len(Script(call))
    /\ \A k \in 1..Len(todo) : todo[k] = Script(call)[Scripted + k]
    /\ Idle /\ driver = "none" => Scripted = 0
    /\ ~Idle => Scripted >= 1 /\ driver # "none"
    /\ agenda # <<>> => Scripted = 1 /\ agenda[Len(agenda)] = Script(call)[1]
    /\ ~Idle /\ agenda = <<>> => awaiting = Script(call)[Scripted]

ScriptMade == Carried(shell.config, call, IF Waiting /\ ~Over THEN Scripted - 1 ELSE Scripted)

ScriptOk ==
    /\ answer.is = "ended" => torn
    /\ stage = "ok" /\ ~torn =>
         /\ call.kind # "reboot"
         /\ call.kind = "deploy" =>
              shell.config.https /\ shell.config.certificate /\ shell.config.saved

ScriptInv == (InScript => ScriptOrder /\ ScriptMade) /\ ScriptOk

\* A list that is put together of three.
LEMMA ThreeParts ==
    ASSUME NEW S, NEW x \in Seq(S), NEW y \in Seq(S), NEW z \in Seq(S)
    PROVE  LET s == x \o y \o z IN
             /\ Len(x) \in Nat /\ Len(y) \in Nat /\ Len(z) \in Nat
             /\ Len(s) = Len(x) + Len(y) + Len(z)
             /\ \A i \in 1..Len(x) : s[i] = x[i]
             /\ \A i \in 1..Len(y) : s[Len(x) + i] = y[i]
             /\ \A i \in 1..Len(z) : s[Len(x) + Len(y) + i] = z[i]
<1> DEFINE u == x \o y
           s == u \o z
<1>1. /\ u \in Seq(S) /\ Len(x) \in Nat /\ Len(y) \in Nat /\ Len(u) = Len(x) + Len(y)
      /\ \A i \in 1..Len(x) : u[i] = x[i]
      /\ \A i \in 1..Len(y) : u[Len(x) + i] = y[i]
  <2>1. x \in Seq(S) /\ y \in Seq(S)
    OBVIOUS
  <2>2. \A w : w = x \o y =>
          /\ w \in Seq(S) /\ Len(x) \in Nat /\ Len(y) \in Nat /\ Len(w) = Len(x) + Len(y)
          /\ \A i \in 1..Len(x) : w[i] = x[i]
          /\ \A i \in 1..Len(y) : w[Len(x) + i] = y[i]
    BY <2>1, Joined
  <2> QED BY <2>2
<1> HIDE DEF u
<1>2. /\ Len(u) \in Nat /\ Len(z) \in Nat /\ Len(s) = Len(u) + Len(z)
      /\ \A i \in 1..Len(u) : s[i] = u[i]
      /\ \A i \in 1..Len(z) : s[Len(u) + i] = z[i]
  <2>1. \A v \in Seq(S) : LET w == v \o z IN
          /\ Len(v) \in Nat /\ Len(z) \in Nat /\ Len(w) = Len(v) + Len(z)
          /\ \A i \in 1..Len(v) : w[i] = v[i]
          /\ \A i \in 1..Len(z) : w[Len(v) + i] = z[i]
    BY Joined
  <2> QED BY <1>1, <2>1
<1> HIDE DEF s
<1>3. \A i \in 1..Len(x) : s[i] = x[i]
  <2> SUFFICES ASSUME NEW i \in 1..Len(x) PROVE s[i] = x[i]
    OBVIOUS
  <2>1. i \in 1..Len(u)
    BY <1>1
  <2> QED BY <1>1, <1>2, <2>1
<1>4. \A i \in 1..Len(y) : s[Len(x) + i] = y[i]
  <2> SUFFICES ASSUME NEW i \in 1..Len(y) PROVE s[Len(x) + i] = y[i]
    OBVIOUS
  <2>1. Len(x) + i \in 1..Len(u)
    BY <1>1
  <2> QED BY <1>1, <1>2, <2>1
<1>5. \A i \in 1..Len(z) : s[Len(x) + Len(y) + i] = z[i]
  BY <1>1, <1>2
<1>6. Len(s) = Len(x) + Len(y) + Len(z)
  BY <1>1, <1>2
<1> QED BY <1>1, <1>2, <1>3, <1>4, <1>5, <1>6 DEF s, u

\* The lines of a script.
LEMMA ScriptIs ==
    ASSUME NEW c \in Call
    PROVE  /\ c.kind = "reboot" => Len(Script(c)) = 1 /\ Script(c)[1].do = "reload"
           /\ c.kind = "deploy" =>
                /\ Len(Script(c)) \in {4, 5}
                /\ Script(c)[1].do = "https" /\ ~Script(c)[1].on
                /\ \A k \in 2..Len(Script(c)) - 2 : Script(c)[k].do = "copy"
                /\ Script(c)[Len(Script(c)) - 1].do = "https" /\ Script(c)[Len(Script(c)) - 1].on
                /\ Script(c)[Len(Script(c))].do = "save"
<1> DEFINE s == Script(c)
<1>1. ASSUME c.kind = "reboot" PROVE Len(s) = 1 /\ s[1].do = "reload"
  <2>1. s = <<Do("reload")>>
    BY <1>1 DEF Script
  <2>2. Len(s) = 1 /\ s[1] = Do("reload")
    BY <2>1
  <2> QED BY <2>2 DEF Do
<1>2. ASSUME c.kind = "deploy"
      PROVE  /\ Len(s) \in {4, 5}
             /\ s[1].do = "https" /\ ~s[1].on
             /\ \A k \in 2..Len(s) - 2 : s[k].do = "copy"
             /\ s[Len(s) - 1].do = "https" /\ s[Len(s) - 1].on
             /\ s[Len(s)].do = "save"
  <2> DEFINE a == Set("https", NoPort, FALSE)
             b == Set("https", NoPort, TRUE)
             x == <<a, Do("copy")>>
             y == IF c.on THEN <<Do("copy")>> ELSE <<>>
             z == <<b, Do("save")>>
  <2>1. Do("copy") \in Line /\ Do("save") \in Line /\ Do("copy").do = "copy" /\ Do("save").do = "save"
    BY LineDo DEF ExecCommands, Do
  <2>2. /\ a \in Line /\ b \in Line /\ a.do = "https" /\ b.do = "https" /\ ~a.on /\ b.on
    <3>1. /\ "https" \notin PortSettings \cup {"poe"} /\ NoPort \in Port \cup {NoPort}
          /\ "https" \in PortSettings \cup Globals \cup {"poe", "https"}
      BY DEF PortSettings
    <3>2. \A on \in BOOLEAN : Set("https", NoPort, on) \in Line /\ Set("https", NoPort, on).do = "https"
            /\ Set("https", NoPort, on).on = on
      BY <3>1, LineSet
    <3> QED BY <3>2
  <2> HIDE DEF a, b
  <2>3. x \in Seq(Line) /\ y \in Seq(Line) /\ z \in Seq(Line)
    BY <2>1, <2>2, SeqsOf
  <2>4. Len(x) = 2 /\ x[1] = a /\ x[2] = Do("copy")
    OBVIOUS
  <2>5. Len(z) = 2 /\ z[1] = b /\ z[2] = Do("save")
    OBVIOUS
  <2>6. (Len(y) = 1 /\ y[1] = Do("copy")) \/ Len(y) = 0
    OBVIOUS
  <2>7. s = x \o y \o z
    BY <1>2 DEF Script, a, b
  <2> HIDE DEF s, x, y, z
  <2>8. /\ Len(s) = Len(x) + Len(y) + Len(z)
        /\ \A i \in 1..Len(x) : s[i] = x[i]
        /\ \A i \in 1..Len(y) : s[Len(x) + i] = y[i]
        /\ \A i \in 1..Len(z) : s[Len(x) + Len(y) + i] = z[i]
    BY <2>3, <2>7, ThreeParts
  <2>9. s[1] = a /\ s[2] = Do("copy")
    BY <2>4, <2>8
  <2>10. CASE Len(y) = 0
    <3>1. Len(s) = 4 /\ s[3] = b /\ s[4] = Do("save")
      BY <2>4, <2>5, <2>8, <2>10
    <3>2. \A k \in 2..4 - 2 : k = 2
      OBVIOUS
    <3> QED BY <2>1, <2>2, <2>9, <3>1, <3>2
  <2>11. CASE Len(y) = 1 /\ y[1] = Do("copy")
    <3>1. Len(s) = 5 /\ s[3] = Do("copy") /\ s[4] = b /\ s[5] = Do("save")
      BY <2>4, <2>5, <2>8, <2>11
    <3>2. \A k \in 2..5 - 2 : k = 2 \/ k = 3
      OBVIOUS
    <3> QED BY <2>1, <2>2, <2>9, <3>1, <3>2
  <2> QED BY <2>6, <2>10, <2>11
<1> QED BY <1>1, <1>2

\* Nothing has to have been done before the first line has come back.
LEMMA NotBegun ==
    ASSUME NEW c \in Call, NEW f
    PROVE  Carried(f, c, 0)
<1> DEFINE n == Len(Script(c))
<1>1. c.kind = "deploy" => n \in {4, 5}
  BY ScriptIs
<1> HIDE DEF n
<1>2. c.kind = "deploy" => ~(0 >= 1) /\ ~(0 >= 2) /\ ~(0 >= n - 1) /\ ~(0 >= n)
  BY <1>1
<1> QED BY <1>2 DEF Carried, n

\* The switch executes a line of a script.
LEMMA HttpsPrints ==
    ASSUME NEW s \in Shell, s.modes = <<>>, s.asking = "nothing", NEW c, c.do = "https",
           NEW done \in BOOLEAN
    PROVE  /\ Execute(s, c, done).out = <<Says(c, "nothing"), Prompt>>
           /\ Execute(s, c, done).shell.config = [s.config EXCEPT !.https = c.on]
<1>1. ~Rejects(s, c)
  BY DEF Rejects, DatabaseCommands, InterfaceCommands, VlanCommands, PortSettings,
         GlobalCommands, Globals, ExecCommands
<1>2. Execute(s, c, done).shell = Effect(s, c) /\ Execute(s, c, done).out = Printed(s, c)
  BY <1>1, ExecuteUnasked
<1>3. Printed(s, c) = <<Says(c, "nothing"), Prompt>>
  BY <1>1 DEF Printed, ExecCommands, Shows
<1>4. Effect(s, c) = [s EXCEPT !.config.https = c.on]
  BY DEF Effect, Questions, ExecCommands, DatabaseCommands, InterfaceCommands,
         VlanCommands, PortSettings, GlobalCommands, Globals
<1>5. [s EXCEPT !.config.https = c.on].config = [s.config EXCEPT !.https = c.on]
  BY DEF Shell
<1> QED BY <1>2, <1>3, <1>4, <1>5

LEMMA ScriptAsks ==
    ASSUME NEW s \in Shell, s.modes = <<>>, s.asking = "nothing", NEW c, c.do \in ExecCommands,
           c.do # "copy" \/ s.config.https = FALSE, NEW done \in BOOLEAN
    PROVE  /\ Execute(s, c, done).out = <<Says(c, "question")>>
           /\ Execute(s, c, done).shell.config = s.config
<1>1. Mode(s) = "exec"
  BY DEF Mode
<1>2. ~Rejects(s, c)
  BY <1>1 DEF Rejects, DatabaseCommands, InterfaceCommands, VlanCommands, PortSettings,
              GlobalCommands, Globals, ExecCommands
<1>3. Execute(s, c, done).shell = Effect(s, c) /\ Execute(s, c, done).out = Printed(s, c)
  BY <1>2, ExecuteUnasked DEF ExecCommands
<1>4. Printed(s, c) = <<Says(c, "question")>>
  BY <1>2 DEF Printed, ExecCommands
<1>5. Effect(s, c) = [s EXCEPT !.asking = c.do]
  BY DEF Effect, Questions, ExecCommands, DatabaseCommands, InterfaceCommands,
         VlanCommands, PortSettings, GlobalCommands, Globals
<1>6. [s EXCEPT !.asking = c.do].config = s.config
  BY DEF Shell
<1> QED BY <1>3, <1>4, <1>5, <1>6

\* The switch is told that it may.
LEMMA ReplyPrints ==
    ASSUME NEW s \in Shell, NEW c, c.do = "yes", NEW done \in BOOLEAN
    PROVE  /\ s.asking = "copy" =>
                LET f == Execute(s, c, done).shell.config IN
                /\ f = [s.config EXCEPT !.certificate = @ \/ done]
                /\ Execute(s, c, done).out
                     = <<Says(Do("copy"), IF done THEN "success" ELSE "failure"), Prompt>>
           /\ s.asking = "save" =>
                LET f == Execute(s, c, done).shell.config IN
                f = [s.config EXCEPT !.saved = TRUE] /\ Execute(s, c, done).out = <<Prompt>>
           /\ s.asking = "reload" =>
                /\ Execute(s, c, done).shell.config = s.config
                /\ Execute(s, c, done).out = <<>> /\ Execute(s, c, done).shell.down
<1> DEFINE t == [s EXCEPT !.asking = "nothing"]
<1>1. t \in Shell /\ t.config = s.config
  BY DEF Shell
<1>2. s.config \in Config /\ s.config.certificate \in BOOLEAN /\ s.config.saved \in BOOLEAN
  BY DEF Shell, Config
<1>3. s.asking # "nothing" => Execute(s, c, done) = Answered(s, c, done)
  BY DEF Execute
<1>4. ASSUME s.asking = "copy"
      PROVE  /\ Execute(s, c, done).shell.config = [s.config EXCEPT !.certificate = @ \/ done]
             /\ Execute(s, c, done).out
                  = <<Says(Do("copy"), IF done THEN "success" ELSE "failure"), Prompt>>
  <2>1. /\ Answered(s, c, done).shell = [t EXCEPT !.config.certificate = @ \/ done]
        /\ Answered(s, c, done).out
             = <<Says(Do("copy"), IF done THEN "success" ELSE "failure"), Prompt>>
    BY <1>4 DEF Answered
  <2>2. [t EXCEPT !.config.certificate = @ \/ done].config
          = [t.config EXCEPT !.certificate = @ \/ done]
    BY <1>1 DEF Shell
  <2> QED BY <1>1, <1>3, <1>4, <2>1, <2>2
<1>5. ASSUME s.asking = "save"
      PROVE  /\ Execute(s, c, done).shell.config = [s.config EXCEPT !.saved = TRUE]
             /\ Execute(s, c, done).out = <<Prompt>>
  <2>1. /\ Answered(s, c, done).shell = [t EXCEPT !.config.saved = @ \/ c.do = "yes"]
        /\ Answered(s, c, done).out = <<Prompt>>
    BY <1>5 DEF Answered
  <2>2. [t EXCEPT !.config.saved = @ \/ c.do = "yes"].config
          = [t.config EXCEPT !.saved = @ \/ c.do = "yes"]
    BY <1>1 DEF Shell
  <2>3. [s.config EXCEPT !.saved = @ \/ c.do = "yes"] = [s.config EXCEPT !.saved = TRUE]
    OBVIOUS
  <2> QED BY <1>1, <1>3, <1>5, <2>1, <2>2, <2>3
<1>6. ASSUME s.asking = "reload"
      PROVE  /\ Execute(s, c, done).shell.config = s.config
             /\ Execute(s, c, done).out = <<>> /\ Execute(s, c, done).shell.down
  <2>1. /\ Answered(s, c, done).shell = [t EXCEPT !.down = (c.do = "yes")]
        /\ Answered(s, c, done).out = <<>>
    BY <1>6 DEF Answered
  <2>2. [t EXCEPT !.down = (c.do = "yes")].config = t.config
        /\ [t EXCEPT !.down = (c.do = "yes")].down = TRUE
    BY <1>1 DEF Shell
  <2> QED BY <1>1, <1>3, <1>6, <2>1, <2>2
<1> QED BY <1>4, <1>5, <1>6

\* The line of a script that is awaited.
LEMMA ScriptAt ==
    ASSUME Typed, StageFits, InScript, ScriptOrder, ~Idle, agenda = <<>>,
           NEW n, n = Len(Script(call)), NEW k, k = Scripted
    PROVE  /\ call \in Call /\ n \in Nat /\ k \in 1..n
           /\ call.kind = "reboot" => k = 1 /\ awaiting.do = "reload"
           /\ call.kind = "deploy" =>
                /\ n \in {4, 5}
                /\ \/ k = 1 /\ awaiting.do = "https" /\ ~awaiting.on
                   \/ k \in 2..n - 2 /\ awaiting.do = "copy"
                   \/ k = n - 1 /\ awaiting.do = "https" /\ awaiting.on
                   \/ k = n /\ awaiting.do = "save"
           /\ call.kind \in {"reboot", "deploy"}
           /\ awaiting.do \in {"https", "copy", "save", "reload"}
<1>1. call \in Call /\ call.kind \in {"reboot", "deploy"}
  BY DEF InScript, StageFits, Resting
<1>2. n \in Nat /\ k \in 0..n /\ k >= 1 /\ awaiting = Script(call)[k]
  BY <1>1, ScriptTyped DEF ScriptOrder
<1>3. k \in 1..n
  BY <1>2
<1>4. CASE call.kind = "reboot"
  <2>1. n = 1 /\ Script(call)[1].do = "reload"
    BY <1>1, <1>4, ScriptIs
  <2>2. k = 1
    BY <1>3, <2>1
  <2> QED BY <1>1, <1>2, <1>3, <1>4, <2>1, <2>2
<1>5. CASE call.kind = "deploy"
  <2>1. /\ n \in {4, 5}
        /\ Script(call)[1].do = "https" /\ ~Script(call)[1].on
        /\ \A j \in 2..n - 2 : Script(call)[j].do = "copy"
        /\ Script(call)[n - 1].do = "https" /\ Script(call)[n - 1].on
        /\ Script(call)[n].do = "save"
    BY <1>1, <1>5, ScriptIs
  <2>2. k = 1 \/ k \in 2..n - 2 \/ k = n - 1 \/ k = n
    BY <1>3, <2>1
  <2> QED BY <1>1, <1>2, <1>3, <1>5, <2>1, <2>2
<1> QED BY <1>1, <1>4, <1>5

\* What has been read, by its last chunk.
LEMMA EmptyJoined ==
    ASSUME NEW S, NEW s \in Seq(S)
    PROVE  <<>> \o s = s /\ s \o <<>> = s
OBVIOUS

LEMMA PromptAdded ==
    ASSUME NEW s \in Seq(Chunk)
    PROVE  LET t == s \o <<Prompt>> IN t # <<>> /\ t[Len(t)] = Prompt
<1> DEFINE t == s \o <<Prompt>>
<1>1. <<Prompt>> \in Seq(Chunk) /\ Len(<<Prompt>>) = 1 /\ <<Prompt>>[1] = Prompt
  BY ChunkSays
<1>2. Len(s) \in Nat /\ Len(t) = Len(s) + 1 /\ t[Len(s) + 1] = Prompt
  BY <1>1
<1> HIDE DEF t
<1>3. t[Len(t)] = Prompt /\ Len(t) # 0
  BY <1>2
<1> QED BY <1>3, EmptySeq DEF t

LEMMA LastOfTwo ==
    ASSUME NEW c, NEW what \in Printable
    PROVE  LET s == <<Says(c, what), Prompt>> IN
             /\ s # <<>> /\ s[Len(s)] = Prompt
             /\ Some(s, "failure") <=> what = "failure"
<1> DEFINE s == <<Says(c, what), Prompt>>
<1>1. Says(c, what).says = what /\ Prompt.says = "prompt"
  BY PromptSays DEF Says
<1>2. Some(s, "failure") <=> Says(c, what).says = "failure" \/ Prompt.says = "failure"
  BY OfTwo
<1>3. Len(s) = 2 /\ s[2] = Prompt
  OBVIOUS
<1> QED BY <1>1, <1>2, <1>3

LEMMA QuestionOpen ==
    ASSUME NEW c
    PROVE  LET s == <<Says(c, "question")>> IN s[Len(s)] # Prompt
<1>1. Says(c, "question").says # Prompt.says
  BY PromptSays DEF Says, Printable
<1>2. Len(<<Says(c, "question")>>) = 1 /\ <<Says(c, "question")>>[1] = Says(c, "question")
  OBVIOUS
<1> QED BY <1>1, <1>2

\* Work that is done stays done, and the next line adds to it.
LEMMA CarriedKept ==
    ASSUME NEW f, NEW g, NEW c, NEW k, Carried(f, c, k), g.https = f.https,
           f.certificate => g.certificate, f.saved => g.saved
    PROVE  Carried(g, c, k)
BY DEF Carried

LEMMA ScriptPlaces ==
    ASSUME NEW n \in {4, 5}, NEW k \in 1..n
    PROVE  /\ k = 1 => ~(k >= 2) /\ ~(k >= n - 1) /\ ~(k >= n)
           /\ k \in 2..n - 2 => k - 1 >= 1 /\ k - 1 < n - 1 /\ ~(k >= n - 1) /\ ~(k >= n)
           /\ k = n - 1 => k - 1 >= 2 /\ ~(k < n - 1) /\ ~(k >= n)
           /\ k = n => k - 1 >= 2 /\ k - 1 >= n - 1 /\ ~(k < n - 1)
OBVIOUS

LEMMA CarriedOn ==
    ASSUME NEW f \in Config, NEW g, NEW c, c.kind = "deploy", NEW n, n = Len(Script(c)), n \in {4, 5},
           NEW k \in 1..n, Carried(f, c, k - 1),
           \/ k = 1 /\ g = [f EXCEPT !.https = FALSE]
           \/ k \in 2..n - 2 /\ g = [f EXCEPT !.certificate = TRUE]
           \/ k = n - 1 /\ g = [f EXCEPT !.https = TRUE]
           \/ k = n /\ g = [f EXCEPT !.saved = TRUE]
    PROVE  Carried(g, c, k)
<1>1. /\ k - 1 >= 1 /\ k - 1 < n - 1 => f.https = FALSE
      /\ k - 1 >= 2 => f.certificate = TRUE
      /\ k - 1 >= n - 1 => f.https = TRUE
      /\ k - 1 >= n => f.saved = TRUE
  BY DEF Carried, Config
<1>2. CASE k = 1 /\ g = [f EXCEPT !.https = FALSE]
  <2>1. g.https = FALSE
    BY <1>2 DEF Config
  <2>2. ~(k >= 2) /\ ~(k >= n - 1) /\ ~(k >= n)
    BY <1>2, ScriptPlaces
  <2> QED BY <2>1, <2>2 DEF Carried
<1>3. CASE k \in 2..n - 2 /\ g = [f EXCEPT !.certificate = TRUE]
  <2>1. g.https = f.https /\ g.certificate = TRUE
    BY <1>3 DEF Config
  <2>2. k - 1 >= 1 /\ k - 1 < n - 1 /\ ~(k >= n - 1) /\ ~(k >= n)
    BY <1>3
  <2> QED BY <1>1, <2>1, <2>2 DEF Carried
<1>4. CASE k = n - 1 /\ g = [f EXCEPT !.https = TRUE]
  <2>1. g.https = TRUE /\ g.certificate = f.certificate
    BY <1>4 DEF Config
  <2>2. k - 1 >= 2 /\ ~(k < n - 1) /\ ~(k >= n)
    BY <1>4
  <2> QED BY <1>1, <2>1, <2>2 DEF Carried
<1>5. CASE k = n /\ g = [f EXCEPT !.saved = TRUE]
  <2>1. g.https = f.https /\ g.certificate = f.certificate /\ g.saved = TRUE
    BY <1>5 DEF Config
  <2>2. k - 1 >= 2 /\ k - 1 >= n - 1 /\ ~(k < n - 1)
    BY <1>5
  <2> QED BY <1>1, <2>1, <2>2 DEF Carried
<1> QED BY <1>2, <1>3, <1>4, <1>5

\* In step, a line is executed while its run waits for it.
LEMMA ScriptSteps ==
    ASSUME IInv, Typed, Sound, ~(wire = <<>> /\ Idle)
    PROVE  /\ ~Idle
           /\ wire # <<>> => Waiting
           /\ Waiting => AgendaFits /\ InFlight
           /\ stage = "script" => shell.modes = <<>>
<1>1. ChannelFits /\ Len(shell.modes) = Depth /\ stage \in Stage
  BY DEF IInv, Steady, StageFits
<1>2. ~Waiting => wire = <<>>
  BY <1>1 DEF ChannelFits, Pipe
<1>3. Waiting => ~Idle
  BY DEF Waiting, Idle
<1>4. stage = "script" => shell.modes = <<>>
  <2>1. stage = "script" => Depth = 0
    BY <1>1, DepthOf
  <2>2. shell.modes \in Levels
    BY DEF Typed
  <2> QED BY <1>1, <2>1, <2>2, LevelLens
<1> QED BY <1>1, <1>2, <1>3, <1>4 DEF ChannelFits

LEMMA ScriptExecutes ==
    ASSUME IInv, Typed, ScriptInv, Executes, UNCHANGED writerVars
    PROVE  ScriptInv'
<1> DEFINE n == Len(Script(call))
           k == Scripted
<1>1. /\ wire # <<>>
      /\ UNCHANGED <<driver, agenda, awaiting, answer, torn, call, stage, todo>>
  BY DEF Executes, writerVars
<1>2. PICK done \in BOOLEAN :
        LET r == Execute(shell, Head(wire), done) IN
          /\ shell' = r.shell /\ back' = back \o r.out
          /\ wire' = IF r.shell.down THEN <<>> ELSE Tail(wire)
  BY DEF Executes
<1>3. ScriptOk'
  <2>1. stage = "ok" => torn
    <3> SUFFICES ASSUME stage = "ok", ~torn PROVE FALSE
      OBVIOUS
    <3>1. Idle /\ Sound
      BY DEF IInv, StageFits, Resting, Sound
    <3> QED BY <1>1, <3>1, ScriptSteps
  <2> QED BY <1>1, <2>1 DEF ScriptInv, ScriptOk
<1>4. ASSUME InScript' PROVE ScriptOrder' /\ ScriptMade'
  <2>1. InScript /\ k' = k /\ Script(call') = Script(call)
    BY <1>1, <1>4 DEF InScript, Broken, Sound, Scripted
  <2>2. ScriptOrder /\ ScriptMade
    BY <2>1 DEF ScriptInv
  <2>3. ScriptOrder'
    BY <1>1, <2>1, <2>2 DEF ScriptOrder, Idle
  <2>4. ~Idle /\ Waiting /\ Waiting' /\ AgendaFits /\ InFlight /\ shell.modes = <<>>
    BY <1>1, <2>1, ScriptSteps DEF InScript, Waiting
  <2>5. ~Over
    BY <1>1 DEF Over
  <2>6. Carried(shell.config, call, k - 1)
    BY <2>2, <2>4, <2>5 DEF ScriptMade
  <2> SUFFICES Carried(shell'.config, call, IF ~Over' THEN k - 1 ELSE k)
    BY <1>1, <2>1, <2>3, <2>4 DEF ScriptMade
  <2>7. CASE agenda # <<>>
    <3>1. ~Over' /\ k = 1 /\ call \in Call
      BY <1>1, <2>1, <2>2, <2>7 DEF Over, ScriptOrder, IInv, StageFits, InScript, Resting
    <3>2. k - 1 = 0
      BY <3>1
    <3> QED BY <3>1, <3>2, NotBegun
  <2>8. CASE agenda = <<>>
    <3>1. StageFits
      BY DEF IInv
    <3>2. /\ call \in Call /\ n \in Nat /\ k \in 1..n
          /\ call.kind = "reboot" => k = 1 /\ awaiting.do = "reload"
          /\ call.kind = "deploy" =>
               /\ n \in {4, 5}
               /\ \/ k = 1 /\ awaiting.do = "https" /\ ~awaiting.on
                  \/ k \in 2..n - 2 /\ awaiting.do = "copy"
                  \/ k = n - 1 /\ awaiting.do = "https" /\ awaiting.on
                  \/ k = n /\ awaiting.do = "save"
          /\ call.kind \in {"reboot", "deploy"}
          /\ awaiting.do \in {"https", "copy", "save", "reload"}
      BY <2>1, <2>2, <2>4, <2>8, <3>1, ScriptAt
    <3>3. shell \in Shell /\ shell.config \in Config /\ back \in Seq(Chunk) /\ awaiting \in Line
      BY <2>4, <3>2 DEF Typed, Shell, Idle, NoLine, Banner, Do
    <3>4. Sent \/ Replied \/ Stuffed
      BY <1>1, <2>4, <3>2 DEF InFlight, Password, Printout, Prompted, Asked, Halted, Pipe
    <3> HIDE DEF n, k
    <3>5. CASE Sent
      <4>1. wire = Lines(awaiting) /\ back = <<>> /\ shell.asking = "nothing"
        BY <3>5 DEF Sent, Pipe
      <4>2. Head(wire) = awaiting
        BY <4>1, LinesOf
      <4> DEFINE r == Execute(shell, awaiting, done)
      <4>3. shell' = r.shell /\ back' = r.out
        BY <1>2, <4>1, <4>2, EmptyJoined
      <4>4. CASE awaiting.do = "https"
        <5>1. /\ r.out = <<Says(awaiting, "nothing"), Prompt>>
              /\ r.shell.config = [shell.config EXCEPT !.https = awaiting.on]
          <6>1. shell \in Shell /\ shell.modes = <<>> /\ shell.asking = "nothing" /\ done \in BOOLEAN
            BY <2>4, <3>3, <4>1
          <6> QED BY <4>4, <6>1, HttpsPrints
        <5>2. wire' = <<>>
          BY <1>2, <4>1, <4>2, <4>4, LinesOf
        <5>3. Over'
          BY <1>1, <2>8, <4>3, <4>4, <5>1, <5>2, LastOfTwo DEF Over, FailureIn
        <5>4. awaiting.on \in BOOLEAN /\ call.kind = "deploy"
          BY <3>2, <3>3, <4>4, LineDos
        <5>5. (k = 1 /\ shell'.config = [shell.config EXCEPT !.https = FALSE])
                \/ (k = n - 1 /\ shell'.config = [shell.config EXCEPT !.https = TRUE])
          BY <3>2, <4>3, <4>4, <5>1, <5>4
        <5>6. Carried(shell'.config, call, k)
          BY <2>6, <3>2, <3>3, <5>4, <5>5, CarriedOn DEF n
        <5> QED BY <5>3, <5>6
      <4>5. CASE awaiting.do # "https"
        <5>1. awaiting.do = "copy" => ~shell.config.https
          <6>1. awaiting.do = "copy" => k - 1 >= 1 /\ k - 1 < n - 1 /\ call.kind = "deploy"
            BY <3>2
          <6> QED BY <2>6, <6>1 DEF Carried, n
        <5>2. awaiting.do \in ExecCommands /\ (awaiting.do # "copy" \/ shell.config.https = FALSE)
          BY <3>2, <3>3, <4>5, <5>1 DEF ExecCommands, Config
        <5>3. /\ r.out = <<Says(awaiting, "question")>> /\ r.shell.config = shell.config
          <6>1. shell \in Shell /\ shell.modes = <<>> /\ shell.asking = "nothing" /\ done \in BOOLEAN
            BY <2>4, <3>3, <4>1
          <6> QED BY <5>2, <6>1, ScriptAsks
        <5>4. ~Over'
          BY <4>3, <5>3, QuestionOpen DEF Over
        <5> QED BY <2>6, <4>3, <5>3, <5>4
      <4> QED BY <4>4, <4>5
    <3>6. CASE Replied \/ Stuffed
      <4>4. awaiting.do \in {"copy", "save", "reload"} /\ (Stuffed => awaiting.do # "copy")
        <5>1. Stuffed => awaiting.do \in {"reload", "save"}
          BY LinesOf, OfOne DEF Stuffed
        <5> QED BY <3>6, <5>1 DEF Replied, Replies
      <4>1. wire = <<Do("yes")>> /\ shell.asking = awaiting.do
            /\ (awaiting.do = "copy" => back = <<>>)
        BY <3>6, <4>4 DEF Replied, Stuffed, Pipe
      <4>2. Head(wire) = Do("yes") /\ Tail(wire) = <<>> /\ Do("yes").do = "yes"
        BY <4>1, TailOf, DoIs
      <4> DEFINE r == Execute(shell, Do("yes"), done)
      <4>3. shell' = r.shell /\ back' = back \o r.out /\ wire' = <<>>
        BY <1>2, <4>2
      <4>8. /\ shell.asking = "copy" =>
                  /\ r.shell.config = [shell.config EXCEPT !.certificate = @ \/ done]
                  /\ r.out = <<Says(Do("copy"), IF done THEN "success" ELSE "failure"), Prompt>>
            /\ shell.asking = "save" =>
                  r.shell.config = [shell.config EXCEPT !.saved = TRUE] /\ r.out = <<Prompt>>
            /\ shell.asking = "reload" => r.shell.config = shell.config /\ r.out = <<>>
        <5>1. shell \in Shell /\ Do("yes").do = "yes" /\ done \in BOOLEAN
          BY <3>3, <4>2
        <5> QED BY <5>1, ReplyPrints
      <4>5. CASE awaiting.do = "copy"
        <5>1. /\ r.shell.config = [shell.config EXCEPT !.certificate = @ \/ done]
              /\ r.out = <<Says(Do("copy"), IF done THEN "success" ELSE "failure"), Prompt>>
          BY <4>1, <4>5, <4>8
        <5>2. back' = r.out
          BY <4>1, <4>3, <4>5, <5>1, EmptyJoined
        <5>3. CASE done
          <6>1. back' = <<Says(Do("copy"), "success"), Prompt>>
            BY <5>1, <5>2, <5>3
          <6>2. Over'
            BY <1>1, <2>8, <4>3, <6>1, LastOfTwo DEF Over, FailureIn, Printable
          <6>3. shell'.config = [shell.config EXCEPT !.certificate = TRUE]
            BY <3>3, <4>3, <5>1, <5>3
          <6>4. call.kind = "deploy" /\ k \in 2..n - 2
            BY <3>2, <4>5
          <6>5. Carried(shell'.config, call, k)
            BY <2>6, <3>2, <3>3, <6>3, <6>4, CarriedOn DEF n
          <6> QED BY <6>2, <6>5
        <5>4. CASE ~done
          <6>1. back' = <<Says(Do("copy"), "failure"), Prompt>>
            BY <5>1, <5>2, <5>4
          <6>2. ~Over'
            BY <1>1, <4>5, <6>1, LastOfTwo DEF Over, FailureIn, Printable
          <6>3. /\ shell'.config.https = shell.config.https
                /\ shell.config.certificate => shell'.config.certificate
                /\ shell.config.saved => shell'.config.saved
            BY <3>3, <4>3, <5>1 DEF Config
          <6>4. Carried(shell'.config, call, k - 1)
            BY <2>6, <6>3, CarriedKept
          <6> QED BY <6>2, <6>4
        <5> QED BY <5>3, <5>4
      <4>6. CASE awaiting.do = "save"
        <5>1. r.shell.config = [shell.config EXCEPT !.saved = TRUE] /\ r.out = <<Prompt>>
          BY <4>1, <4>6, <4>8
        <5>2. back' # <<>> /\ back'[Len(back')] = Prompt
          BY <3>3, <4>3, <5>1, PromptAdded
        <5>3. Over'
          BY <1>1, <2>8, <4>3, <4>6, <5>2 DEF Over, FailureIn
        <5>4. call.kind = "deploy" /\ k = n
          BY <3>2, <4>6
        <5>5. Carried(shell'.config, call, k)
          BY <2>6, <3>2, <3>3, <4>3, <5>1, <5>4, CarriedOn DEF n
        <5> QED BY <5>3, <5>5
      <4>7. CASE awaiting.do = "reload"
        <5>1. r.shell.config = shell.config /\ r.out = <<>>
          BY <4>1, <4>7, <4>8
        <5>2. back = <<Says(awaiting, "question")>>
          BY <3>6, <4>7 DEF Replied, Replies, Stuffed, Pipe
        <5>3. back' = <<Says(awaiting, "question")>>
          BY <3>3, <4>3, <5>1, <5>2, EmptyJoined
        <5>4. ~Over'
          BY <5>3, QuestionOpen DEF Over
        <5> QED BY <2>6, <4>3, <5>1, <5>4
      <4> QED BY <4>4, <4>5, <4>6, <4>7
    <3> QED BY <3>4, <3>5, <3>6
  <2> QED BY <2>7, <2>8
<1> QED BY <1>3, <1>4 DEF ScriptInv

\* What has come back in step has been read to its end, and reports no failure.
LEMMA ReturnOver ==
    ASSUME StageFits, Waiting, AgendaFits, InFlight, Receive, back \in Seq(Chunk),
           answer'.is = "returned"
    PROVE  Over
<1>1. PICK n \in 1..Len(back) :
        /\ back' = SubSeq(back, n + 1, Len(back))
        /\ Deals(SubSeq(back, 1, n), back[n])
  BY DEF Receive
<1>2. answer.is # "returned" /\ Raised.is # "returned"
  BY DEF Waiting, Pending, Raised
<1>3. agenda = <<>> /\ ~FailureIn(SubSeq(back, 1, n))
  BY <1>1, <1>2 DEF Deals, Raises, Reply, SetupGoesOn
<1>4. Quiet /\ back' = <<>>
  <2>1. ~Raises(Raised) /\ ~NextOfSetup /\ ~PasswordOfSetup /\ ~Confirms
    BY <1>2 DEF Raises, NextOfSetup, PasswordOfSetup, Confirms
  <2> QED BY <2>1, Received DEF Comes
<1>5. ~FailureIn(back)
  <2>1. n \in 0..Len(back) /\ Len(back) \in Nat
    OBVIOUS
  <2>2. n = Len(back)
    <3> DEFINE t == SubSeq(back, n + 1, Len(back))
    <3>1. t = <<>>
      BY <1>1, <1>4
    <3>2. Len(t) = Len(back) - n /\ Len(back) \in Nat
      <4>1. back \in Seq(Chunk) /\ n \in 0..Len(back)
        BY <2>1
      <4> QED BY <4>1
    <3> HIDE DEF t
    <3>3. Len(t) = 0
      BY <3>1
    <3>4. n = Len(back)
      BY <3>2, <3>3
    <3> QED BY <3>4
  <2>3. \A i \in 1..n : SubSeq(back, 1, n)[i] = back[i]
    BY <2>1, Prefix
  <2>4. Len(SubSeq(back, 1, n)) = n
    BY <2>1, Prefix
  <2> QED BY <1>3, <2>2, <2>3, <2>4 DEF FailureIn, Some
<1>6. back # <<>> /\ back[Len(back)] = Prompt
  <2>1. Printout \/ Prompted
    BY <1>4, LinesOf DEF InFlight, Sent, Password, Asked, Replied, Stuffed, Halted, Pipe, Quiet,
                         Replies
  <2>2. \E x : back = <<x, Prompt>> \/ back = <<Prompt>>
    BY <2>1 DEF Printout, Prompted, Pipe
  <2> QED BY <2>2
<1> QED BY <1>3, <1>4, <1>5, <1>6 DEF Over, Quiet

LEMMA ScriptReads ==
    ASSUME IInv, Typed, ScriptInv, ReadKeeps, Receive \/ TimesOut \/ StreamEnds
    PROVE  ScriptInv'
<1> DEFINE n == Len(Script(call))
           k == Scripted
<1>1. /\ Waiting /\ ~Idle /\ answer = Pending /\ driver # "none"
      /\ UNCHANGED <<shell, call, stage, todo>>
  BY DEF ReadKeeps, writerVars
<1>2. answer'.is = "ended" => torn'
  <2>1. CASE TimesOut \/ StreamEnds
    BY <2>1 DEF TimesOut, StreamEnds, Raises
  <2>2. CASE Receive
    <3>1. PICK m : Deals(SubSeq(back, 1, m), back[m])
      BY <2>2 DEF Receive
    <3> QED BY <1>1, <3>1 DEF Deals, Raises, Reply, SetupGoesOn, Return, Pending, Raised, Returned
  <2> QED BY <2>1, <2>2
<1>3. stage # "ok"
  BY <1>1 DEF IInv, StageFits, Resting
<1>4. ScriptOk'
  BY <1>1, <1>2, <1>3 DEF ScriptOk
<1>5. ASSUME InScript' PROVE ScriptOrder' /\ ScriptMade'
  <2>1. Receive /\ ~Raises(Raised) /\ answer'.is \notin {"raised", "ended"}
    BY <1>5 DEF InScript, Broken, TimesOut, StreamEnds, Raises, Raised, Ended
  <2>2. UNCHANGED torn /\ driver' # "none"
    <3>1. PICK m : Deals(SubSeq(back, 1, m), back[m])
      BY <2>1 DEF Receive
    <3> QED BY <1>1, <2>1, <3>1 DEF Deals, Reply, SetupGoesOn, Return
  <2>3. Sound /\ InScript
    BY <1>1, <1>5, <2>2 DEF InScript, Sound, Broken, Pending
  <2>4. ScriptOrder /\ ScriptMade /\ k' = k /\ Script(call') = Script(call) /\ call \in Call
    BY <1>1, <2>3 DEF ScriptInv, Scripted, InScript, IInv, StageFits, Resting
  <2>5. StageFits /\ AgendaFits /\ InFlight /\ back \in Seq(Chunk)
    BY <1>1, <2>3, ScriptSteps DEF IInv, Typed
  <2>6. /\ k \in 0..n /\ k >= 1
        /\ \A j \in 1..Len(todo') : todo'[j] = Script(call')[k' + j]
        /\ k' \in 0..Len(Script(call'))
    BY <1>1, <2>4 DEF ScriptOrder
  <2>7. ASSUME agenda # <<>>, wire' # <<>>, Waiting',
               \/ agenda' = agenda
               \/ agenda' = Tail(agenda) /\ awaiting' = Head(agenda)
        PROVE  ScriptOrder' /\ ScriptMade'
    <3>1. k = 1 /\ agenda[Len(agenda)] = Script(call)[1] /\ agenda \in Seq(Line)
      BY <2>4, <2>7 DEF ScriptOrder, Typed
    <3>2. ~Idle'
      BY <2>7 DEF Waiting, Idle
    <3>3. /\ agenda' # <<>> => agenda'[Len(agenda')] = Script(call)[1]
          /\ agenda' = <<>> => awaiting' = Script(call)[1]
      <4>1. CASE agenda' = agenda
        BY <2>7, <3>1, <4>1
      <4>2. CASE agenda' = Tail(agenda) /\ awaiting' = Head(agenda)
        <5>1. /\ Head(agenda) = agenda[1] /\ Len(agenda) \in Nat /\ Len(agenda) >= 1
              /\ Len(agenda') = Len(agenda) - 1 /\ Len(agenda') \in Nat /\ agenda' \in Seq(Line)
              /\ \A i \in 1..Len(agenda') : agenda'[i] = agenda[i + 1]
          BY <2>7, <3>1, <4>2, Rest
        <5>2. ASSUME agenda' = <<>> PROVE awaiting' = Script(call)[1]
          <6>1. Len(agenda') = 0
            BY <5>2
          <6>2. Len(agenda) = 1
            BY <5>1, <6>1
          <6> QED BY <3>1, <4>2, <5>1, <6>2
        <5>3. ASSUME agenda' # <<>> PROVE agenda'[Len(agenda')] = Script(call)[1]
          <6>1. Len(agenda') # 0
            BY <5>1, <5>3
          <6>2. Len(agenda') \in 1..Len(agenda') /\ Len(agenda') + 1 = Len(agenda)
            BY <5>1, <6>1
          <6> QED BY <3>1, <5>1, <6>2
        <5> QED BY <5>2, <5>3
      <4> QED BY <2>7, <4>1, <4>2
    <3>4. ScriptOrder'
      BY <2>2, <2>4, <2>6, <3>1, <3>2, <3>3 DEF ScriptOrder
    <3>5. ~Over'
      BY <2>7 DEF Over
    <3>6. k' - 1 = 0
      BY <2>4, <3>1
    <3>7. Carried(shell'.config, call', 0)
      BY <1>1, <2>4, NotBegun
    <3> QED BY <2>7, <3>4, <3>5, <3>6, <3>7 DEF ScriptMade
  <2>8. CASE NextOfSetup
    <3>1. Waiting'
      <4>1. awaiting' # NoLine
        BY <1>1, <2>5, <2>8, AgendaMoves
      <4> QED BY <1>1, <2>8, <4>1 DEF Waiting, NextOfSetup
    <3>2. agenda # <<>> /\ wire' # <<>> /\ awaiting' = Head(agenda) /\ agenda' = Tail(agenda)
      BY <2>8, LinesOf DEF NextOfSetup
    <3> QED BY <2>7, <3>1, <3>2
  <2>9. CASE PasswordOfSetup
    <3>1. Waiting' /\ wire' # <<>> /\ agenda' = agenda
      BY <1>1, <2>9, SetupLines DEF Waiting, PasswordOfSetup
    <3>2. agenda # <<>>
      BY <2>5, <2>9, LineKinds DEF PasswordOfSetup
    <3> QED BY <2>7, <3>1, <3>2
  <2>10. CASE Confirms
    <3>1. wire' # <<>> /\ UNCHANGED <<agenda, awaiting, answer, driver>>
      BY <2>10 DEF Confirms
    <3>2. ~Over /\ ~Over'
      <4>1. ~Over'
        BY <3>1 DEF Over
      <4>2. awaiting.do \in {"copy", "save"} /\ shell.asking = awaiting.do
        BY <2>10 DEF Confirms, Replies
      <4>3. wire # <<>> \/ back = <<Says(awaiting, "question")>>
        BY <2>5, <4>2, LinesOf DEF InFlight, Sent, Password, Printout, Prompted, Asked, Replied,
                                   Stuffed, Halted, Pipe
      <4> QED BY <4>1, <4>3, QuestionOpen DEF Over
    <3>3. ScriptOrder'
      BY <1>1, <2>2, <2>4, <2>6, <3>1 DEF ScriptOrder, Idle
    <3>4. Waiting' /\ Waiting
      BY <1>1, <3>1 DEF Waiting
    <3> QED BY <1>1, <2>4, <3>2, <3>3, <3>4 DEF ScriptMade
  <2>11. CASE \E texts : Comes(texts)
    <3>1. /\ answer'.is = "returned" /\ UNCHANGED <<agenda, awaiting, driver>>
      BY <2>11 DEF Comes, Returned
    <3>2. Over /\ ~Waiting'
      BY <2>1, <2>5, <1>1, <3>1, ReturnOver DEF Waiting, Pending
    <3>3. ScriptOrder'
      BY <1>1, <2>2, <2>4, <2>6, <3>1 DEF ScriptOrder, Idle
    <3> QED BY <1>1, <2>4, <3>2, <3>3 DEF ScriptMade
  <2> QED BY <1>1, <2>1, <2>5, <2>8, <2>9, <2>10, <2>11, Received
<1> QED BY <1>4, <1>5 DEF ScriptInv

LEMMA ScriptIssues ==
    ASSUME IInv, Typed, ScriptInv, NEW c, IssueOf(c)
    PROVE  ScriptInv'
<1> DEFINE n == Len(Script(call))
           k == Scripted
<1>1. /\ c = todo[1] /\ c \in Line /\ Len(todo') = Len(todo) - 1 /\ Len(todo) \in Nat
      /\ Len(todo) >= 1
      /\ \A j \in 1..Len(todo') : todo'[j] = todo[j + 1] /\ j + 1 \in 1..Len(todo)
      /\ Idle /\ ~Broken /\ answer = Pending /\ agenda = <<>> /\ ~Idle' /\ stage \notin Resting
      /\ UNCHANGED <<shell, call, stage>>
  BY DEF IssueOf
<1>2. Connects(c) \/ Sends(c)
  BY DEF IssueOf
<1>3. ScriptOk'
  <2>1. answer'.is # "ended"
    BY <1>1, <1>2 DEF Connects, Sends, Pending, Raised
  <2>2. stage' # "ok"
    BY <1>1 DEF Resting
  <2> QED BY <2>1, <2>2 DEF ScriptOk
<1>4. ASSUME InScript' PROVE ScriptOrder' /\ ScriptMade'
  <2>1. InScript
    BY <1>1, <1>2, <1>4 DEF InScript, Sound, Connects, Sends
  <2>2. /\ ScriptOrder /\ ScriptMade /\ Script(call') = Script(call) /\ call \in Call
        /\ call.kind \in {"reboot", "deploy"}
    BY <1>1, <2>1 DEF ScriptInv, InScript, IInv, StageFits, Resting
  <2>3. n \in Nat /\ k \in 0..n /\ k = n - Len(todo) /\ k' = n - Len(todo') /\ k' = k + 1
    <3>1. n \in Nat /\ k \in 0..n /\ k = n - Len(todo) /\ k' = n - Len(todo')
      BY <2>2, ScriptTyped DEF ScriptOrder, Scripted
    <3> HIDE DEF n, k
    <3> QED BY <1>1, <3>1
  <2>4. Script(call)[k'] = c
    <3>1. todo[1] = Script(call)[k + 1]
      BY <1>1, <2>2 DEF ScriptOrder
    <3> QED BY <1>1, <2>3, <3>1
  <2>5. \A j \in 1..Len(todo') : todo'[j] = Script(call')[k' + j]
    <3> SUFFICES ASSUME NEW j \in 1..Len(todo') PROVE todo'[j] = Script(call')[k' + j]
      OBVIOUS
    <3>1. todo'[j] = todo[j + 1] /\ j + 1 \in 1..Len(todo)
      BY <1>1
    <3>2. todo[j + 1] = Script(call)[k + (j + 1)]
      BY <2>2, <3>1 DEF ScriptOrder
    <3> HIDE DEF k, n
    <3>3. k + (j + 1) = k' + j
      BY <2>3
    <3> QED BY <2>2, <3>1, <3>2, <3>3
  <2>6. k' \in 0..n /\ k' >= 1
    <3> HIDE DEF k, n
    <3> QED BY <1>1, <2>3
  <2>7. Carried(shell.config, call, k)
    <3>1. ~Waiting
      BY <1>1 DEF Waiting, Idle
    <3> QED BY <2>2, <3>1 DEF ScriptMade
  <2>8. CASE Connects(c)
    <3>1. /\ driver' = "made" /\ awaiting' = Banner /\ answer' = Pending
          /\ agenda' = <<Do("enable"), Do("paging"), c>> /\ driver = "none"
      BY <1>4, <2>8 DEF Connects, InScript, Broken, Raised
    <3>2. k = 0 /\ k' = 1
      BY <1>1, <2>2, <2>3, <3>1 DEF ScriptOrder
    <3>3. agenda' # <<>> /\ agenda'[Len(agenda')] = c
      BY <3>1
    <3>4. Script(call)[1] = c
      BY <2>4, <3>2
    <3>5. ScriptOrder'
      <4>1. Scripted' \in 0..Len(Script(call'))
        BY <2>2, <2>6
      <4> QED BY <1>1, <2>2, <2>5, <3>1, <3>2, <3>3, <3>4, <4>1 DEF ScriptOrder
    <3>6. ~Over'
      BY <3>3 DEF Over
    <3>7. Waiting'
      BY <1>1, <3>1 DEF Waiting, Idle
    <3>8. Scripted' - 1 = 0
      BY <3>2
    <3>9. Carried(shell.config', call', 0)
      BY <1>1, <2>2, NotBegun
    <3> QED BY <3>5, <3>6, <3>7, <3>8, <3>9 DEF ScriptMade
  <2>9. CASE Sends(c)
    <3>1. driver # "none" /\ UNCHANGED <<driver, agenda, answer>> /\ awaiting' = c
      BY <2>9 DEF Sends
    <3>2. wire' # <<>>
      <4>1. wire' \in Seq(Line) /\ Len(wire) \in Nat /\ Len(wire) + 1 <= Len(wire')
        BY <2>9, SendsWire
      <4>2. Len(wire') # 0
        BY <4>1
      <4> QED BY <4>2
    <3>3. ScriptOrder'
      <4>1. Scripted' \in 0..Len(Script(call')) /\ Scripted' >= 1
        BY <2>2, <2>6
      <4>2. agenda' = <<>> /\ awaiting' = Script(call')[Scripted']
        BY <1>1, <2>2, <2>4, <3>1
      <4> QED BY <1>1, <2>5, <3>1, <4>1, <4>2 DEF ScriptOrder
    <3>4. ~Over' /\ Waiting'
      BY <1>1, <3>1, <3>2 DEF Over, Waiting, Idle
    <3>5. Scripted' - 1 = Scripted
      <4> HIDE DEF k, n
      <4>1. k' - 1 = k
        BY <2>3
      <4> QED BY <4>1 DEF k
    <3> QED BY <1>1, <2>7, <3>3, <3>4, <3>5 DEF ScriptMade
  <2> QED BY <1>2, <2>8, <2>9
<1> QED BY <1>3, <1>4 DEF ScriptInv

LEMMA ScriptUses ==
    ASSUME IInv, Typed, ScriptInv, Takes, UseOf
    PROVE  ScriptInv'
<1>1. /\ Idle' /\ answer' = Pending /\ ~Idle /\ ~Waiting /\ agenda = <<>>
      /\ UNCHANGED <<shell, wire, back, driver, agenda, torn, call>>
  BY DEF Takes
<1>2. ScriptOk'
  <2>1. answer'.is # "ended"
    BY <1>1 DEF Pending
  <2>2. stage' = "ok" => torn'
    BY <1>1, UseStage DEF ScriptInv, ScriptOk
  <2> QED BY <2>1, <2>2 DEF ScriptOk
<1>3. ASSUME InScript' PROVE ScriptOrder' /\ ScriptMade'
  <2>1. InScript /\ UNCHANGED todo
    BY <1>1, <1>3, UseStage DEF InScript, Sound, Keeps
  <2>2. ScriptOrder /\ ScriptMade /\ Scripted' = Scripted /\ Script(call') = Script(call)
    BY <1>1, <2>1 DEF ScriptInv, Scripted
  <2>3. ScriptOrder'
    BY <1>1, <2>1, <2>2 DEF ScriptOrder
  <2>4. ~Waiting'
    BY <1>1 DEF Waiting, Idle
  <2> QED BY <1>1, <2>2, <2>3, <2>4 DEF ScriptMade
<1> QED BY <1>2, <1>3 DEF ScriptInv

LEMMA ScriptTurns ==
    ASSUME IInv, Typed, ScriptInv, Turn
    PROVE  ScriptInv'
<1>1. /\ stage' # "script" /\ TurnOf
      /\ stage' = "ok" => (stage = "after" /\ Verified(call, got)) \/ stage = "script"
  BY TurnStage
<1>2. /\ Idle /\ todo = <<>> /\ ~Broken /\ answer' = Pending /\ stage \notin Resting
      /\ UNCHANGED <<shell, torn, call>>
  BY <1>1 DEF TurnOf
<1>3. ASSUME stage' = "ok", ~torn'
      PROVE  /\ call.kind # "reboot"
             /\ call.kind = "deploy" =>
                  shell.config.https /\ shell.config.certificate /\ shell.config.saved
  <2>1. CASE stage = "after"
    BY <1>2, <2>1 DEF IInv, StageFits
  <2>2. CASE stage = "script"
    <3>1. InScript /\ call \in Call /\ ~Waiting
      BY <1>2, <1>3, <2>2 DEF InScript, Sound, IInv, StageFits, Waiting, Idle
    <3> DEFINE n == Len(Script(call))
    <3>2. Scripted = n /\ n \in Nat
      <4>1. call.kind \in {"reboot", "deploy"}
        BY <1>2, <2>2 DEF IInv, StageFits
      <4>2. n \in Nat /\ Len(todo) = 0
        BY <1>2, <3>1, <4>1, ScriptTyped
      <4> QED BY <4>2 DEF Scripted
    <3>3. Carried(shell.config, call, n)
      BY <3>1, <3>2 DEF ScriptInv, ScriptMade
    <3>4. CASE call.kind = "reboot"
      <4>1. n = 1
        BY <3>1, <3>4, ScriptIs
      <4> QED BY <3>3, <3>4, <4>1 DEF Carried
    <3>5. CASE call.kind = "deploy"
      <4>1. n \in {4, 5}
        BY <3>1, <3>5, ScriptIs
      <4> HIDE DEF n
      <4>2. n >= 2 /\ n >= n - 1 /\ n >= n
        BY <4>1
      <4> QED BY <3>3, <3>5, <4>2 DEF Carried, n
    <3> QED BY <3>4, <3>5
  <2> QED BY <1>1, <1>3, <2>1, <2>2
<1> QED BY <1>1, <1>2, <1>3 DEF ScriptInv, InScript, ScriptOk, Pending

LEMMA ScriptCalls ==
    ASSUME IInv, Typed, ScriptInv,
           Invoke \/ (stage \in Resting /\ Close /\ UNCHANGED writerVars)
    PROVE  ScriptInv'
<1>1. BetweenCalls
  BY CallsInvoke, CallsClose
<1>2. /\ Idle /\ Idle' /\ UNCHANGED <<agenda, awaiting, answer, torn>> /\ agenda = <<>>
      /\ answer = Pending
  BY <1>1, AtRest DEF BetweenCalls, IInv
<1>3. /\ shell'.config = shell.config
      /\ stage' = "ok" => UNCHANGED <<stage, call>>
      /\ stage' = "script" => todo' = Script(call')
  BY CallStage
<1>4. ScriptOk'
  BY <1>2, <1>3 DEF ScriptInv, ScriptOk
<1>5. ASSUME InScript' PROVE ScriptOrder' /\ ScriptMade'
  <2>1. stage' = "script" /\ call' \in Calls
    BY <1>1, <1>5 DEF InScript, BetweenCalls, Resting
  <2>2. call' \in Call
    BY <2>1 DEF Calls
  <2>3. todo' = Script(call')
    BY <1>3, <2>1
  <2>4. call'.kind \in {"reboot", "deploy"}
    <3>1. Invoke
      <4>1. stage # "script" => (Close /\ UNCHANGED writerVars => stage' # "script")
        BY DEF writerVars
      <4>2. stage \in Resting => stage # "script"
        BY DEF Resting
      <4> QED BY <2>1, <4>1, <4>2
    <3>2. PICK c \in Calls : call' = c /\ Begin(c)
      BY <3>1 DEF Invoke
    <3>3. c.kind \notin {"reboot", "deploy"} => stage' # "script"
      BY <3>2 DEF Begin, GoTo
    <3> QED BY <2>1, <3>2, <3>3
  <2> DEFINE n == Len(Script(call'))
  <2>5. n \in Nat /\ Scripted' = 0
    <3>1. n \in Nat /\ Len(todo') = n
      BY <2>2, <2>3, <2>4, ScriptTyped
    <3> HIDE DEF n
    <3>2. n - Len(todo') = 0
      BY <3>1
    <3> QED BY <3>1, <3>2 DEF Scripted, n
  <2>6. \A j \in 1..Len(todo') : todo'[j] = Script(call')[Scripted' + j]
    <3> SUFFICES ASSUME NEW j \in 1..Len(todo') PROVE todo'[j] = Script(call')[Scripted' + j]
      OBVIOUS
    <3>1. Scripted' + j = j
      BY <2>3, <2>5
    <3> QED BY <2>3, <3>1
  <2>7. ScriptOrder'
    <3>1. Scripted' \in 0..n
      BY <2>5
    <3> QED BY <1>2, <2>5, <2>6, <3>1 DEF ScriptOrder
  <2>8. ~Waiting' /\ Carried(shell.config', call', 0)
    BY <1>2, <2>2, NotBegun DEF Waiting, Idle
  <2> QED BY <2>5, <2>7, <2>8 DEF ScriptMade
<1> QED BY <1>4, <1>5 DEF ScriptInv

LEMMA ScriptInit == Init => ScriptInv
BY DEF Init, SessionInit, ScriptInv, ScriptOk, InScript, Pending

-----------------------------------------------------------------------------
(***************************************************************************)
(* All of it together.                                                     *)
(***************************************************************************)
CallMade == stage # "idle" => call \in Calls

SuccessInv ==
    /\ DbInv /\ GlobalInv
    /\ InSync /\ AtOk /\ AllGeneral /\ PortMade /\ ReadBack
    /\ ScriptInv /\ CallMade

LEMMA CallStays ==
    ASSUME Typed, CallMade, UNCHANGED call, stage \notin Resting \/ UNCHANGED stage
    PROVE  CallMade'
BY DEF Typed, CallMade

LEMMA SuccessInit == Init => SuccessInv
<1>1. Init => CallMade
  BY DEF Init, CallMade
<1> QED BY <1>1, DbInit, GlobalInit, SyncInit, GeneralInit, PortInit, ReadBackInit, ScriptInit
        DEF SuccessInv

LEMMA SuccessExecutes ==
    ASSUME IInv, LateInv, SuccessInv, Executes, UNCHANGED writerVars
    PROVE  SuccessInv'
<1>1. /\ Typed /\ Aimed /\ StageFits
      /\ DbInv /\ GlobalInv /\ InSync /\ AtOk /\ AllGeneral /\ PortMade /\ ReadBack /\ ScriptInv
      /\ CallMade
  BY DEF LateInv, IInv, SuccessInv
<1>2. UNCHANGED <<call, stage>>
  BY DEF writerVars
<1>3. DbInv' /\ GlobalInv'
  BY <1>1, DbExecutes, GlobalExecutes
<1>4. InSync' /\ AtOk' /\ AllGeneral' /\ PortMade' /\ ReadBack'
  BY <1>1, SyncExecutes, GeneralExecutes, PortExecutes, ReadBackExecutes
<1>5. ScriptInv' /\ CallMade'
  BY <1>1, <1>2, ScriptExecutes, CallStays
<1> QED BY <1>3, <1>4, <1>5 DEF SuccessInv

LEMMA SuccessReads ==
    ASSUME IInv, LateInv, LateInv', SuccessInv, Reads, UNCHANGED writerVars
    PROVE  SuccessInv'
<1>1. /\ Typed /\ Typed' /\ Prompts /\ Attached
      /\ DbInv /\ GlobalInv /\ InSync /\ AllGeneral /\ PortMade /\ ReadBack /\ ScriptInv /\ CallMade
  BY DEF LateInv, SuccessInv
<1>2. UNCHANGED <<call, stage>>
  BY DEF writerVars
<1>3. ReadKeeps /\ \E n : ReadOf(n)
  BY <1>1, ReadsOf DEF ReadKeeps
<1>4. PICK n : ReadOf(n)
  BY <1>3
<1>5. DbInv' /\ GlobalInv'
  BY <1>1, <1>3, <1>4, DbReads, GlobalReads
<1>6. InSync' /\ AtOk' /\ PortMade' /\ ReadBack'
  BY <1>1, <1>3, <1>4, SyncReads, PortReads, ReadBackReads
<1>7. AllGeneral'
  BY <1>1, <1>3, GeneralStays DEF ReadKeeps
<1>8. ScriptInv' /\ CallMade'
  BY <1>1, <1>2, <1>3, ScriptReads, CallStays DEF Reads
<1> QED BY <1>5, <1>6, <1>7, <1>8 DEF SuccessInv

LEMMA SuccessIssues ==
    ASSUME IInv, LateInv, SuccessInv, Issue
    PROVE  SuccessInv'
<1>1. /\ Typed /\ StageFits /\ Attached /\ Descent
      /\ DbInv /\ GlobalInv /\ InSync /\ AllGeneral /\ PortMade /\ ReadBack /\ ScriptInv /\ CallMade
  BY DEF LateInv, IInv, SuccessInv
<1>2. IssueOf(todo[1])
  BY <1>1, IssuesOf
<1>3. UNCHANGED <<shell, call, stage>> /\ stage \notin Resting
  BY <1>2 DEF IssueOf
<1>4. DbInv' /\ GlobalInv'
  BY <1>1, <1>2, DbIssues, GlobalIssues
<1>5. InSync' /\ AtOk' /\ AllGeneral' /\ PortMade' /\ ReadBack'
  BY <1>1, <1>2, <1>3, SyncIssues, GeneralStays, PortIssues, ReadBackIssues
<1>6. ScriptInv' /\ CallMade'
  BY <1>1, <1>2, <1>3, ScriptIssues, CallStays
<1> QED BY <1>4, <1>5, <1>6 DEF SuccessInv

LEMMA SuccessUses ==
    ASSUME IInv, LateInv, SuccessInv, Use
    PROVE  SuccessInv'
<1>1. /\ Typed
      /\ DbInv /\ GlobalInv /\ InSync /\ AllGeneral /\ PortMade /\ ReadBack /\ ScriptInv /\ CallMade
  BY DEF LateInv, SuccessInv
<1>2. Takes /\ UseOf
  BY UsesOf
<1>3. UNCHANGED <<shell, call>> /\ stage \notin Resting
  BY <1>2 DEF Takes
<1>4. DbInv' /\ GlobalInv'
  BY <1>1, DbUses, GlobalUses
<1>5. InSync' /\ AtOk' /\ AllGeneral' /\ PortMade' /\ ReadBack'
  BY <1>1, <1>2, <1>3, SyncUses, GeneralStays, PortUses, ReadBackUses
<1>6. ScriptInv' /\ CallMade'
  BY <1>1, <1>2, <1>3, ScriptUses, CallStays
<1> QED BY <1>4, <1>5, <1>6 DEF SuccessInv

LEMMA SuccessTurns ==
    ASSUME IInv, LateInv, SuccessInv, Turn
    PROVE  SuccessInv'
<1>1. /\ Typed
      /\ DbInv /\ GlobalInv /\ InSync /\ AllGeneral /\ PortMade /\ ReadBack /\ ScriptInv /\ CallMade
  BY DEF LateInv, SuccessInv
<1>2. UNCHANGED <<shell, call>> /\ stage \notin Resting
  BY <1>1, TurnsOf DEF TurnOf
<1>3. DbInv' /\ GlobalInv'
  BY <1>1, DbTurns, GlobalTurns
<1>4. InSync' /\ AtOk' /\ AllGeneral' /\ PortMade' /\ ReadBack'
  BY <1>1, <1>2, SyncTurns, GeneralStays, PortTurns, ReadBackTurns
<1>5. ScriptInv' /\ CallMade'
  BY <1>1, <1>2, ScriptTurns, CallStays
<1> QED BY <1>3, <1>4, <1>5 DEF SuccessInv

LEMMA SuccessCalls ==
    ASSUME IInv, LateInv, SuccessInv,
           Invoke \/ (stage \in Resting /\ Close /\ UNCHANGED writerVars)
    PROVE  SuccessInv'
<1>1. /\ Typed
      /\ DbInv /\ GlobalInv /\ AtOk /\ AllGeneral /\ PortMade /\ ReadBack /\ ScriptInv /\ CallMade
  BY DEF LateInv, SuccessInv
<1>2. shell'.config = shell.config
  BY <1>1, CallStage
<1>3. CallMade'
  <2>1. CASE Invoke
    BY <2>1 DEF Invoke, CallMade
  <2>2. CASE UNCHANGED writerVars
    BY <1>1, <2>2, CallStays DEF writerVars
  <2> QED BY <2>1, <2>2
<1>4. DbInv' /\ GlobalInv'
  BY <1>1, DbCalls, GlobalCalls
<1>5. InSync' /\ AtOk' /\ AllGeneral' /\ PortMade' /\ ReadBack'
  BY <1>1, <1>2, SyncCalls, GeneralStays, PortCalls, ReadBackCalls
<1>6. ScriptInv'
  BY <1>1, ScriptCalls
<1> QED BY <1>3, <1>4, <1>5, <1>6 DEF SuccessInv

LEMMA SuccessStep == IInv /\ LateInv /\ LateInv' /\ SuccessInv /\ [Next]_vars => SuccessInv'
<1> SUFFICES ASSUME IInv, LateInv, LateInv', SuccessInv, [Next]_vars PROVE SuccessInv'
  OBVIOUS
<1>1. CASE Invoke
  BY <1>1, SuccessCalls
<1>2. CASE Issue
  BY <1>2, SuccessIssues
<1>3. CASE Use
  BY <1>3, SuccessUses
<1>4. CASE Turn
  BY <1>4, SuccessTurns
<1>5. CASE Session
  <2>1. UNCHANGED writerVars
    BY <1>5 DEF Session
  <2>2. CASE Executes
    BY <2>1, <2>2, SuccessExecutes
  <2>3. CASE Receive \/ TimesOut \/ StreamEnds
    BY <2>1, <2>3, SuccessReads DEF Reads
  <2>4. CASE stage \in Resting /\ Close
    BY <2>1, <2>4, SuccessCalls
  <2> QED BY <1>5, <2>2, <2>3, <2>4 DEF Session
<1>6. CASE UNCHANGED vars
  <2>1. UNCHANGED <<shell, wire, back, driver, agenda, awaiting, answer, torn, call, stage, todo,
                    entered, failed, got, victim>>
    BY <1>6 DEF vars, sessionVars, writerVars
  <2>2. /\ Won' = Won /\ Idle' = Idle /\ Waiting' = Waiting /\ Accepted' = Accepted
        /\ Broken' = Broken /\ Aim' = Aim
    BY <2>1 DEF Won, Idle, Waiting, Accepted, Broken, Aim
  <2>3. DbInv'
    BY <2>1, <2>2 DEF SuccessInv, DbInv, DbRuns, Pairs, Leads, Settled, Pair, Held, Inside, Changed,
                      Unsent, ExitBehind
  <2>4. GlobalInv'
    BY <2>1, <2>2 DEF SuccessInv, GlobalInv, Told, GlobalMade, Issued
  <2>5. InSync' /\ AtOk' /\ AllGeneral'
    BY <2>1, <2>2 DEF SuccessInv, InSync, AtOk, AllGeneral, Synced, Linked, Arrived, Fresh
  <2>6. PortMade'
    BY <2>1, <2>2 DEF SuccessInv, PortMade, PortBodyMade, PortLeftMade, PortLeft,
                      Issued, BodyLines
  <2>7. ReadBack'
    BY <2>1, <2>2 DEF SuccessInv, ReadBack, Seen, LastPage
  <2>8. ScriptInv'
    BY <2>1, <2>2 DEF SuccessInv, ScriptInv, ScriptOrder, ScriptMade, ScriptOk, InScript, Sound,
                      Scripted, Over, FailureIn
  <2>9. CallMade'
    BY <2>1 DEF SuccessInv, CallMade
  <2> QED BY <2>3, <2>4, <2>5, <2>6, <2>7, <2>8, <2>9 DEF SuccessInv
<1> QED BY <1>1, <1>2, <1>3, <1>4, <1>5, <1>6 DEF Next

\* What the parts say of a call that has succeeded.
LEMMA SuccessMeans == IInv /\ LateInv /\ SuccessInv => NoSilentSuccess
<1> SUFFICES ASSUME IInv, LateInv, SuccessInv, stage = "ok" PROVE Effected(shell.config, call)
  BY DEF NoSilentSuccess
<1>1. call \in Calls /\ call \in Call /\ call.kind \in Kinds /\ call.on \in BOOLEAN
  <2>1. call \in Calls
    BY DEF SuccessInv, CallMade
  <2>2. call \in Call
    BY <2>1 DEF Calls
  <2> QED BY <2>1, <2>2, CallKind
<1>2. /\ DbInv /\ GlobalInv /\ PortMade /\ ReadBack /\ ScriptInv /\ Typed
      /\ Idle /\ ~Broken
  BY DEF SuccessInv, LateInv, IInv, StageFits, SessionFits, Resting, Broken, Pending
<1>3. CASE call.kind \in {"create", "delete"}
  <2>1. Held(Aim)
    BY <1>2, <1>3 DEF DbInv, Settled, Changed, DbKinds
  <2>2. /\ Aim.vlan = call.vlan
        /\ call.kind = "create" => Aim.do = "create"
        /\ call.kind = "delete" => Aim.do = "remove"
    BY <1>3 DEF Aim, OnVlan, Do
  <2>3. CASE call.kind = "create"
    BY <2>1, <2>2, <2>3 DEF Effected, Held, PortSettings, GlobalKinds
  <2>4. CASE call.kind = "delete"
    BY <2>1, <2>2, <2>4 DEF Effected, Held, PortSettings, GlobalKinds
  <2> QED BY <1>3, <2>3, <2>4
<1>4. CASE call.kind \in PortKinds
  <2>1. PortLeft
    BY <1>2 DEF PortLeft
  <2>2. PICK row \in Nat : Does(shell.config, LastLine(call, row))
    BY <1>2, <1>4, <2>1 DEF PortMade, PortLeftMade
  <2>3. call.kind # "cycle" => Effected(shell.config, call)
    BY <1>1, <1>4, <2>2, PortDone
  <2>4. ASSUME call.kind = "cycle" PROVE Effected(shell.config, call)
    <3>1. call.port \in shell.config.reset
      BY <1>1, <1>4, <2>2, <2>4, PortDone
    <3>2. shell.config.power[call.port] = "delivering"
      BY <1>2, <2>4 DEF ReadBack, Confirmed
    <3> QED BY <2>4, <3>1, <3>2 DEF Effected, PortSettings, GlobalKinds
  <2> QED BY <2>3, <2>4
<1>5. CASE call.kind \in GlobalKinds
  <2>1. Setting(call, shell.config)
    BY <1>2, <1>5 DEF GlobalInv, GlobalMade
  <2>2. call.on = TRUE
    BY <1>1, <1>5 DEF Calls, GlobalKinds
  <2>3. shell.config.global \in [Globals -> BOOLEAN]
    BY <1>2 DEF Typed, Shell, Config
  <2>4. Setting(call, shell.config) \in BOOLEAN
    BY <1>5, <2>3 DEF Setting, GlobalKinds, Globals, PortSettings
  <2>5. Setting(call, shell.config) = call.on
    BY <2>1, <2>2, <2>4
  <2>6. Effected(shell.config, call) <=> Setting(call, shell.config) = call.on
    BY <1>5 DEF Effected, GlobalKinds, PortSettings
  <2> QED BY <2>5, <2>6
<1>6. CASE call.kind \in HostKinds
  <2>1. Confirmed(shell.config, call)
    BY <1>2 DEF ReadBack
  <2>2. CASE call.kind = "collect"
    BY <2>1, <2>2 DEF Confirmed, Effected, PortSettings, GlobalKinds
  <2>3. CASE call.kind = "uncollect"
    BY <2>1, <2>3 DEF Confirmed, Effected, PortSettings, GlobalKinds
  <2> QED BY <1>6, <2>2, <2>3 DEF HostKinds
<1>7. CASE call.kind = "deploy"
  <2>1. torn \/ (shell.config.https /\ shell.config.certificate /\ shell.config.saved)
    BY <1>2, <1>7 DEF ScriptInv, ScriptOk
  <2> QED BY <1>7, <2>1 DEF Effected, PortSettings, GlobalKinds
<1>8. CASE call.kind = "reboot"
  <2>1. torn
    BY <1>2, <1>8 DEF ScriptInv, ScriptOk
  <2> QED BY <1>8, <2>1 DEF Effected, PortSettings, GlobalKinds
<1> QED BY <1>1, <1>3, <1>4, <1>5, <1>6, <1>7, <1>8 DEF Kinds, VlanKinds, PortKinds

(***************************************************************************)
(* A call of CliWriter that returns has done what it was asked, for every  *)
(* switch, every order of calls and any number of timeouts before it.      *)
(***************************************************************************)
THEOREM NoSilentSuccessProved == Spec => []NoSilentSuccess
<1>1. Init => SuccessInv
  BY SuccessInit
<1>2. IInv /\ LateInv /\ LateInv' /\ SuccessInv /\ [Next]_vars => SuccessInv'
  BY SuccessStep
<1>3. IInv /\ LateInv /\ SuccessInv => NoSilentSuccess
  BY SuccessMeans
<1> QED BY <1>1, <1>2, <1>3, LateInvariant, PTL DEF Spec
-----------------------------------------------------------------------------
(***************************************************************************)
(* The collectors.  A row that a call removes is the one it has read, or   *)
(* the host it names is no longer there: between the page that a call      *)
(* reads, however old, and the removal, no new collector takes the number  *)
(* of a row that the page shows.  For a collector is added only behind an  *)
(* acceptance, and from then on nothing can be removed before it.          *)
(***************************************************************************)
\* The call has been accepted and its collector is not yet on its way.
Admitted ==
    /\ call.kind = "collect"
    /\ \/ stage = "enter" /\ (Won = 1 \/ entered = 1)
       \/ stage = "body" /\ todo # <<>>

Adding == \E k \in 1..Len(wire) : wire[k].do = "addHost"

IsPage(x) == x.says = "table"

\* A row that a page shows is the same, if there is one of its number.
Agrees(rows) == \A q \in rows, r \in shell.config.rows : q.row = r.row => q = r

\* There is still a row of each number that a page shows.
Live(rows) == \A q \in rows : q.row \in Rows(shell.config)

Removing == call.kind = "uncollect" /\ stage \in {"enter", "body"}

\* Between two lines about collectors on the wire there is an exit.
HostRuns ==
    /\ \A k, l \in 1..Len(wire) : k < l /\ wire[k].do \in HostDos /\ wire[l].do \in HostDos =>
         \E j \in (k + 1)..(l - 1) : wire[j].do = "exit"
    /\ stage = "body" /\ call.kind \in HostKinds /\ todo # <<>> =>
         \A k \in 1..Len(wire) : wire[k].do \in HostDos => ExitBehind(k)

Unshifted ==
    /\ \A i \in 1..Len(back) : IsPage(back[i]) => Agrees(back[i].at.rows)
    /\ \A i \in 1..Len(answer.texts) : IsPage(answer.texts[i]) => Agrees(answer.texts[i].at.rows)
    /\ Agrees(got.rows)
    /\ Removing => \A r \in shell.config.rows : r.row = victim => r.host = call.host
    /\ \A k \in 1..Len(wire) : wire[k].do = "removeHost" =>
         \A r \in shell.config.rows : r.row = wire[k].row => r.host \in named

Upheld ==
    /\ \A i, j \in 1..Len(back) : i < j /\ Okay(back[i]) /\ IsPage(back[j]) => Live(back[j].at.rows)
    /\ Admitted \/ Adding => \A i \in 1..Len(back) : IsPage(back[i]) => Live(back[i].at.rows)
    /\ Adding =>
         /\ \A i \in 1..Len(answer.texts) : IsPage(answer.texts[i]) => Live(answer.texts[i].at.rows)
         /\ Live(got.rows)
         /\ Removing => victim \in Rows(shell.config)

Named ==
    /\ call.kind = "uncollect" /\ stage \notin Resting => call.host \in named
    /\ stage \in Deep => got.rows = {}
    /\ stage = "pvids" => call.kind = "pvid"

RowsInv == HostRuns /\ Unshifted /\ Upheld /\ Named

\* What a line makes of the collectors.
LEMMA RowsOf ==
    ASSUME NEW s \in Shell, FitConfig(s.config), NEW c \in Line, NEW t, NEW out,
           Outcome(s, c, t, out), c.do \in InterfaceCommands => s.port \in Port
    PROVE  \/ t.config.rows = s.config.rows
           \/ /\ c.do = "addHost" /\ s.modes = <<"config">>
              /\ t.config.rows = s.config.rows \cup {[row |-> NextRow(s.config), host |-> c.host]}
           \/ /\ c.do = "removeHost" /\ s.modes = <<"config">>
              /\ t.config.rows = {r \in s.config.rows : r.row # c.row}
<1> DEFINE f == s.config
<1>0. /\ \A a : [f EXCEPT !.certificate = a].rows = f.rows /\ [f EXCEPT !.saved = a].rows = f.rows
      /\ \A a : [f EXCEPT !.lag = a].rows = f.rows /\ [f EXCEPT !.https = a].rows = f.rows
      /\ f \in Config
  BY DEF FitConfig, Config
<1>1. CASE Works(s, c, t, out)
  <2>1. CASE c.do \in DatabaseCommands
    BY <1>1, <2>1, DatabaseFits DEF Works
  <2>2. CASE c.do \in InterfaceCommands
    BY <1>1, <2>2, InterfaceFits DEF Works
  <2>3. CASE c.do \in GlobalCommands
    <3>1. t.config = GlobalEffect(f, c) /\ (c.do \notin {"address", "gateway"} => s.modes = <<"config">>)
      BY <1>1, <2>3 DEF Works
    <3>2. CASE c.do = "addHost"
      <4> DEFINE R == f.rows \cup {[row |-> NextRow(f), host |-> c.host]}
      <4>1. t.config = [f EXCEPT !.rows = R]
        BY <3>1, <3>2 DEF GlobalEffect, Globals
      <4> HIDE DEF R
      <4>2. t.config.rows = R
        BY <1>0, <4>1 DEF Config
      <4> QED BY <3>1, <3>2, <4>2 DEF R
    <3>3. CASE c.do = "removeHost"
      <4> DEFINE R == {r \in f.rows : r.row # c.row}
      <4>1. t.config = [f EXCEPT !.rows = R]
        BY <3>1, <3>3 DEF GlobalEffect, Globals
      <4> HIDE DEF R
      <4>2. t.config.rows = R
        BY <1>0, <4>1 DEF Config
      <4> QED BY <3>1, <3>3, <4>2 DEF R
    <3>4. CASE c.do \notin HostDos
      <4>1. c.do \in Globals
        BY <2>3, <3>4 DEF GlobalCommands, HostDos
      <4>2. t.config.rows = f.rows
        BY <1>0, <3>1, <4>1 DEF GlobalEffect, Globals, Config
      <4> QED BY <4>2
    <3> QED BY <3>2, <3>3, <3>4 DEF HostDos
  <2> QED BY <1>1, <2>1, <2>2, <2>3 DEF Works, BodyDos
<1>2. CASE ~Works(s, c, t, out)
  <2>1. CASE Resolves(s, t, out)
    BY <1>0, <2>1 DEF Resolves
  <2>2. CASE Refuses(s, c, t, out) \/ Queries(s, c, t, out) \/ Descends(s, c, t, out)
             \/ Climbs(s, c, t, out)
    BY <2>2 DEF Refuses, Queries, Descends, Climbs
  <2>3. CASE Looks(s, c, t, out)
    BY <1>0, <2>3 DEF Looks
  <2>4. CASE Passes(s, c, t, out)
    BY <1>0, <2>4 DEF Passes
  <2> QED BY <1>2, <2>1, <2>2, <2>3, <2>4 DEF Outcome
<1> QED BY <1>1, <1>2

\* A call for a collector that is about to enter, or in the body.
LEMMA HostCall ==
    ASSUME Typed, StageFits, Descent, call.kind \in HostKinds
    PROVE  /\ stage = "enter" /\ entered = 1 => Idle
           /\ stage = "enter" /\ Idle /\ todo = <<>> => entered = 1
           /\ stage = "enter" /\ ~Idle => entered = 0 /\ awaiting.do = "configure"
           /\ stage = "body" => entered = 1 /\ (todo # <<>> => Idle)
           /\ stage = "body" /\ todo # <<>> => Len(todo) = 1
<1>1. ASSUME stage \in {"enter", "body"}
      PROVE  call \in Call /\ call.kind \notin {"reboot", "deploy"} /\ victim \in Nat
  BY <1>1, DeepCall DEF Resting
<1>2. stage \in {"enter", "body"} => EnterCommands(call) = <<Do("configure")>>
  BY <1>1, EnterIs
<1>3. Len(<<Do("configure")>>) = 1 /\ <<Do("configure")>>[1] = Do("configure")
      /\ Do("configure").do = "configure"
  BY DoIs
<1>4. Len(todo) \in Nat /\ (todo = <<>> <=> Len(todo) = 0)
  BY EmptySeq DEF Typed
<1>5. ASSUME stage = "enter"
      PROVE  /\ entered = 1 => Idle
             /\ Idle /\ todo = <<>> => entered = 1
             /\ ~Idle => entered = 0 /\ awaiting.do = "configure"
  <2>1. Len(EnterCommands(call)) = 1 /\ EnterCommands(call)[1] = Do("configure")
    BY <1>2, <1>3, <1>5
  <2>2. /\ 1 - Len(todo) \in 0..1
        /\ Idle => entered = 1 - Len(todo)
        /\ ~Idle => 1 - Len(todo) >= 1 /\ entered = (1 - Len(todo)) - 1
                      /\ awaiting = EnterCommands(call)[1 - Len(todo)]
    BY <1>5, <2>1 DEF Descent
  <2>3. ~Idle => 1 - Len(todo) = 1
    BY <1>4, <2>2
  <2> QED BY <1>3, <1>4, <2>1, <2>2, <2>3
<1>6. ASSUME stage = "body"
      PROVE  entered = 1 /\ (todo # <<>> => Idle /\ Len(todo) = 1)
  <2>1. Len(BodyCommands(call, victim)) = 1
    <3>1. \A x : Len(<<x>>) = 1
      OBVIOUS
    <3>2. call.kind = "collect" \/ call.kind = "uncollect"
      BY DEF HostKinds
    <3> QED BY <3>1, <3>2 DEF BodyCommands, PortSettings
  <2>2. /\ 1 - Len(todo) \in 0..1
        /\ entered = Len(EnterCommands(call))
        /\ ~Idle => 1 - Len(todo) >= 1
    BY <1>6, <2>1 DEF Descent
  <2>3. entered = 1
    BY <1>2, <1>3, <1>6, <2>2
  <2> QED BY <1>4, <2>2, <2>3
<1> QED BY <1>5, <1>6

\* A line about a collector that the switch obeys: nothing else is accepted or owed.
LEMMA HostTaken ==
    ASSUME Typed, Aimed, StageFits, Descent, Credit, Owned, HostRuns, Executes,
           wire[1].do \in HostDos, shell.modes = <<"config">>
    PROVE  /\ \A i \in 1..Len(back) : ~Okay(back[i])
           /\ ~Admitted
           /\ \A k \in 2..Len(wire) : wire[k].do \notin HostDos
<1>1. entered \in Nat /\ Len(shell.modes) = 1 /\ wire[1].do \in InnerDos
  BY DEF StageFits, HostDos, InnerDos
<1>2. /\ Cardinality(Oks) = 0 /\ Won = 0
      /\ stage \in {"enter", "body"} /\ entered = 1 => Mine(1)
  BY <1>1, InnerTaken
<1>3. /\ Owed \in Nat /\ Cardinality(Outs) \in Nat
      /\ Cardinality(Oks) + Won + Cardinality(Outs) + Owed <= 1
      /\ (\E k \in 1..Len(wire) : wire[k].do = "exit") => Cardinality(Outs) >= 1
      /\ (\E i \in 1..Len(back) : Okay(back[i])) => Cardinality(Oks) >= 1
  BY <1>1, CreditFacts
<1>4. wire # <<>> /\ wire \in Seq(Line) /\ Len(wire) \in Nat /\ 1 \in 1..Len(wire)
  <2>1. wire # <<>> /\ wire \in Seq(Line)
    BY ExecOf DEF Typed
  <2> QED BY <2>1, Rest
<1>5. \A i \in 1..Len(back) : ~Okay(back[i])
  BY <1>2, <1>3
<1>6. ~Admitted
  <2> SUFFICES ASSUME Admitted PROVE FALSE
    OBVIOUS
  <2>1. call.kind \in HostKinds
    BY DEF Admitted, HostKinds
  <2>2. stage \in {"enter", "body"} /\ entered = 1 /\ Idle
    BY <1>2, <2>1, HostCall DEF Admitted
  <2>3. wire[1].do \notin DatabaseCommands
    BY DEF HostDos, DatabaseCommands
  <2>4. wire[1] = awaiting
    BY <1>2, <2>2, <2>3 DEF Mine
  <2>5. awaiting.do = "none"
    BY <2>2, DoIs DEF Idle, NoLine
  <2> QED BY <2>4, <2>5 DEF HostDos
<1>7. ASSUME NEW k \in 2..Len(wire), wire[k].do \in HostDos
      PROVE  FALSE
  <2>1. k \in 1..Len(wire) /\ 1 < k
    BY <1>4
  <2>2. PICK j \in (1 + 1)..(k - 1) : wire[j].do = "exit"
    BY <1>4, <1>7, <2>1 DEF HostRuns
  <2>3. j \in Outs /\ j < k
    BY <1>4, <2>1, <2>2 DEF Outs
  <2>4. Cardinality(Outs) >= 1 /\ Owed = 0
    <3>1. \E l \in 1..Len(wire) : wire[l].do = "exit"
      BY <2>3 DEF Outs
    <3>2. Cardinality(Outs) >= 1
      BY <1>3, <3>1
    <3> QED BY <1>2, <1>3, <3>2
  <2>5. ExitBehind(k) \/ Mine(k) \/ (stage = "unwind" /\ Idle /\ todo # <<>>)
    BY <1>7, <2>1 DEF Owned, TiedDos, HostDos, InnerDos
  <2>6. CASE ExitBehind(k)
    <3>1. PICK i \in (k + 1)..Len(wire) : wire[i].do = "exit"
      BY <2>6 DEF ExitBehind
    <3>2. i \in Outs /\ i # j
      BY <2>1, <2>3, <3>1 DEF Outs
    <3>3. IsFiniteSet(Outs)
      BY <1>4, CountType DEF Outs
    <3>4. Cardinality(Outs) >= 2
      BY <2>3, <3>2, <3>3, CountSome
    <3> QED BY <1>2, <1>3, <3>4
  <2>7. CASE Mine(k)
    <3>1. entered = 1 /\ stage \in {"enter", "body"}
      BY <2>7 DEF Mine
    <3> QED BY <2>4, <3>1 DEF Owed
  <2>8. CASE stage = "unwind" /\ Idle /\ todo # <<>>
    <3>1. Len(todo) \in Nat /\ Len(todo) >= 1
      BY <2>8, EmptySeq DEF Typed
    <3> QED BY <2>4, <2>8, <3>1 DEF Owed
  <2> QED BY <2>5, <2>6, <2>7, <2>8
<1> QED BY <1>5, <1>6, <1>7

-----------------------------------------------------------------------------
(***************************************************************************)
(* Executing.                                                              *)
(***************************************************************************)
LEMMA HostRunsExecutes ==
    ASSUME Typed, Aimed, HostRuns, Executes, UNCHANGED writerVars
    PROVE  HostRuns'
<1>1. /\ wire \in Seq(Line) /\ wire # <<>> /\ (wire' = <<>> \/ wire' = Tail(wire))
      /\ UNCHANGED <<call, stage, todo>>
  BY ExecOf DEF Typed, writerVars
<1>2. /\ Len(wire) \in Nat /\ Len(wire') \in Nat
      /\ \A k \in 1..Len(wire') :
           wire'[k] = wire[k + 1] /\ k + 1 \in 1..Len(wire) /\ k \in Nat /\ Len(wire) = Len(wire') + 1
  BY <1>1, ExecWire
<1>3. ASSUME NEW k \in 1..Len(wire'), NEW l \in 1..Len(wire'), k < l,
             wire'[k].do \in HostDos, wire'[l].do \in HostDos
      PROVE  \E j \in (k + 1)..(l - 1) : wire'[j].do = "exit"
  <2>1. k + 1 \in 1..Len(wire) /\ l + 1 \in 1..Len(wire) /\ k + 1 < l + 1
        /\ wire[k + 1].do \in HostDos /\ wire[l + 1].do \in HostDos
    BY <1>2, <1>3
  <2>2. PICK j \in ((k + 1) + 1)..((l + 1) - 1) : wire[j].do = "exit"
    BY <2>1 DEF HostRuns
  <2>3. j - 1 \in (k + 1)..(l - 1) /\ j - 1 \in 1..Len(wire') /\ (j - 1) + 1 = j
    BY <1>2, <2>2
  <2>4. wire'[j - 1].do = "exit"
    BY <1>2, <2>2, <2>3
  <2> QED BY <2>3, <2>4
<1>4. ASSUME stage = "body", call.kind \in HostKinds, todo # <<>>, NEW k \in 1..Len(wire'),
             wire'[k].do \in HostDos
      PROVE  ExitBehind(k)'
  <2>1. k + 1 \in 1..Len(wire) /\ wire[k + 1].do \in HostDos
    BY <1>2, <1>4
  <2>2. ExitBehind(k + 1)
    BY <1>4, <2>1 DEF HostRuns
  <2>3. PICK j \in ((k + 1) + 1)..Len(wire) : wire[j].do = "exit"
    BY <2>2 DEF ExitBehind
  <2>4. j - 1 \in (k + 1)..Len(wire') /\ j - 1 \in 1..Len(wire') /\ (j - 1) + 1 = j
    BY <1>2, <2>3
  <2>5. wire'[j - 1].do = "exit"
    BY <1>2, <2>3, <2>4
  <2> QED BY <2>4, <2>5 DEF ExitBehind
<1> QED BY <1>1, <1>3, <1>4 DEF HostRuns

\* What a step of the switch makes of the collectors, and the pages it prints.
RowsMove ==
    \/ shell'.config.rows = shell.config.rows
    \/ /\ wire[1].do = "addHost" /\ shell.modes = <<"config">>
       /\ shell'.config.rows =
            shell.config.rows \cup {[row |-> NextRow(shell.config), host |-> wire[1].host]}
    \/ /\ wire[1].do = "removeHost" /\ shell.modes = <<"config">>
       /\ shell'.config.rows = {r \in shell.config.rows : r.row # wire[1].row}

LEMMA RowsMoved ==
    ASSUME Typed, Aimed, Executes
    PROVE  /\ RowsMove /\ FitConfig(shell.config)
           /\ \A i \in 1..Len(back') : i \notin 1..Len(back) /\ IsPage(back'[i]) =>
                back'[i].at.rows = shell.config.rows /\ shell'.config.rows = shell.config.rows
<1>1. /\ wire[1] \in Line /\ back \in Seq(Chunk) /\ shell \in Shell
      /\ wire[1].do \in InterfaceCommands => shell.port = wire[1].port
  BY ExecOf DEF Typed
<1>2. PICK out \in Seq(Chunk) : Outcome(shell, wire[1], shell', out) /\ back' = back \o out
  BY ExecOf
<1>3. FitConfig(shell.config)
  BY <1>1 DEF Typed, FitConfig, Shell
<1>4. wire[1].do \in InterfaceCommands => shell.port \in Port
  BY <1>1 DEF Line
<1>5. RowsMove
  BY <1>1, <1>2, <1>3, <1>4, RowsOf DEF RowsMove
<1>6. /\ Len(back') = Len(back) + Len(out) /\ Len(back) \in Nat /\ Len(out) \in Nat
      /\ \A i \in 1..Len(out) : back'[Len(back) + i] = out[i]
  BY <1>1, <1>2, Joined
<1>7. ASSUME NEW i \in 1..Len(back'), i \notin 1..Len(back), IsPage(back'[i])
      PROVE  back'[i].at.rows = shell.config.rows /\ shell'.config.rows = shell.config.rows
  <2>1. i - Len(back) \in 1..Len(out) /\ Len(back) + (i - Len(back)) = i
    BY <1>6, <1>7
  <2>2. out[i - Len(back)] = back'[i] /\ out[i - Len(back)].says = "table"
    BY <1>6, <1>7, <2>1 DEF IsPage
  <2>3. /\ i - Len(back) = 1 /\ wire[1].do \in Shows
        /\ out = <<Page(shell, wire[1]), Prompt>>
    BY <1>2, <2>1, <2>2, TablePrinted
  <2>4. back'[i] = Page(shell, wire[1])
    BY <2>2, <2>3
  <2>5. back'[i].at.rows = shell.config.rows
    BY <2>4, PageIs
  <2>6. wire[1].do \notin HostDos
    BY <2>3 DEF Shows, HostDos
  <2> QED BY <1>5, <2>5, <2>6 DEF RowsMove, HostDos
<1> QED BY <1>3, <1>5, <1>7

\* A page stays true of the numbers it shows; they stay taken unless a row goes.
LEMMA RowsKept ==
    ASSUME RowsMove, FitConfig(shell.config), NEW R
    PROVE  /\ Agrees(R) /\ (wire[1].do = "addHost" => Live(R)) => Agrees(R)'
           /\ Live(R) /\ ~(wire[1].do = "removeHost" /\ shell.modes = <<"config">>) => Live(R)'
<1>1. CASE shell'.config.rows = shell.config.rows
  BY <1>1 DEF Agrees, Live, Rows
<1>2. CASE /\ wire[1].do = "addHost" /\ shell.modes = <<"config">>
           /\ shell'.config.rows =
                shell.config.rows \cup {[row |-> NextRow(shell.config), host |-> wire[1].host]}
  <2> DEFINE x == [row |-> NextRow(shell.config), host |-> wire[1].host]
  <2>1. \A r \in shell'.config.rows : r \in shell.config.rows \/ r = x
    BY <1>2
  <2>2. x.row = NextRow(shell.config)
    OBVIOUS
  <2>3. \A r \in shell.config.rows : r.row # NextRow(shell.config)
    BY NextRowFresh
  <2>4. \A r \in shell.config.rows : r \in shell'.config.rows
    BY <1>2
  <2> HIDE DEF x
  <2>5. ASSUME Agrees(R), Live(R), NEW q \in R, NEW r \in shell'.config.rows, q.row = r.row
        PROVE  q = r
    <3>1. q.row \in Rows(shell.config)
      BY <2>5 DEF Live
    <3>2. q.row # NextRow(shell.config)
      BY <2>3, <3>1 DEF Rows
    <3>3. r \in shell.config.rows
      BY <2>1, <2>2, <2>5, <3>2
    <3> QED BY <2>5, <3>3 DEF Agrees
  <2>6. Live(R) => Live(R)'
    BY <2>4 DEF Live, Rows
  <2> QED BY <1>2, <2>5, <2>6 DEF Agrees
<1>3. CASE /\ wire[1].do = "removeHost" /\ shell.modes = <<"config">>
           /\ shell'.config.rows = {r \in shell.config.rows : r.row # wire[1].row}
  <2>1. \A r \in shell'.config.rows : r \in shell.config.rows
    BY <1>3
  <2> QED BY <1>3, <2>1 DEF Agrees
<1> QED BY <1>1, <1>2, <1>3 DEF RowsMove

LEMMA UnshiftedExecutes ==
    ASSUME Typed, Aimed, StageFits, Descent, Credit, Owned, HostRuns, Unshifted, Upheld, Executes,
           UNCHANGED writerVars
    PROVE  Unshifted'
<1>1. /\ wire \in Seq(Line) /\ wire # <<>> /\ Len(wire) \in Nat
      /\ \A k \in 1..Len(wire') : \E l \in 2..Len(wire) : wire'[k] = wire[l]
      /\ Len(back) \in Nat /\ Len(back') \in Nat
      /\ \A i \in 1..Len(back) : back'[i] = back[i]
      /\ UNCHANGED <<stage, entered, call, todo, victim, answer>>
  BY ExecEnds
<1>2. UNCHANGED <<got, named>>
  BY DEF writerVars
<1>3. /\ RowsMove /\ FitConfig(shell.config)
      /\ \A i \in 1..Len(back') : i \notin 1..Len(back) /\ IsPage(back'[i]) =>
           back'[i].at.rows = shell.config.rows /\ shell'.config.rows = shell.config.rows
  BY RowsMoved
<1>4. 1 \in 1..Len(wire) /\ wire[1].do = "addHost" => Adding
  BY <1>1, EmptySeq DEF Adding
<1>5. 1 \in 1..Len(wire)
  BY <1>1, EmptySeq
<1>6. ASSUME NEW i \in 1..Len(back'), IsPage(back'[i])
      PROVE  \A q \in back'[i].at.rows, r \in shell'.config.rows : q.row = r.row => q = r
  <2>1. CASE i \in 1..Len(back)
    <3> DEFINE R == back[i].at.rows
    <3>1. IsPage(back[i]) /\ back'[i].at.rows = R
      BY <1>1, <1>6, <2>1
    <3>2. Agrees(R) /\ (wire[1].do = "addHost" => Live(R))
      BY <1>4, <1>5, <2>1, <3>1 DEF Unshifted, Upheld
    <3> HIDE DEF R
    <3>3. \A S : Agrees(S) /\ (wire[1].do = "addHost" => Live(S)) =>
            \A q \in S, r \in shell'.config.rows : q.row = r.row => q = r
      BY <1>3, RowsKept DEF Agrees
    <3>4. \A q \in R, r \in shell'.config.rows : q.row = r.row => q = r
      BY <3>2, <3>3
    <3> QED BY <3>1, <3>4
  <2>2. CASE i \notin 1..Len(back)
    <3>1. back'[i].at.rows = shell'.config.rows /\ Uniform(shell'.config.rows)
      BY <1>3, <1>6, <2>2 DEF FitConfig
    <3> QED BY <3>1 DEF Uniform
  <2> QED BY <2>1, <2>2
<1>7. \A S : Agrees(S) /\ (wire[1].do = "addHost" => Live(S)) =>
            \A q \in S, r \in shell'.config.rows : q.row = r.row => q = r
  BY <1>3, RowsKept DEF Agrees
<1>8. ASSUME NEW i \in 1..Len(answer.texts), IsPage(answer.texts[i])
      PROVE  \A q \in answer.texts[i].at.rows, r \in shell'.config.rows : q.row = r.row => q = r
  <2>1. Agrees(answer.texts[i].at.rows) /\ (wire[1].do = "addHost" => Live(answer.texts[i].at.rows))
    BY <1>4, <1>5, <1>8 DEF Unshifted, Upheld
  <2> QED BY <1>7, <2>1
<1>9. \A q \in got.rows, r \in shell'.config.rows : q.row = r.row => q = r
  <2>1. Agrees(got.rows) /\ (wire[1].do = "addHost" => Live(got.rows))
    BY <1>4, <1>5 DEF Unshifted, Upheld
  <2> QED BY <1>7, <2>1
<1>10. ASSUME Removing, NEW r \in shell'.config.rows, r.row = victim
       PROVE  r.host = call.host
  <2>1. CASE r \in shell.config.rows
    BY <1>10, <2>1 DEF Unshifted
  <2>2. CASE r \notin shell.config.rows
    <3> DEFINE x == [row |-> NextRow(shell.config), host |-> wire[1].host]
    <3>1. wire[1].do = "addHost" /\ r = x
      BY <1>3, <1>10, <2>2 DEF RowsMove
    <3>2. r.row = NextRow(shell.config)
      BY <3>1
    <3>3. victim \in Rows(shell.config)
      BY <1>4, <1>5, <1>10, <3>1 DEF Upheld
    <3> QED BY <1>3, <1>10, <3>2, <3>3, NextRowFresh DEF Rows
  <2> QED BY <2>1, <2>2
<1>11. ASSUME NEW k \in 1..Len(wire'), wire'[k].do = "removeHost",
              NEW r \in shell'.config.rows, r.row = wire'[k].row
       PROVE  r.host \in named
  <2>1. PICK l \in 2..Len(wire) : wire'[k] = wire[l]
    BY <1>1, <1>11
  <2>2. l \in 1..Len(wire) /\ wire[l].do = "removeHost" /\ r.row = wire[l].row
    BY <1>1, <1>11, <2>1
  <2>3. CASE r \in shell.config.rows
    BY <2>2, <2>3 DEF Unshifted
  <2>4. CASE r \notin shell.config.rows
    <3>1. wire[1].do \in HostDos /\ shell.modes = <<"config">>
      BY <1>3, <1>11, <2>4 DEF RowsMove, HostDos
    <3>2. wire[l].do \notin HostDos
      BY <2>1, <3>1, HostTaken
    <3> QED BY <2>2, <3>2 DEF HostDos
  <2> QED BY <2>3, <2>4
<1>12. Removing' <=> Removing
  BY <1>1 DEF Removing
<1> QED BY <1>1, <1>2, <1>6, <1>8, <1>9, <1>10, <1>11, <1>12 DEF Unshifted, Agrees

LEMMA UpheldExecutes ==
    ASSUME Typed, Aimed, StageFits, Descent, Credit, Owned, HostRuns, Upheld, Executes,
           UNCHANGED writerVars
    PROVE  Upheld'
<1>1. /\ wire \in Seq(Line) /\ wire # <<>> /\ Len(wire) \in Nat
      /\ \A k \in 1..Len(wire') : \E l \in 2..Len(wire) : wire'[k] = wire[l]
      /\ Len(back) \in Nat /\ Len(back') \in Nat
      /\ \A i \in 1..Len(back) : back'[i] = back[i]
      /\ UNCHANGED <<stage, entered, call, todo, victim, answer>> /\ Won' = Won
  BY ExecEnds
<1>2. UNCHANGED <<got, named>>
  BY DEF writerVars
<1>3. /\ RowsMove /\ FitConfig(shell.config)
      /\ \A i \in 1..Len(back') : i \notin 1..Len(back) /\ IsPage(back'[i]) =>
           back'[i].at.rows = shell.config.rows /\ shell'.config.rows = shell.config.rows
  BY RowsMoved
<1> DEFINE gone == wire[1].do = "removeHost" /\ shell.modes = <<"config">>
           live(S) == \A q \in S : q.row \in Rows(shell'.config)
<1>4. gone => /\ \A i \in 1..Len(back) : ~Okay(back[i])
              /\ ~Admitted /\ \A k \in 2..Len(wire) : wire[k].do \notin HostDos
  BY HostTaken DEF HostDos
<1>5. /\ Adding' => Adding /\ ~gone
      /\ Admitted' => Admitted /\ ~gone
      /\ Removing' => Removing
  <2>1. Adding' => \E l \in 2..Len(wire) : wire[l].do = "addHost"
    BY <1>1 DEF Adding
  <2>2. \A l \in 2..Len(wire) : l \in 1..Len(wire)
    BY <1>1
  <2>3. Adding' => Adding /\ ~gone
    BY <1>4, <2>1, <2>2 DEF Adding, HostDos
  <2>4. (Admitted' <=> Admitted) /\ (Removing' <=> Removing)
    BY <1>1 DEF Admitted, Removing
  <2> QED BY <1>4, <2>3, <2>4
<1>6. \A S : Live(S) /\ ~gone => live(S)
  BY <1>3, RowsKept DEF Live
<1>7. \A i \in 1..Len(back') : i \notin 1..Len(back) /\ IsPage(back'[i]) => live(back'[i].at.rows)
  BY <1>3 DEF Rows
<1>8. victim \in Rows(shell.config) /\ ~gone => victim \in Rows(shell'.config)
  <2>1. ~gone => \A r \in shell.config.rows : r \in shell'.config.rows
    BY <1>3 DEF RowsMove
  <2> QED BY <2>1 DEF Rows
<1>9. ASSUME NEW i \in 1..Len(back'), NEW j \in 1..Len(back'), i < j, Okay(back'[i]), IsPage(back'[j])
      PROVE  live(back'[j].at.rows)
  <2>1. CASE j \in 1..Len(back)
    <3>1. i \in 1..Len(back) /\ back'[i] = back[i] /\ back'[j] = back[j]
      BY <1>1, <1>9, <2>1
    <3>2. Live(back'[j].at.rows) /\ ~gone
      BY <1>4, <1>9, <2>1, <3>1 DEF Upheld
    <3> QED BY <1>6, <3>2
  <2> QED BY <1>7, <1>9, <2>1
<1>10. ASSUME (Admitted \/ Adding) /\ ~gone, NEW i \in 1..Len(back'), IsPage(back'[i])
       PROVE  live(back'[i].at.rows)
  <2>1. CASE i \in 1..Len(back)
    <3>1. back'[i] = back[i]
      BY <1>1, <2>1
    <3>2. Live(back'[i].at.rows)
      BY <1>10, <2>1, <3>1 DEF Upheld
    <3> QED BY <1>6, <1>10, <3>2
  <2> QED BY <1>7, <1>10, <2>1
<1>11. ASSUME Adding, ~gone
       PROVE  /\ \A i \in 1..Len(answer.texts) : IsPage(answer.texts[i]) => live(answer.texts[i].at.rows)
              /\ live(got.rows)
              /\ Removing => victim \in Rows(shell'.config)
  BY <1>6, <1>8, <1>11 DEF Upheld
<1> HIDE DEF gone
<1> QED BY <1>1, <1>2, <1>5, <1>9, <1>10, <1>11 DEF Upheld, Live

-----------------------------------------------------------------------------
(***************************************************************************)
(* Reading.                                                                *)
(***************************************************************************)
LEMMA HostRunsReads ==
    ASSUME Typed, HostRuns, ReadKeeps, NEW n, ReadOf(n)
    PROVE  HostRuns'
<1>1. UNCHANGED <<stage, call, todo>>
  BY DEF ReadKeeps, writerVars
<1>2. /\ Len(wire') \in Nat /\ Len(wire) \in Nat /\ Len(wire) <= Len(wire')
      /\ \A k \in 1..Len(wire) : wire'[k] = wire[k] /\ k \in 1..Len(wire')
      /\ \A k \in 1..Len(wire') : k \notin 1..Len(wire) => wire'[k].do \in Harmless
      /\ stage \in Deep => wire' = wire
  BY ReadEnds
<1>3. ASSUME NEW k \in 1..Len(wire'), NEW l \in 1..Len(wire'), k < l,
             wire'[k].do \in HostDos, wire'[l].do \in HostDos
      PROVE  \E j \in (k + 1)..(l - 1) : wire'[j].do = "exit"
  <2>1. wire'[l].do \notin Harmless
    BY <1>3 DEF Harmless, Shows, ExecCommands, SetupCommands, HostDos
  <2>2. l \in 1..Len(wire) /\ k \in 1..Len(wire)
    BY <1>2, <1>3, <2>1
  <2>3. wire'[l] = wire[l] /\ wire'[k] = wire[k]
    BY <1>2, <2>2
  <2>4. PICK j \in (k + 1)..(l - 1) : wire[j].do = "exit"
    BY <1>3, <2>2, <2>3 DEF HostRuns
  <2>5. j \in 1..Len(wire)
    BY <1>2, <2>2
  <2> QED BY <1>2, <2>4, <2>5
<1>4. ASSUME stage' = "body", call'.kind \in HostKinds, todo' # <<>>, NEW k \in 1..Len(wire'),
             wire'[k].do \in HostDos
      PROVE  ExitBehind(k)'
  <2>1. wire' = wire
    BY <1>1, <1>2, <1>4 DEF Deep
  <2> QED BY <1>1, <1>4, <2>1 DEF HostRuns, ExitBehind
<1> QED BY <1>3, <1>4 DEF HostRuns

\* What a call has read came out of the stream.
LEMMA TextsRead ==
    ASSUME Typed, NEW n, ReadOf(n), Typed'
    PROVE  \A i \in 1..Len(answer'.texts) : \E j \in 1..Len(back) : answer'.texts[i] = back[j]
<1>1. CASE ComesBack(n)
  <2>1. PICK h : Picked(answer'.texts, n, h)
    BY <1>1, ReturnedTexts
  <2>2. n \in Nat /\ Len(back) \in Nat /\ n <= Len(back)
    BY DEF ReadOf, Typed
  <2>3. \A i \in 1..Len(answer'.texts) : h[i] \in 1..Len(back) /\ answer'.texts[i] = back[h[i]]
    BY <2>1, <2>2 DEF Picked
  <2> QED BY <2>3
<1>2. CASE ~ComesBack(n)
  <2>1. answer' \in {Pending, Raised, Ended}
    BY <1>2 DEF ReadOf, GivesUp, GoesOn
  <2>2. Pending.texts = <<>> /\ Raised.texts = <<>> /\ Ended.texts = <<>> /\ Len(<<>>) = 0
    BY DEF Pending, Raised, Ended
  <2>3. Len(answer'.texts) = 0
    BY <2>1, <2>2
  <2> QED BY <2>3
<1> QED BY <1>1, <1>2

LEMMA RowsReads ==
    ASSUME IInv, LateInv, LateInv', Unshifted, Upheld, Named, ReadKeeps, NEW n, ReadOf(n)
    PROVE  Unshifted' /\ Upheld' /\ Named'
<1>0. Typed /\ Typed' /\ Prompts /\ Attached /\ Descent /\ StageFits
  BY DEF IInv, LateInv
<1>1. UNCHANGED <<shell, stage, call, todo, entered, got, victim, named>>
  BY DEF ReadKeeps, writerVars
<1>2. /\ Len(wire') \in Nat /\ Len(wire) \in Nat
      /\ \A k \in 1..Len(wire) : wire'[k] = wire[k] /\ k \in 1..Len(wire')
      /\ \A k \in 1..Len(wire') : k \notin 1..Len(wire) => wire'[k].do \in Harmless
      /\ Len(back) \in Nat /\ Len(back') \in Nat /\ n \in Nat /\ Len(back') = Len(back) - n
      /\ \A i \in 1..Len(back') : back'[i] = back[i + n] /\ i + n \in 1..Len(back)
  BY <1>0, ReadEnds
<1>3. \A d \in Harmless : d \notin HostDos
  BY DEF Harmless, Shows, ExecCommands, SetupCommands, HostDos
<1>4. Adding' => Adding
  BY <1>2, <1>3 DEF Adding, HostDos
<1>5. \A i \in 1..Len(answer'.texts) : \E j \in 1..Len(back) : answer'.texts[i] = back[j]
  BY <1>0, TextsRead
<1>6. ASSUME Admitted', NEW i \in 1..Len(back'), IsPage(back'[i])
      PROVE  Live(back'[i].at.rows)
  <2>1. CASE Admitted
    BY <1>2, <1>6, <2>1 DEF Upheld
  <2>2. CASE ~Admitted
    <3>1. stage = "enter" /\ Won' = 1 /\ call.kind \in HostKinds
      BY <1>1, <1>6, <2>2 DEF Admitted, HostKinds
    <3>2. Accepted'
      BY <3>1 DEF Won
    <3>3. n = 2 /\ back[1].says = "nothing" /\ Same(back[1].of, awaiting)
      BY <1>0, <3>1, <3>2, AcceptedFirst
    <3>4. awaiting.do = "configure"
      BY <1>0, <3>1, HostCall DEF ReadKeeps
    <3>5. Okay(back[1])
      BY <3>3, <3>4 DEF Okay, Said, Same, EnterDos
    <3>6. 1 \in 1..Len(back) /\ i + n \in 1..Len(back) /\ 1 < i + n /\ back'[i] = back[i + n]
      BY <1>2, <3>3
    <3> QED BY <1>6, <3>5, <3>6 DEF Upheld
  <2> QED BY <2>1, <2>2
<1>7. Unshifted'
  <2>1. \A i \in 1..Len(back') : IsPage(back'[i]) => Agrees(back'[i].at.rows)
    BY <1>2 DEF Unshifted
  <2>2. \A i \in 1..Len(answer'.texts) : IsPage(answer'.texts[i]) => Agrees(answer'.texts[i].at.rows)
    BY <1>5 DEF Unshifted
  <2>3. \A k \in 1..Len(wire') : wire'[k].do = "removeHost" => k \in 1..Len(wire) /\ wire'[k] = wire[k]
    BY <1>2, <1>3 DEF HostDos
  <2>4. \A k \in 1..Len(wire') : wire'[k].do = "removeHost" =>
         \A r \in shell.config.rows : r.row = wire'[k].row => r.host \in named
    BY <2>3 DEF Unshifted
  <2> QED BY <1>1, <2>1, <2>2, <2>4 DEF Unshifted, Agrees, Removing
<1>8. Upheld'
  <2>1. ASSUME NEW i \in 1..Len(back'), NEW j \in 1..Len(back'), i < j, Okay(back'[i]), IsPage(back'[j])
        PROVE  Live(back'[j].at.rows)
    <3>1. i + n \in 1..Len(back) /\ j + n \in 1..Len(back) /\ i + n < j + n
          /\ back'[i] = back[i + n] /\ back'[j] = back[j + n]
      BY <1>2, <2>1
    <3> QED BY <2>1, <3>1 DEF Upheld
  <2>2. ASSUME Adding, NEW i \in 1..Len(back), IsPage(back[i])
        PROVE  Live(back[i].at.rows)
    BY <2>2 DEF Upheld
  <2>3. Adding => \A i \in 1..Len(answer'.texts) : IsPage(answer'.texts[i]) => Live(answer'.texts[i].at.rows)
    BY <1>5, <2>2
  <2>4. Adding => \A i \in 1..Len(back') : IsPage(back'[i]) => Live(back'[i].at.rows)
    BY <1>2, <2>2
  <2>5. Adding => Live(got.rows) /\ (Removing => victim \in Rows(shell.config))
    BY DEF Upheld
  <2> QED BY <1>1, <1>4, <1>6, <2>1, <2>3, <2>4, <2>5 DEF Upheld, Live, Removing
<1>9. Named'
  BY <1>1 DEF Named
<1> QED BY <1>7, <1>8, <1>9

-----------------------------------------------------------------------------
(***************************************************************************)
(* Issuing.                                                                *)
(***************************************************************************)
LEMMA HostSent ==
    ASSUME Typed, StageFits, Descent, NEW c, IssueOf(c)
    PROVE  /\ c.do \in HostDos =>
                /\ stage = "body" /\ call.kind \in HostKinds /\ todo # <<>> /\ Sends(c)
                /\ c.do = "addHost" <=> call.kind = "collect"
                /\ c.do = "removeHost" => call.kind = "uncollect" /\ c.row = victim
           /\ stage = "body" /\ call.kind \in HostKinds => todo' = <<>>
           /\ Won' = 0 /\ Len(answer'.texts) = 0
<1>1. /\ c = todo[1] /\ Proper(c, stage) /\ stage \in Stage /\ Idle /\ answer = Pending
      /\ UNCHANGED <<stage, call, entered>> /\ todo # <<>>
      /\ Len(todo) \in Nat /\ Len(todo) >= 1 /\ Len(todo') \in Nat /\ Len(todo') = Len(todo) - 1
      /\ todo' \in Seq(Line)
  BY DEF IssueOf
<1>2. ASSUME c.do \in HostDos
      PROVE  /\ stage = "body" /\ call.kind \in HostKinds /\ todo # <<>> /\ Sends(c)
             /\ c.do = "addHost" <=> call.kind = "collect"
             /\ c.do = "removeHost" => call.kind = "uncollect" /\ c.row = victim
  <2>1. stage = "body"
    <3>1. c.do \notin Shows \cup {"exit", "https", "copy", "save", "reload"}
      BY <1>2 DEF HostDos, Shows
    <3>2. c.do \in Dos(stage)
      BY <1>1 DEF Proper
    <3>3. c.do \notin EnterDos
      BY <1>2 DEF HostDos, EnterDos
    <3>4. stage \notin Reading \cup Resting \cup {"unwind", "script", "enter"}
      BY <3>1, <3>2, <3>3, DosOf
    <3> QED BY <1>1, <3>4 DEF Stage
  <2>2. Sends(c)
    BY <2>1, NextLineIs
  <2>3. PICK m \in 1..Len(BodyCommands(call, victim)) : BodyCommands(call, victim)[m] = c
    BY <2>1, NextLineIs
  <2>4. call \in Call /\ call.kind \notin {"reboot", "deploy"} /\ victim \in Nat
    BY <2>1, DeepCall DEF IssueOf
  <2>5. call.kind \in HostKinds
    BY <1>2, <2>3, <2>4, BodyLine
  <2>6. CASE call.kind = "collect"
    <3>1. BodyCommands(call, victim) = <<OnHost("addHost", call.host, 0)>>
      BY <2>6 DEF BodyCommands, PortSettings
    <3>2. c = OnHost("addHost", call.host, 0)
      BY <2>3, <3>1
    <3>3. c.do = "addHost"
      BY <3>2 DEF OnHost, Do
    <3> QED BY <1>1, <2>1, <2>2, <2>5, <2>6, <3>3
  <2>7. CASE call.kind = "uncollect"
    <3>1. BodyCommands(call, victim) = <<OnHost("removeHost", NoHost, victim)>>
      BY <2>7 DEF BodyCommands, PortSettings
    <3>2. c = OnHost("removeHost", NoHost, victim)
      BY <2>3, <3>1
    <3>3. c.do = "removeHost" /\ c.row = victim
      BY <3>2 DEF OnHost, Do
    <3> QED BY <1>1, <2>1, <2>2, <2>5, <2>7, <3>3
  <2> QED BY <2>5, <2>6, <2>7 DEF HostKinds
<1>3. ASSUME stage = "body", call.kind \in HostKinds
      PROVE  todo' = <<>>
  <2>1. Len(todo) = 1
    BY <1>1, <1>3, HostCall
  <2> QED BY <1>1, <2>1, EmptySeq
<1>4. answer' \in {Pending, Raised}
  BY <1>1 DEF IssueOf, Connects, Sends
<1>5. Pending.is # "returned" /\ Raised.is # "returned" /\ Pending.texts = <<>> /\ Raised.texts = <<>>
      /\ Len(<<>>) = 0
  BY DEF Pending, Raised
<1>6. Won' = 0 /\ Len(answer'.texts) = 0
  BY <1>4, <1>5 DEF Won, Accepted
<1> QED BY <1>2, <1>3, <1>6

LEMMA HostRunsIssues ==
    ASSUME Typed, StageFits, Descent, HostRuns, NEW c, IssueOf(c)
    PROVE  HostRuns'
<1>1. UNCHANGED <<stage, call>>
  BY DEF IssueOf
<1>2. ~(stage' = "body" /\ call'.kind \in HostKinds /\ todo' # <<>>)
  BY <1>1, HostSent
<1>3. CASE Connects(c)
  <2>1. wire' = wire
    BY <1>3 DEF Connects
  <2> QED BY <1>2, <2>1 DEF HostRuns
<1>4. CASE Sends(c)
  <2>1. /\ Len(wire) \in Nat /\ Len(wire') \in Nat
        /\ \A k \in 1..Len(wire) : wire'[k] = wire[k] /\ k \in 1..Len(wire')
        /\ wire'[Len(wire) + 1] = c
        /\ \A k \in 1..Len(wire') : k \in 1..Len(wire) \/ k = Len(wire) + 1 \/ wire'[k].do = "yes"
    BY <1>4, SendsWire
  <2> SUFFICES ASSUME NEW k \in 1..Len(wire'), NEW l \in 1..Len(wire'), k < l,
                      wire'[k].do \in HostDos, wire'[l].do \in HostDos
               PROVE  \E j \in (k + 1)..(l - 1) : wire'[j].do = "exit"
    BY <1>2 DEF HostRuns
  <2>2. wire'[l].do # "yes" /\ wire'[k].do # "yes"
    BY DEF HostDos
  <2>3. CASE l \in 1..Len(wire)
    <3>1. k \in 1..Len(wire)
      BY <2>1, <2>3
    <3>2. wire'[k] = wire[k] /\ wire'[l] = wire[l]
      BY <2>1, <2>3, <3>1
    <3>3. PICK j \in (k + 1)..(l - 1) : wire[j].do = "exit"
      BY <2>3, <3>1, <3>2 DEF HostRuns
    <3>4. j \in 1..Len(wire)
      BY <2>1, <2>3, <3>1
    <3> QED BY <2>1, <3>3, <3>4
  <2>4. CASE l = Len(wire) + 1
    <3>1. k \in 1..Len(wire) /\ wire'[k] = wire[k] /\ l - 1 = Len(wire)
      BY <2>1, <2>4
    <3>2. c.do \in HostDos
      BY <2>1, <2>4
    <3>3. stage = "body" /\ call.kind \in HostKinds /\ todo # <<>>
      BY <3>2, HostSent
    <3>4. ExitBehind(k)
      BY <3>1, <3>3 DEF HostRuns
    <3>5. PICK j \in (k + 1)..Len(wire) : wire[j].do = "exit"
      BY <3>4 DEF ExitBehind
    <3>6. j \in 1..Len(wire)
      BY <2>1, <3>1
    <3> QED BY <2>1, <3>1, <3>5, <3>6
  <2> QED BY <2>1, <2>2, <2>3, <2>4
<1> QED BY <1>3, <1>4 DEF IssueOf

LEMMA RowsIssues ==
    ASSUME Typed, StageFits, Descent, Unshifted, Upheld, Named, Issue, NEW c, IssueOf(c)
    PROVE  Unshifted' /\ Upheld' /\ Named'
<1>1. /\ UNCHANGED <<shell, stage, call, entered, got, victim, named>>
      /\ stage \notin Resting /\ todo # <<>>
  BY DEF IssueOf, Issue, callVars
<1>2. /\ back' = back \/ back' = <<Prompt>>
      /\ \A k \in 1..Len(wire') :
           \/ k \in 1..Len(wire) /\ wire'[k] = wire[k]
           \/ k = Len(wire) + 1 /\ wire'[k] = c /\ Sends(c)
           \/ wire'[k].do = "yes"
  BY IssueEnds
<1>3. /\ c.do \in HostDos =>
           /\ stage = "body" /\ call.kind \in HostKinds /\ todo # <<>> /\ Sends(c)
           /\ c.do = "addHost" <=> call.kind = "collect"
           /\ c.do = "removeHost" => call.kind = "uncollect" /\ c.row = victim
      /\ stage = "body" /\ call.kind \in HostKinds => todo' = <<>>
      /\ Won' = 0 /\ Len(answer'.texts) = 0
  BY HostSent
<1>4. \A i \in 1..Len(back') : IsPage(back'[i]) => back' = back
  <2>1. Len(<<Prompt>>) = 1 /\ <<Prompt>>[1] = Prompt
    OBVIOUS
  <2>2. ~IsPage(Prompt)
    BY PromptSays DEF IsPage
  <2>3. back' = <<Prompt>> => \A i \in 1..Len(back') : ~IsPage(back'[i])
    BY <2>1, <2>2
  <2> QED BY <1>2, <2>3
<1>5. Admitted' => Admitted
  BY <1>1, <1>3 DEF Admitted, HostKinds
<1>6. Adding' => Adding \/ c.do = "addHost"
  BY <1>2 DEF Adding
<1>7. c.do = "addHost" => Admitted /\ ~Removing /\ got.rows = {}
  BY <1>3 DEF Admitted, HostDos, Removing, Named, Deep
<1>8. Unshifted'
  <2>1. ASSUME NEW k \in 1..Len(wire'), wire'[k].do = "removeHost",
               NEW r \in shell.config.rows, r.row = wire'[k].row
        PROVE  r.host \in named
    <3>1. CASE k \in 1..Len(wire) /\ wire'[k] = wire[k]
      BY <2>1, <3>1 DEF Unshifted
    <3>2. CASE wire'[k] = c
      <4>1. Removing /\ c.row = victim /\ call.kind = "uncollect"
        BY <1>3, <2>1, <3>2 DEF HostDos, Removing
      <4>2. r.host = call.host
        BY <2>1, <3>2, <4>1 DEF Unshifted
      <4>3. call.host \in named
        BY <1>1, <4>1 DEF Named
      <4> QED BY <4>2, <4>3
    <3> QED BY <1>2, <2>1, <3>1, <3>2
  <2>2. \A i \in 1..Len(back') : IsPage(back'[i]) => Agrees(back'[i].at.rows)
    BY <1>4 DEF Unshifted
  <2> QED BY <1>1, <1>3, <2>1, <2>2 DEF Unshifted, Agrees, Removing
<1>9. Upheld'
  <2>1. ASSUME NEW i \in 1..Len(back'), NEW j \in 1..Len(back'), i < j, Okay(back'[i]), IsPage(back'[j])
        PROVE  Live(back'[j].at.rows)
    <3>1. back' = back
      BY <1>4, <2>1
    <3> QED BY <2>1, <3>1 DEF Upheld
  <2>2. ASSUME Admitted' \/ Adding', NEW i \in 1..Len(back'), IsPage(back'[i])
        PROVE  Live(back'[i].at.rows)
    <3>1. back' = back /\ (Admitted \/ Adding)
      BY <1>4, <1>5, <1>6, <1>7, <2>2
    <3> QED BY <2>2, <3>1 DEF Upheld
  <2>3. Adding' => Live(got.rows) /\ (Removing => victim \in Rows(shell.config))
    <3>1. CASE Adding
      BY <3>1 DEF Upheld
    <3>2. CASE c.do = "addHost"
      BY <1>7, <3>2 DEF Live
    <3> QED BY <1>6, <3>1, <3>2
  <2> QED BY <1>1, <1>3, <2>1, <2>2, <2>3 DEF Upheld, Live, Removing
<1>10. Named'
  BY <1>1 DEF Named
<1> QED BY <1>8, <1>9, <1>10

-----------------------------------------------------------------------------
(***************************************************************************)
(* Using an answer.                                                        *)
(***************************************************************************)
\* The rows that a call holds are those it held, or of a page it has been given.
LEMMA RowsNoted ==
    ASSUME Typed
    PROVE  LET g == Noted(answer.texts)
           IN  \/ g.rows = got.rows \/ g.rows = {}
               \/ \E j \in 1..Len(answer.texts) :
                    IsPage(answer.texts[j]) /\ g.rows = answer.texts[j].at.rows
<1> DEFINE show  == awaiting.do
           texts == answer.texts
<1>1. /\ \A x : [got EXCEPT !.pvid = x].rows = got.rows
      /\ \A x : [got EXCEPT !.power = x].rows = got.rows
      /\ \A x : [got EXCEPT !.value = x].rows = got.rows
      /\ \A x : [got EXCEPT !.infos = Append(@, x)].rows = got.rows
      /\ \A x : [got EXCEPT !.rows = x].rows = x
  BY DEF Typed, GotFits
<1>2. FirstIs(texts, show) =>
        \E j \in 1..Len(texts) : IsPage(texts[j]) /\ Tables(texts)[1].at.rows = texts[j].at.rows
  <2> SUFFICES ASSUME FirstIs(texts, show)
               PROVE  \E j \in 1..Len(texts) :
                        IsPage(texts[j]) /\ Tables(texts)[1].at.rows = texts[j].at.rows
    OBVIOUS
  <2>1. texts \in Seq(Text) /\ Tables(texts) # <<>>
    BY DEF Typed, FirstIs
  <2>2. Tables(texts)[1].says = "table" /\ \E j \in 1..Len(texts) : Tables(texts)[1] = texts[j]
    BY <2>1, TablesIn
  <2> QED BY <2>2 DEF IsPage
<1>3. CASE show = "collectors"
  <2> DEFINE x == IF FirstIs(texts, show) THEN Tables(texts)[1].at.rows ELSE {}
  <2>1. Noted(texts) = [got EXCEPT !.rows = x]
    BY <1>3 DEF Noted
  <2>2. Noted(texts).rows = x
    BY <1>1, <2>1
  <2> QED BY <1>2, <2>2
<1>4. CASE show = "detail"
  BY <1>1, <1>4 DEF Noted
<1>5. CASE show = "pvids"
  BY <1>1, <1>5 DEF Noted
<1>6. CASE show = "power"
  BY <1>1, <1>6 DEF Noted
<1>7. CASE show = "label" /\ FirstIs(texts, show)
  BY <1>1, <1>7 DEF Noted
<1>8. CASE show \in {"ports", "names", "network", "logs"}
  BY <1>1, <1>8 DEF Noted
<1>9. CASE show \notin {"detail", "pvids", "power", "collectors", "ports", "names", "network", "logs"}
           /\ ~(show = "label" /\ FirstIs(texts, show))
  BY <1>9 DEF Noted
<1> QED BY <1>3, <1>4, <1>5, <1>6, <1>7, <1>8, <1>9

LEMMA RowsUses ==
    ASSUME IInv, LateInv, RowsInv, Use
    PROVE  RowsInv'
<1>0. Typed /\ HostRuns /\ Unshifted /\ Upheld /\ Named
  BY DEF LateInv, RowsInv
<1>1. Takes /\ UseOf /\ UNCHANGED <<shell, wire, back, call, victim, named>>
      /\ stage \notin Resting /\ answer' = Pending
  BY UsesOf DEF Takes
<1>2. /\ Won' = 0
      /\ stage' = "enter" =>
           stage = "enter" /\ Accepted /\ entered' = entered + 1 /\ UNCHANGED todo
      /\ stage' = "body" => stage = "body" /\ Accepted /\ Keeps
      /\ stage' \in Reading => stage' = stage
  BY <1>1, UseStage
<1>3. Nothing.rows = {} /\ Pending.texts = <<>> /\ Len(<<>>) = 0
  BY DEF Nothing, Pending
<1>4. /\ stage' \in Deep => got'.rows = {}
      /\ \/ got'.rows = got.rows \/ got'.rows = {}
         \/ \E j \in 1..Len(answer.texts) :
              IsPage(answer.texts[j]) /\ got'.rows = answer.texts[j].at.rows
  <2>1. CASE stage \in Reading /\ ~Broken /\ Note(answer.texts) /\ UNCHANGED <<stage, entered, failed>>
    BY <1>0, <2>1, RowsNoted DEF Note, Reading, Deep
  <2>2. CASE stage = "enter" /\ Accepted /\ entered' = entered + 1 /\ UNCHANGED <<stage, todo, got, failed>>
    BY <1>0, <2>2 DEF Named, Deep
  <2>3. CASE stage \in {"enter", "body"} /\ ~Accepted /\ Unwind(TRUE)
    BY <1>3, <2>3 DEF Unwind, GoTo
  <2>4. CASE stage \in Reading \cup {"unwind", "script"} /\ Broken /\ Escapes(answer)
    BY <1>3, <2>4 DEF Escapes, End, GoTo
  <2>5. CASE stage = "body" /\ Accepted /\ Keeps
    BY <1>0, <2>5 DEF Named, Deep, Keeps
  <2>6. CASE stage \in {"unwind", "script"} /\ ~Broken /\ Keeps
    BY <1>0, <2>6 DEF Named, Deep, Keeps
  <2> QED BY <1>1, <2>1, <2>2, <2>3, <2>4, <2>5, <2>6 DEF UseOf
<1>5. Removing' => Removing
  BY <1>1, <1>2 DEF Removing
<1>6. Admitted' => Admitted
  <2>1. CASE stage' = "enter"
    BY <1>1, <1>2, <2>1 DEF Admitted, Won
  <2>2. CASE stage' = "body"
    BY <1>1, <1>2, <2>2 DEF Admitted, Keeps
  <2> QED BY <2>1, <2>2 DEF Admitted
<1>7. HostRuns'
  <2>1. stage' = "body" /\ todo' # <<>> => stage = "body" /\ todo # <<>>
    BY <1>2 DEF Keeps
  <2> QED BY <1>0, <1>1, <2>1 DEF HostRuns, ExitBehind
<1>8. Agrees(got'.rows) /\ (Adding => Live(got'.rows))
  <2>1. Agrees({}) /\ Live({})
    BY DEF Agrees, Live
  <2>2. \A j \in 1..Len(answer.texts) : IsPage(answer.texts[j]) =>
          Agrees(answer.texts[j].at.rows) /\ (Adding => Live(answer.texts[j].at.rows))
    BY <1>0 DEF Unshifted, Upheld
  <2>3. Agrees(got.rows) /\ (Adding => Live(got.rows))
    BY <1>0 DEF Unshifted, Upheld
  <2> QED BY <1>4, <2>1, <2>2, <2>3
<1>9. Len(answer'.texts) = 0
  BY <1>1, <1>3
<1>10. Unshifted'
  <2>1. Removing' => \A r \in shell.config.rows : r.row = victim => r.host = call.host
    BY <1>0, <1>5 DEF Unshifted
  <2>2. \A i \in 1..Len(back) : IsPage(back[i]) => Agrees(back[i].at.rows)
    BY <1>0 DEF Unshifted
  <2>3. \A k \in 1..Len(wire) : wire[k].do = "removeHost" =>
         \A r \in shell.config.rows : r.row = wire[k].row => r.host \in named
    BY <1>0 DEF Unshifted
  <2> QED BY <1>1, <1>8, <1>9, <2>1, <2>2, <2>3 DEF Unshifted, Agrees
<1>11. Upheld'
  <2>1. Adding' <=> Adding
    BY <1>1 DEF Adding
  <2>2. \A i, j \in 1..Len(back) : i < j /\ Okay(back[i]) /\ IsPage(back[j]) => Live(back[j].at.rows)
    BY <1>0 DEF Upheld
  <2>3. Admitted' \/ Adding' => \A i \in 1..Len(back) : IsPage(back[i]) => Live(back[i].at.rows)
    BY <1>0, <1>6, <2>1 DEF Upheld
  <2>4. Adding /\ Removing' => victim \in Rows(shell.config)
    BY <1>0, <1>5 DEF Upheld
  <2> QED BY <1>1, <1>8, <1>9, <2>1, <2>2, <2>3, <2>4 DEF Upheld, Live
<1>12. Named'
  <2>1. stage' = "pvids" => stage = "pvids"
    BY <1>2 DEF Reading
  <2> QED BY <1>0, <1>1, <1>4, <2>1 DEF Named
<1> QED BY <1>7, <1>10, <1>11, <1>12 DEF RowsInv

-----------------------------------------------------------------------------
(***************************************************************************)
(* The end of a stage.  Here the row to remove is taken from the page.     *)
(***************************************************************************)
LEMMA RowFound ==
    ASSUME GotFits(got), NEW h \in HostsOf(got)
    PROVE  \E r \in got.rows : r.host = h /\ r.row = RowOf(got, h)
<1> DEFINE rows == {r.row : r \in {q \in got.rows : q.host = h}}
<1>1. got.rows \subseteq [row : Nat, host : Host]
  BY DEF GotFits
<1>2. rows \subseteq Nat
  BY <1>1
<1>3. rows # {}
  <2>1. PICK r \in got.rows : r.host = h
    BY DEF HostsOf
  <2>2. r.row \in rows
    BY <2>1
  <2> QED BY <2>2
<1>4. PICK n \in rows : \A m \in rows : n <= m
  BY <1>2, <1>3, LeastNat
<1>5. \A r \in got.rows : r.host = h => n <= r.row
  BY <1>4
<1>6. RowOf(got, h) = CHOOSE i \in rows : \A r \in got.rows : r.host = h => i <= r.row
  BY DEF RowOf
<1>7. RowOf(got, h) \in rows
  BY <1>4, <1>5, <1>6
<1> QED BY <1>7

LEMMA RowsTurns ==
    ASSUME IInv, LateInv, RowsInv, Turn
    PROVE  RowsInv'
<1>0. Typed /\ StageFits /\ Descent /\ Owned /\ HostRuns /\ Unshifted /\ Upheld /\ Named
  BY DEF IInv, LateInv, RowsInv
<1>1. /\ TurnOf /\ Won' = 0
      /\ stage' = "enter" => entered' = 0
      /\ stage' = "body" => stage = "enter" /\ todo' = BodyCommands(call, victim)
                              /\ UNCHANGED <<entered, victim>>
  BY <1>0, TurnStage
<1>2. /\ UNCHANGED <<shell, wire, back, call, named>> /\ Idle /\ todo = <<>> /\ stage \notin Resting
      /\ answer' = Pending /\ got' = Nothing /\ awaiting.do = "none"
  BY <1>1 DEF TurnOf, Turn
<1>3. Nothing.rows = {} /\ Pending.texts = <<>> /\ Len(<<>>) = 0
  BY DEF Nothing, Pending
<1>4. got'.rows = {} /\ Len(answer'.texts) = 0
  BY <1>2, <1>3
<1>5. Removing' =>
        \/ Removing /\ victim' = victim
        \/ \E r \in got.rows : r.host = call.host /\ r.row = victim'
  <2> SUFFICES ASSUME Removing'
               PROVE  \/ Removing /\ victim' = victim
                      \/ \E r \in got.rows : r.host = call.host /\ r.row = victim'
    OBVIOUS
  <2>1. call.kind = "uncollect" /\ stage' \in {"enter", "body"}
    BY <1>2 DEF Removing
  <2>2. CASE stage' = "body"
    BY <1>1, <2>1, <2>2 DEF Removing
  <2>3. CASE stage' = "enter"
    <3>1. stage \in {"before", "pvids"}
      BY <1>1, <2>3 DEF TurnOf, CallEnds, Enters, Bodies, Leaves, ReadsPages, Unwind, GoTo, Resting
    <3>2. stage = "before"
      BY <1>0, <2>1, <3>1 DEF Named
    <3>3. Prepare
      BY <3>2 DEF Turn
    <3>4. ~PreconditionFails(call, got) /\ victim' = RowOf(got, call.host)
      BY <2>3, <3>3 DEF Prepare, End, GoTo
    <3>5. call.host \in HostsOf(got)
      BY <2>1, <3>4 DEF PreconditionFails
    <3>6. \E r \in got.rows : r.host = call.host /\ r.row = RowOf(got, call.host)
      BY <1>0, <3>5, RowFound DEF Typed
    <3> QED BY <3>4, <3>6
  <2> QED BY <2>1, <2>2, <2>3
<1>6. stage' = "body" /\ call.kind \in HostKinds => stage = "enter" /\ entered = 1
  BY <1>0, <1>1, <1>2, HostCall
<1>7. Admitted' => Admitted
  <2>1. CASE stage' = "enter"
    BY <1>1, <2>1 DEF Admitted
  <2>2. CASE stage' = "body"
    BY <1>2, <1>6, <2>2 DEF Admitted, HostKinds
  <2> QED BY <2>1, <2>2 DEF Admitted
<1>8. HostRuns'
  <2>1. ASSUME stage' = "body", call.kind \in HostKinds, NEW k \in 1..Len(wire), wire[k].do \in HostDos
        PROVE  ExitBehind(k)
    <3>1. stage = "enter"
      BY <1>1, <2>1
    <3>2. wire[k].do \in TiedDos /\ wire[k] # awaiting
      BY <1>2, <2>1 DEF TiedDos, InnerDos, HostDos
    <3>3. ~Mine(k)
      BY <3>1, <3>2 DEF Mine
    <3> QED BY <1>0, <3>1, <3>2, <3>3 DEF Owned
  <2> QED BY <1>0, <1>2, <2>1 DEF HostRuns, ExitBehind
<1>9. Unshifted'
  <2>1. ASSUME Removing', NEW r \in shell.config.rows, r.row = victim'
        PROVE  r.host = call.host
    <3>1. CASE Removing /\ victim' = victim
      BY <1>0, <2>1, <3>1 DEF Unshifted
    <3>2. CASE \E q \in got.rows : q.host = call.host /\ q.row = victim'
      <4>1. PICK q \in got.rows : q.host = call.host /\ q.row = victim'
        BY <3>2
      <4>2. q = r
        BY <1>0, <2>1, <4>1 DEF Unshifted, Agrees
      <4> QED BY <4>1, <4>2
    <3> QED BY <1>5, <2>1, <3>1, <3>2
  <2>2. \A i \in 1..Len(back) : IsPage(back[i]) => Agrees(back[i].at.rows)
    BY <1>0 DEF Unshifted
  <2>3. \A k \in 1..Len(wire) : wire[k].do = "removeHost" =>
         \A r \in shell.config.rows : r.row = wire[k].row => r.host \in named
    BY <1>0 DEF Unshifted
  <2> QED BY <1>2, <1>4, <2>1, <2>2, <2>3 DEF Unshifted, Agrees
<1>10. Upheld'
  <2>1. Adding' <=> Adding
    BY <1>2 DEF Adding
  <2>2. \A i, j \in 1..Len(back) : i < j /\ Okay(back[i]) /\ IsPage(back[j]) => Live(back[j].at.rows)
    BY <1>0 DEF Upheld
  <2>3. Admitted' \/ Adding' => \A i \in 1..Len(back) : IsPage(back[i]) => Live(back[i].at.rows)
    BY <1>0, <1>7, <2>1 DEF Upheld
  <2>4. Adding /\ Removing' => victim' \in Rows(shell.config)
    <3> SUFFICES ASSUME Adding, Removing' PROVE victim' \in Rows(shell.config)
      OBVIOUS
    <3>1. Live(got.rows) /\ (Removing => victim \in Rows(shell.config))
      BY <1>0 DEF Upheld
    <3> QED BY <1>5, <3>1 DEF Live
  <2> QED BY <1>2, <1>4, <2>1, <2>2, <2>3, <2>4 DEF Upheld, Live
<1>11. Named'
  <2>1. stage' = "pvids" => call.kind = "pvid"
    <3> SUFFICES ASSUME stage' = "pvids" PROVE call.kind = "pvid"
      OBVIOUS
    <3>1. stage \in {"before", "unwind", "after"}
      BY <1>1 DEF TurnOf, CallEnds, Enters, Bodies, Leaves, ReadsPages, Unwind, GoTo, Resting
    <3>2. stage # "unwind" /\ stage # "after"
      BY DEF Turn, Unwound, Judge, End, GoTo
    <3>3. Prepare
      BY <3>1, <3>2 DEF Turn
    <3> QED BY <3>3 DEF Prepare, End, GoTo
  <2> QED BY <1>0, <1>2, <1>4, <2>1 DEF Named
<1> QED BY <1>8, <1>9, <1>10, <1>11 DEF RowsInv

-----------------------------------------------------------------------------
(***************************************************************************)
(* A new call, close(), and the whole.                                     *)
(***************************************************************************)
LEMMA RowsCalls ==
    ASSUME Typed, RowsInv, Invoke \/ (stage \in Resting /\ Close /\ UNCHANGED writerVars)
    PROVE  RowsInv'
<1>0. HostRuns /\ Unshifted /\ Upheld /\ Named
  BY DEF RowsInv
<1>1. /\ stage' \in Resting \cup {"before", "script"}
      /\ shell'.config = shell.config
      /\ back' = back \/ back' = <<>>
      /\ wire' = wire \/ wire' = <<>>
  BY CallStage
<1>2. Len(<<>>) = 0 /\ Nothing.rows = {}
  BY DEF Nothing
<1>3. /\ named \subseteq named' /\ UNCHANGED answer
      /\ call'.kind = "uncollect" /\ stage' \notin Resting => call'.host \in named'
      /\ got'.rows = got.rows \/ got'.rows = {}
  <2>1. CASE Invoke
    <3>1. PICK c \in Calls : /\ call' = c /\ Begin(c)
                             /\ named' = named \cup (IF c.kind = "uncollect" THEN {c.host} ELSE {})
      BY <2>1 DEF Invoke
    <3>2. got' = Nothing
      BY <3>1 DEF Begin, GoTo
    <3> QED BY <1>2, <2>1, <3>1, <3>2 DEF Invoke, sessionVars
  <2>2. CASE stage \in Resting /\ Close /\ UNCHANGED writerVars
    BY <2>2 DEF Close, writerVars
  <2> QED BY <2>1, <2>2
<1>4. /\ stage' \notin {"enter", "body", "unwind", "pvids"}
      /\ ~Removing' /\ ~Admitted' /\ (Adding' => Adding)
  BY <1>1, <1>2 DEF Removing, Admitted, Resting, Adding
<1>5. /\ \A i \in 1..Len(back') : back' = back
      /\ \A k \in 1..Len(wire') : wire' = wire
  BY <1>1, <1>2
<1>6. HostRuns'
  <2>1. ASSUME NEW k \in 1..Len(wire'), NEW l \in 1..Len(wire'), k < l,
               wire'[k].do \in HostDos, wire'[l].do \in HostDos
        PROVE  \E j \in (k + 1)..(l - 1) : wire'[j].do = "exit"
    <3>1. wire' = wire
      BY <1>5
    <3> QED BY <1>0, <2>1, <3>1 DEF HostRuns
  <2> QED BY <1>4, <2>1 DEF HostRuns
<1>7. Unshifted'
  <2>1. \A i \in 1..Len(back') : IsPage(back'[i]) => Agrees(back'[i].at.rows)
    BY <1>0, <1>5 DEF Unshifted
  <2>2. ASSUME NEW k \in 1..Len(wire'), wire'[k].do = "removeHost",
               NEW r \in shell.config.rows, r.row = wire'[k].row
        PROVE  r.host \in named'
    <3>1. wire' = wire
      BY <1>5
    <3> QED BY <1>0, <1>3, <2>2, <3>1 DEF Unshifted
  <2>3. Agrees(got'.rows)
    BY <1>0, <1>3 DEF Unshifted, Agrees
  <2>4. \A i \in 1..Len(answer.texts) : IsPage(answer.texts[i]) => Agrees(answer.texts[i].at.rows)
    BY <1>0 DEF Unshifted
  <2> QED BY <1>1, <1>3, <1>4, <2>1, <2>2, <2>3, <2>4 DEF Unshifted, Agrees
<1>8. Upheld'
  <2>1. ASSUME NEW i \in 1..Len(back'), NEW j \in 1..Len(back'), i < j, Okay(back'[i]), IsPage(back'[j])
        PROVE  Live(back'[j].at.rows)
    <3>1. back' = back
      BY <1>5
    <3> QED BY <1>0, <2>1, <3>1 DEF Upheld
  <2>2. ASSUME Adding, NEW i \in 1..Len(back'), IsPage(back'[i])
        PROVE  Live(back'[i].at.rows)
    <3>1. back' = back
      BY <1>5
    <3> QED BY <1>0, <2>2, <3>1 DEF Upheld
  <2>3. Adding => /\ \A i \in 1..Len(answer.texts) : IsPage(answer.texts[i]) => Live(answer.texts[i].at.rows)
                  /\ Live(got'.rows)
    BY <1>0, <1>3 DEF Upheld, Live
  <2> QED BY <1>1, <1>3, <1>4, <2>1, <2>2, <2>3 DEF Upheld, Live
<1>9. Named'
  BY <1>3, <1>4 DEF Named, Deep
<1> QED BY <1>6, <1>7, <1>8, <1>9 DEF RowsInv

LEMMA RowsInit == Init => RowsInv
<1> SUFFICES ASSUME Init PROVE RowsInv
  OBVIOUS
<1>1. /\ stage = "idle" /\ wire = <<>> /\ back = <<>> /\ answer = Pending /\ got = Nothing
  BY DEF Init, SessionInit
<1>2. Len(<<>>) = 0 /\ Nothing.rows = {} /\ Pending.texts = <<>>
  BY DEF Nothing, Pending
<1>3. Len(wire) = 0 /\ Len(back) = 0 /\ Len(answer.texts) = 0 /\ got.rows = {}
  BY <1>1, <1>2
<1>4. ~Adding /\ ~Admitted /\ ~Removing
  BY <1>1, <1>3 DEF Adding, Admitted, Removing
<1>5. HostRuns
  BY <1>1, <1>3 DEF HostRuns
<1>6. Unshifted
  BY <1>3, <1>4 DEF Unshifted, Agrees
<1>7. Upheld
  BY <1>3, <1>4 DEF Upheld
<1>8. Named
  BY <1>1, <1>3 DEF Named, Resting
<1> QED BY <1>5, <1>6, <1>7, <1>8 DEF RowsInv

\* A step keeps the invariant, and what goes goes by the word of a call.
LEMMA RowsStep ==
    ASSUME IInv, LateInv, LateInv', RowsInv, [Next]_vars
    PROVE  RowsInv' /\ \A r \in shell.config.rows \ shell'.config.rows : r.host \in named
<1>0. /\ Typed /\ Aimed /\ StageFits /\ Descent /\ Credit /\ Owned /\ Attached
      /\ HostRuns /\ Unshifted /\ Upheld /\ Named
  BY DEF IInv, LateInv, RowsInv
<1>1. CASE Invoke
  BY <1>0, <1>1, RowsCalls, CallStage
<1>2. CASE Issue
  <2>1. IssueOf(todo[1])
    BY <1>0, <1>2, IssuesOf
  <2>2. UNCHANGED shell
    BY <2>1 DEF IssueOf
  <2> QED BY <1>0, <1>2, <2>1, <2>2, HostRunsIssues, RowsIssues DEF RowsInv
<1>3. CASE Use
  <2>1. UNCHANGED shell
    BY <1>3, UsesOf DEF Takes
  <2> QED BY <1>3, <2>1, RowsUses
<1>4. CASE Turn
  <2>1. UNCHANGED shell
    BY <1>0, <1>4, TurnStage DEF TurnOf
  <2> QED BY <1>4, <2>1, RowsTurns
<1>5. CASE Session
  <2>1. UNCHANGED writerVars
    BY <1>5 DEF Session
  <2>2. CASE Executes
    <3>1. HostRuns' /\ Unshifted' /\ Upheld'
      BY <1>0, <2>1, <2>2, HostRunsExecutes, UnshiftedExecutes, UpheldExecutes
    <3>2. Named'
      BY <1>0, <2>1 DEF Named, writerVars
    <3>3. ASSUME NEW r \in shell.config.rows \ shell'.config.rows
          PROVE  r.host \in named
      <4>1. RowsMove
        BY <1>0, <2>2, RowsMoved
      <4>2. wire[1].do = "removeHost" /\ r.row = wire[1].row
        BY <3>3, <4>1 DEF RowsMove
      <4>3. 1 \in 1..Len(wire)
        <5>1. wire # <<>> /\ wire \in Seq(Line)
          BY <1>0, <2>2, ExecOf DEF Typed
        <5> QED BY <5>1, EmptySeq
      <4> QED BY <1>0, <4>2, <4>3 DEF Unshifted
    <3> QED BY <3>1, <3>2, <3>3 DEF RowsInv
  <2>3. CASE Receive \/ TimesOut \/ StreamEnds
    <3>1. ReadKeeps
      BY <1>0, <2>1, <2>3, ReadsOf DEF Reads, ReadKeeps
    <3>2. PICK n : ReadOf(n)
      BY <1>0, <2>3, ReadsOf DEF Reads
    <3>3. UNCHANGED shell
      BY <3>1 DEF ReadKeeps
    <3> QED BY <1>0, <3>1, <3>2, <3>3, HostRunsReads, RowsReads DEF RowsInv
  <2>4. CASE stage \in Resting /\ Close
    BY <1>0, <2>1, <2>4, RowsCalls, CallStage
  <2> QED BY <1>5, <2>2, <2>3, <2>4 DEF Session
<1>6. CASE UNCHANGED vars
  <2>1. UNCHANGED <<shell, wire, back, awaiting, answer, call, stage, todo, entered, got, victim,
                    named>>
    BY <1>6 DEF vars, sessionVars, writerVars
  <2>2. Won' = Won /\ Idle' = Idle /\ Admitted' = Admitted /\ Adding' = Adding /\ Removing' = Removing
    BY <2>1 DEF Won, Idle, Accepted, Admitted, Adding, Removing
  <2>3. RowsInv'
    BY <2>1, <2>2 DEF RowsInv, HostRuns, Unshifted, Upheld, Named, ExitBehind, Agrees, Live
  <2> QED BY <2>1, <2>3
<1> QED BY <1>1, <1>2, <1>3, <1>4, <1>5, <1>6 DEF Next

(***************************************************************************)
(* A collector goes only if some call has named its host, however old the  *)
(* page was from which the call took the number of the row                 *)
(* (remove_syslog_collector).                                              *)
(***************************************************************************)
THEOREM OnlyNamedHostProved == Spec => OnlyNamedHostGoes
<1> DEFINE Gone == \A r \in shell.config.rows \ shell.config'.rows : r.host \in named
<1>1. Init => RowsInv
  BY RowsInit
<1>2. IInv /\ LateInv /\ LateInv' /\ RowsInv /\ [Next]_vars => RowsInv' /\ [Gone]_vars
  <2> SUFFICES ASSUME IInv, LateInv, LateInv', RowsInv, [Next]_vars PROVE RowsInv' /\ Gone
    OBVIOUS
  <2> QED BY RowsStep
<1>3. OnlyNamedHostGoes <=> [][Gone]_vars
  BY DEF OnlyNamedHostGoes
<1> HIDE DEF Gone
<1> QED BY <1>1, <1>2, <1>3, LateInvariant, PTL DEF Spec
=============================================================================
