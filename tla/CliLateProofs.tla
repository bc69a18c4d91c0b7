---------------------------- MODULE CliLateProofs ----------------------------
(***************************************************************************)
(* What TLAPS proves of CliWriter when the session is out of step: after a *)
(* run() has raised, the answers it did not read are taken for those of    *)
(* later commands.  For every set of VLANs, ports and hosts, every image   *)
(* of the switch and every number of calls, timeouts and closed streams.   *)
(*                                                                         *)
(* The invariant counts.  Every level that the shell is in is paid for by  *)
(* one acceptance, which is unread, in the call's hands, or turned into    *)
(* one exit; so that an acceptance that is still to be read tells what     *)
(* mode the shell is in, whenever it is read.  From this follows that a    *)
(* call for a port which has entered the interface is in step again, and   *)
(* that its commands reach that port and no other.                         *)
(*                                                                         *)
(* For the protected ports the invariant says in addition what every page  *)
(* of the switch that is still to be read shows of them, and that the      *)
(* pages of the VLANs come in a row.                                       *)
(***************************************************************************)
EXTENDS CliProofs, FunctionTheorems, NaturalsInduction

\* Commands that need the mode of "configure"; those that need an exit behind them.
InnerDos == {"interface", "addHost", "removeHost"}
TiedDos  == InnerDos \cup DatabaseCommands
HostDos  == {"addHost", "removeHost"}

Line ==
    {c \in Command :
       /\ c.do \in DatabaseCommands \cup VlanCommands => c.vlan \in Vlan
       /\ c.do \in InterfaceCommands \cup {"interface"} => c.port \in Port
       /\ c.do = "addHost" => c.host \in Host
       /\ c.do \in {"configure", "vlanDatabase"} => c = Do(c.do)}

Chunk == Text \cup {Prompt}

Said(x, dos) == x.says = "nothing" /\ x.of.do \in dos
Okay(x)  == Said(x, EnterDos)

Oks  == {i \in 1..Len(back) : Okay(back[i])}
Outs == {k \in 1..Len(wire) : wire[k].do = "exit"}
Won  == IF stage = "enter" /\ Accepted THEN 1 ELSE 0
Owed == IF stage \in {"enter", "body"} THEN entered
        ELSE IF stage = "unwind" THEN Len(todo) ELSE 0

Credit == Cardinality(Oks) + Won + Cardinality(Outs) + Owed <= Len(shell.modes)

Levels == {<<>>, <<"database">>, <<"config">>, <<"config", "interface">>, <<"config", "database">>}

Uniform(rows) == \A q, r \in rows : q.row = r.row => q = r

\* What the reads of a stage have returned.
Entry == [vlan : Vlan \cup {NoVlan}, member : SUBSET Port, untagged : SUBSET Port]

GotFits(g) ==
    /\ DOMAIN g = {"infos", "pvid", "value", "power", "rows"}
    /\ g.infos \in Seq(Entry)
    /\ g.rows \subseteq [row : Nat, host : Host]

Typed ==
    /\ shell \in Shell /\ shell.modes \in Levels
    /\ shell.config.rows \subseteq [row : Nat, host : Host]
    /\ IsFiniteSet(shell.config.rows) /\ Uniform(shell.config.rows)
    /\ DefaultVlan \in shell.config.vlans
    /\ wire \in Seq(Line) /\ agenda \in Seq(Line) /\ todo \in Seq(Line)
    /\ back \in Seq(Chunk) /\ answer.texts \in Seq(Text)
    /\ GotFits(got)
    /\ answer \in {Pending, Raised, Ended} \/ answer.is = "returned"
    /\ stage \notin Resting => call \in Calls /\ ~GuardRaises(call)
    /\ awaiting \in Line \cup {NoLine, Banner}
    /\ victim \in Nat

\* A prompt is the end of an answer.
Prompts ==
    /\ \A i \in 1..Len(back) - 1 : back[i] = Prompt => back[i + 1] # Prompt
    /\ back # <<>> /\ back[Len(back)] = Prompt => shell.asking = "nothing"

Clear == IF back = <<>> THEN shell.asking = "nothing" ELSE back[1] # Prompt

Attached ==
    /\ torn /\ ~Idle /\ ~Broken => Proper(awaiting, stage)
    /\ stage \in {"enter", "body", "unwind"} => driver # "none" /\ agenda = <<>>
    /\ /\ \/ stage \in {"enter", "body"}
          \/ stage \in {"before", "pvids"} /\ (answer.is = "returned" \/ (Idle /\ todo = <<>>))
       /\ ~Broken
       => Clear /\ driver # "none" /\ agenda = <<>>
    /\ stage \in {"enter", "body"} /\ answer.is = "returned" => answer.texts # <<>>

\* The stage and its commands.
Descent ==
    /\ stage = "enter" =>
         LET cmds == EnterCommands(call)
             n == Len(cmds) - Len(todo)
         IN  /\ n \in 0..Len(cmds)
             /\ \A k \in 1..Len(todo) : todo[k] = cmds[n + k]
             /\ Idle => entered = n
             /\ ~Idle => n >= 1 /\ entered = n - 1 /\ awaiting = cmds[n]
    /\ stage = "body" =>
         LET cmds == BodyCommands(call, victim)
             n == Len(cmds) - Len(todo)
         IN  /\ n \in 0..Len(cmds)
             /\ \A k \in 1..Len(todo) : todo[k] = cmds[n + k]
             /\ entered = Len(EnterCommands(call))
             /\ ~Idle => n >= 1 /\ awaiting = cmds[n]

ExitBehind(k) == \E j \in (k + 1)..Len(wire) : wire[j].do = "exit"

\* k is the present call's
Mine(k) ==
    \/ /\ stage \in {"enter", "body"} /\ entered = 1
       /\ wire[k].do \in InnerDos /\ wire[k] = awaiting /\ k = Len(wire)
    \/ /\ stage = "body" /\ entered = 1
       /\ wire[k].do \in DatabaseCommands
       /\ \E m \in 1..Len(BodyCommands(call, victim)) : BodyCommands(call, victim)[m] = wire[k]

Owned ==
    \A k \in 1..Len(wire) : wire[k].do \in TiedDos =>
        \/ ExitBehind(k)
        \/ Mine(k)
        \/ stage = "unwind" /\ Idle /\ todo # <<>>

Apart ==
    /\ \A i, j \in 1..Len(back) : i < j /\ Said(back[i], {"configure"}) => ~Said(back[j], InnerDos)
    /\ Won = 1 /\ awaiting.do = "configure" => \A j \in 1..Len(back) : ~Said(back[j], InnerDos)

\* Nothing under way.
Caught == wire = <<>> /\ back = <<>> /\ shell.asking = "nothing"

There == shell.modes = <<"config", "interface">> /\ shell.port = call.port

OwnOk ==
    stage \in {"enter", "body"} /\ entered = 1 /\ call.kind \in PortKinds \cup HostKinds =>
      \A i \in 1..Len(back) : Said(back[i], InnerDos) =>
        /\ wire = <<>> /\ i = Len(back) - 1 /\ back[Len(back)] = Prompt
        /\ shell.asking = "nothing"
        /\ awaiting = back[i].of
        /\ awaiting.do = "interface" => There

\* The answer that is taken for success of the line that needs the mode.
Landed ==
    /\ stage \in {"enter", "body"} /\ entered = 1 /\ call.kind \in PortKinds \cup HostKinds
    /\ Accepted /\ awaiting.do \in InnerDos
    => Caught /\ (awaiting.do = "interface" => There)

\* A call for a port that has entered its interface is in step with the switch.
InHand ==
    /\ stage = "body" \/ (stage = "enter" /\ entered = 2)
    /\ call.kind \in PortKinds
    => /\ There /\ shell.asking = "nothing"
       /\ \A k \in 1..Len(wire) : wire[k].do \in InterfaceCommands /\ wire[k].port = call.port

\* A port's command reaches its port
Aimed ==
    \A k \in 1..Len(wire) : wire[k].do \in InterfaceCommands =>
        /\ \A j \in 1..k - 1 : wire[j].do # "exit"
        /\ shell.modes = <<"config", "interface">> /\ shell.port = wire[k].port

LateInv ==
    /\ Typed /\ Prompts /\ Attached /\ Descent /\ Credit
    /\ Owned /\ Apart /\ OwnOk /\ Landed /\ InHand /\ Aimed

-----------------------------------------------------------------------------
(***************************************************************************)
(* Counting marks in a sequence that grows at one end and shrinks at the   *)
(* other.                                                                  *)
(***************************************************************************)
LEMMA CountType ==
    ASSUME NEW n, NEW A, A \subseteq 1..n, n \in Nat
    PROVE  IsFiniteSet(A) /\ Cardinality(A) \in Nat
<1>1. IsFiniteSet(1..n)
  BY FS_Interval
<1>2. IsFiniteSet(A)
  BY <1>1, FS_Subset
<1> QED BY <1>2, FS_CardinalityType

LEMMA CountFewer ==
    ASSUME NEW A, IsFiniteSet(A), NEW B, B \subseteq A
    PROVE  /\ IsFiniteSet(B) /\ Cardinality(B) \in Nat /\ Cardinality(A) \in Nat
           /\ Cardinality(B) <= Cardinality(A)
           /\ (\E a \in A : a \notin B) => Cardinality(B) + 1 <= Cardinality(A)
<1>1. B \in SUBSET A
  OBVIOUS
<1>2. IsFiniteSet(B) /\ Cardinality(B) <= Cardinality(A) /\ (Cardinality(A) = Cardinality(B) => A = B)
  BY <1>1, FS_Subset
<1>3. Cardinality(B) \in Nat /\ Cardinality(A) \in Nat
  BY <1>2, FS_CardinalityType
<1> QED BY <1>2, <1>3

LEMMA CountOneMore ==
    ASSUME NEW A, IsFiniteSet(A), NEW x, NEW B, B \subseteq A \cup {x}
    PROVE  /\ IsFiniteSet(B) /\ Cardinality(B) \in Nat /\ Cardinality(A) \in Nat
           /\ Cardinality(B) <= Cardinality(A) + 1
<1>1. IsFiniteSet(A \cup {x}) /\ Cardinality(A \cup {x}) <= Cardinality(A) + 1
      /\ Cardinality(A) \in Nat
  BY FS_AddElement, FS_CardinalityType
<1>2. IsFiniteSet(B) /\ Cardinality(B) <= Cardinality(A \cup {x}) /\ Cardinality(B) \in Nat
      /\ Cardinality(A \cup {x}) \in Nat
  BY <1>1, CountFewer
<1> QED BY <1>1, <1>2

LEMMA CountSome ==
    ASSUME NEW A, IsFiniteSet(A)
    PROVE  /\ Cardinality(A) \in Nat
           /\ \A a \in A : Cardinality(A) >= 1
           /\ \A a, b \in A : a # b => Cardinality(A) >= 2
           /\ Cardinality(A) = 0 => A = {}
           /\ A = {} => Cardinality(A) = 0
<1>1. Cardinality(A) \in Nat /\ (Cardinality(A) = 0 <=> A = {})
  BY FS_CardinalityType, FS_EmptySet
<1>2. ASSUME NEW a \in A, NEW b \in A, a # b PROVE Cardinality(A) >= 2
  <2>1. Cardinality(A) # 0
    BY <1>1
  <2>2. Cardinality(A) # 1
    <3>1. SUFFICES ASSUME Cardinality(A) = 1 PROVE FALSE
      OBVIOUS
    <3>2. PICK x : A = {x}
      BY <3>1, FS_Singleton
    <3> QED BY <1>2, <3>2
  <2> QED BY <1>1, <2>1, <2>2
<1> QED BY <1>1, <1>2

\* What is left when the first n have been read.
LEMMA CountShift ==
    ASSUME NEW A, IsFiniteSet(A), A \subseteq Nat, NEW n \in Nat, NEW B, B \subseteq Nat,
           \A b \in B : b + n \in A
    PROVE  /\ IsFiniteSet(B) /\ Cardinality(B) \in Nat /\ Cardinality(A) \in Nat
           /\ Cardinality(B) <= Cardinality(A)
           /\ (\E a \in A : \A b \in B : b + n # a) => Cardinality(B) + 1 <= Cardinality(A)
<1> DEFINE T == {a \in A : \E b \in B : b + n = a}
           f == [b \in B |-> b + n]
<1>1. T \subseteq A
  OBVIOUS
<1>2. /\ IsFiniteSet(T) /\ Cardinality(T) \in Nat /\ Cardinality(A) \in Nat
      /\ Cardinality(T) <= Cardinality(A)
      /\ (\E a \in A : a \notin T) => Cardinality(T) + 1 <= Cardinality(A)
  BY <1>1, CountFewer
<1>3. f \in Injection(B, T)
  <2>1. f \in [B -> T]
    OBVIOUS
  <2>2. \A x, y \in B : f[x] = f[y] => x = y
    OBVIOUS
  <2> QED BY <2>1, <2>2, Fun_IsInj
<1>4. IsFiniteSet(B) /\ Cardinality(B) <= Cardinality(T)
  BY <1>2, <1>3, FS_Injection
<1>5. Cardinality(B) \in Nat
  BY <1>4, FS_CardinalityType
<1>6. (\E a \in A : \A b \in B : b + n # a) => \E a \in A : a \notin T
  OBVIOUS
<1> HIDE DEF T
<1> QED BY <1>2, <1>4, <1>5, <1>6

-----------------------------------------------------------------------------
(***************************************************************************)
(* Sequences that grow at one end and shrink at the other.                 *)
(***************************************************************************)
LEMMA Suffix ==
    ASSUME NEW S, NEW s \in Seq(S), NEW n \in 0..Len(s), NEW t, t = SubSeq(s, n + 1, Len(s))
    PROVE  /\ t \in Seq(S) /\ Len(t) \in Nat /\ Len(s) \in Nat /\ n \in Nat
           /\ Len(t) = Len(s) - n
           /\ \A i \in 1..Len(t) : t[i] = s[i + n] /\ i + n \in 1..Len(s)
           /\ t = <<>> <=> n = Len(s)
<1>1. Len(s) \in Nat /\ n \in Nat /\ n <= Len(s) /\ \A i \in 1..Len(s) : s[i] \in S
  OBVIOUS
<1>2. n + 1 \in Int /\ Len(s) \in Int /\ \A i \in n + 1..Len(s) : s[i] \in S
  BY <1>1
<1>3. /\ t \in Seq(S)
      /\ Len(t) = IF n + 1 <= Len(s) THEN Len(s) - (n + 1) + 1 ELSE 0
      /\ \A i \in 1..Len(s) - (n + 1) + 1 : t[i] = s[n + 1 + i - 1]
  BY <1>2, SubSeqProperties
<1>4. Len(t) = Len(s) - n
  BY <1>1, <1>3
<1>5. \A i \in 1..Len(t) : t[i] = s[i + n] /\ i + n \in 1..Len(s)
  <2> SUFFICES ASSUME NEW i \in 1..Len(t) PROVE t[i] = s[i + n] /\ i + n \in 1..Len(s)
    OBVIOUS
  <2>1. i \in 1..Len(s) - (n + 1) + 1 /\ n + 1 + i - 1 = i + n
    BY <1>1, <1>4
  <2> QED BY <1>1, <1>3, <1>4, <2>1
<1>6. t = <<>> <=> Len(t) = 0
  BY <1>3, EmptySeq
<1> QED BY <1>1, <1>3, <1>4, <1>5, <1>6

LEMMA Prefix ==
    ASSUME NEW S, NEW s \in Seq(S), NEW n \in 0..Len(s), NEW t, t = SubSeq(s, 1, n)
    PROVE  /\ t \in Seq(S) /\ Len(t) = n /\ n \in Nat
           /\ \A i \in 1..n : t[i] = s[i]
<1>1. Len(s) \in Nat /\ n \in Nat /\ n <= Len(s) /\ \A i \in 1..Len(s) : s[i] \in S
  OBVIOUS
<1>2. 1 \in Int /\ n \in Int /\ \A i \in 1..n : s[i] \in S
  BY <1>1
<1>3. /\ t \in Seq(S)
      /\ Len(t) = IF 1 <= n THEN n - 1 + 1 ELSE 0
      /\ \A i \in 1..n - 1 + 1 : t[i] = s[1 + i - 1]
  BY <1>2, SubSeqProperties
<1>4. \A i \in 1..n : i \in 1..n - 1 + 1 /\ 1 + i - 1 = i
  BY <1>1
<1> QED BY <1>1, <1>3, <1>4

LEMMA Joined ==
    ASSUME NEW S, NEW s \in Seq(S), NEW t \in Seq(S), NEW u, u = s \o t
    PROVE  /\ u \in Seq(S) /\ Len(s) \in Nat /\ Len(t) \in Nat /\ Len(u) = Len(s) + Len(t)
           /\ \A i \in 1..Len(s) : u[i] = s[i]
           /\ \A i \in 1..Len(t) : u[Len(s) + i] = t[i]
<1>1. /\ u \in Seq(S) /\ Len(u) = Len(s) + Len(t)
      /\ \A i \in 1..Len(s) + Len(t) : u[i] = IF i <= Len(s) THEN s[i] ELSE t[i - Len(s)]
  BY ConcatProperties
<1>2. Len(s) \in Nat /\ Len(t) \in Nat
  OBVIOUS
<1>3. \A i \in 1..Len(s) : u[i] = s[i]
  BY <1>1, <1>2
<1>4. \A i \in 1..Len(t) : u[Len(s) + i] = t[i]
  <2> SUFFICES ASSUME NEW i \in 1..Len(t) PROVE u[Len(s) + i] = t[i]
    OBVIOUS
  <2>1. Len(s) + i \in 1..Len(s) + Len(t) /\ ~(Len(s) + i <= Len(s)) /\ (Len(s) + i) - Len(s) = i
    BY <1>2
  <2> QED BY <1>1, <2>1
<1> QED BY <1>1, <1>2, <1>3, <1>4

LEMMA Rest ==
    ASSUME NEW S, NEW s \in Seq(S), s # <<>>, NEW t, t = Tail(s)
    PROVE  /\ Head(s) = s[1] /\ s[1] \in S /\ t \in Seq(S)
           /\ Len(s) \in Nat /\ Len(s) >= 1 /\ Len(t) = Len(s) - 1 /\ Len(t) \in Nat
           /\ \A i \in 1..Len(t) : t[i] = s[i + 1] /\ i + 1 \in 1..Len(s)
<1>1. Len(s) \in Nat /\ Len(s) >= 1 /\ Head(s) = s[1]
  BY EmptySeq
<1>2. t \in Seq(S) /\ Len(t) = Len(s) - 1 /\ \A i \in 1..Len(t) : t[i] = s[i + 1]
  BY HeadTailProperties
<1> QED BY <1>1, <1>2

LEMMA ShortSeqs ==
    ASSUME NEW S, NEW x \in S, NEW y \in S
    PROVE  /\ <<>> \in Seq(S) /\ Len(<<>>) = 0
           /\ <<x>> \in Seq(S) /\ Len(<<x>>) = 1 /\ <<x>>[1] = x /\ <<x>> # <<>>
           /\ <<x, y>> \in Seq(S) /\ Len(<<x, y>>) = 2 /\ <<x, y>>[1] = x /\ <<x, y>>[2] = y
           /\ <<x, y>> # <<>>
OBVIOUS

\* The modes there are, and how they follow each other.
LEMMA FrontOf ==
    ASSUME NEW x, NEW y
    PROVE  Front(<<x>>) = <<>> /\ Front(<<x, y>>) = <<x>> /\ Last(<<x>>) = x /\ Last(<<x, y>>) = y
<1>1. Len(<<x>>) = 1 /\ Len(<<x, y>>) = 2 /\ <<x>>[1] = x /\ <<x, y>>[2] = y
  OBVIOUS
<1>2. SubSeq(<<x>>, 1, 0) = <<>>
  BY SubSeqEmpty
<1>3. SubSeq(<<x, y>>, 1, 1) = <<x>>
  BY OfTwo
<1>4. Front(<<x>>) = SubSeq(<<x>>, 1, 0) /\ Front(<<x, y>>) = SubSeq(<<x, y>>, 1, 1)
  BY <1>1 DEF Front
<1>5. Last(<<x>>) = <<x>>[1] /\ Last(<<x, y>>) = <<x, y>>[2]
  BY <1>1 DEF Last
<1> QED BY <1>1, <1>2, <1>3, <1>4, <1>5

LEMMA PushOf ==
    /\ \A x : Append(<<>>, x) = <<x>>
    /\ \A x, y : Append(<<x>>, y) = <<x, y>>
<1>1. ASSUME NEW x PROVE Append(<<>>, x) = <<x>>
  <2>1. <<>> \in Seq({x}) /\ <<x>> \in Seq({x}) /\ Len(<<x>>) = 1 /\ <<x>>[1] = x
    OBVIOUS
  <2>0. Len(<<>>) = 0 /\ 0 + 1 = 1
    OBVIOUS
  <2>2. /\ Append(<<>>, x) \in Seq({x}) /\ Len(Append(<<>>, x)) = 1
        /\ Append(<<>>, x)[1] = x
    <3>1. /\ Append(<<>>, x) \in Seq({x}) /\ Len(Append(<<>>, x)) = Len(<<>>) + 1
          /\ Append(<<>>, x)[Len(<<>>) + 1] = x
      BY <2>1, AppendProperties
    <3> QED BY <2>0, <3>1
  <2> QED BY <2>1, <2>2, SeqEqual
<1>2. ASSUME NEW x, NEW y PROVE Append(<<x>>, y) = <<x, y>>
  <2> DEFINE s == <<x>>
             t == <<x, y>>
             T == {x, y}
  <2>1. /\ s \in Seq(T) /\ Len(s) = 1 /\ s[1] = x /\ y \in T
        /\ t \in Seq(T) /\ Len(t) = 2 /\ t[1] = x /\ t[2] = y
    OBVIOUS
  <2> HIDE DEF s, t, T
  <2> DEFINE u == Append(s, y)
  <2>a. s \in Seq(T) /\ y \in T
    BY <2>1
  <2>2. u \in Seq(T) /\ Len(u) = Len(s) + 1 /\ u[Len(s) + 1] = y
    BY ONLY <2>a, AppendProperties
  <2>3. \A i \in 1..Len(s) : u[i] = s[i]
    BY ONLY <2>a, AppendProperties
  <2> HIDE DEF u
  <2>4. u[1] = x /\ Len(u) = 2 /\ u[2] = y
    BY <2>1, <2>2, <2>3
  <2>5. u = t
    BY <2>1, <2>2, <2>4, SeqEqual
  <2> QED BY <2>5 DEF s, t, u
<1> QED BY <1>1, <1>2

LEMMA LevelLens ==
    ASSUME NEW m \in Levels
    PROVE  /\ Len(m) \in Nat /\ Len(m) <= 2
           /\ Len(m) = 0 <=> m = <<>>
           /\ Len(m) = 1 <=> m \in {<<"config">>, <<"database">>}
           /\ Len(m) = 2 <=> m \in {<<"config", "interface">>, <<"config", "database">>}
<1>1. /\ Len(<<>>) = 0 /\ Len(<<"database">>) = 1 /\ Len(<<"config">>) = 1
      /\ Len(<<"config", "interface">>) = 2 /\ Len(<<"config", "database">>) = 2
  OBVIOUS
<1> QED BY <1>1 DEF Levels

LEMMA LevelModes ==
    ASSUME NEW s, s.modes \in Levels
    PROVE  /\ Mode(s) = "exec" <=> s.modes = <<>>
           /\ Mode(s) = "config" <=> s.modes = <<"config">>
           /\ Mode(s) = "interface" <=> s.modes = <<"config", "interface">>
           /\ Mode(s) = "database" <=> s.modes \in {<<"database">>, <<"config", "database">>}
<1>1. \A x : Last(<<x>>) = x /\ <<x>> # <<>>
  BY FrontOf
<1>2. \A x, y : Last(<<x, y>>) = y /\ <<x, y>> # <<>>
  BY FrontOf
<1>3. CASE s.modes = <<>>
  BY <1>3, <1>1, <1>2 DEF Mode
<1>4. CASE s.modes = <<"database">>
  <2>1. Mode(s) = "database"
    BY <1>4, <1>1 DEF Mode
  <2> QED BY <1>4, <2>1, LevelLens DEF Levels
<1>5. CASE s.modes = <<"config">>
  <2>1. Mode(s) = "config"
    BY <1>5, <1>1 DEF Mode
  <2> QED BY <1>5, <2>1, LevelLens DEF Levels
<1>6. CASE s.modes = <<"config", "interface">>
  <2>1. Mode(s) = "interface"
    BY <1>6, <1>2 DEF Mode
  <2>2. <<"config", "interface">> # <<"config", "database">>
    OBVIOUS
  <2> QED BY <1>6, <2>1, <2>2, LevelLens DEF Levels
<1>7. CASE s.modes = <<"config", "database">>
  <2>1. Mode(s) = "database"
    BY <1>7, <1>2 DEF Mode
  <2>2. <<"config", "interface">> # <<"config", "database">>
    OBVIOUS
  <2> QED BY <1>7, <2>1, <2>2, LevelLens DEF Levels
<1> QED BY <1>3, <1>4, <1>5, <1>6, <1>7 DEF Levels

-----------------------------------------------------------------------------
(***************************************************************************)
(* What a line can do to the shell, and what it prints, whatever mode the  *)
(* shell is in and whatever it asks.                                       *)
(***************************************************************************)
Page(s, c) == [of |-> c, says |-> "table", at |-> s.config]

\* It answers a question.
Resolves(s, t, out) ==
    /\ s.asking \in Questions /\ t.asking = "nothing"
    /\ t.modes = s.modes /\ t.port = s.port
    /\ \E a \in BOOLEAN : t.config \in {s.config, [s.config EXCEPT !.certificate = a],
                                       [s.config EXCEPT !.saved = a]}
    /\ \/ out = <<>> /\ s.asking = "reload"
       \/ out = <<Prompt>>
       \/ \E what \in {"success", "failure"} : out = <<Says(Do("copy"), what), Prompt>>

\* It is refused.
Refuses(s, c, t, out) ==
    /\ c.do \notin Shows
    /\ t = s /\ s.asking = "nothing" /\ out = <<Says(c, "error"), Prompt>>

\* It asks a question.
Queries(s, c, t, out) ==
    /\ c.do \in Questions
    /\ s.asking = "nothing" /\ t.asking \in Questions
    /\ t.modes = s.modes /\ t.port = s.port /\ t.config = s.config
    /\ out \in {<<Says(c, "question")>>, <<Says(c, "password")>>}

Quietly(s, c, t, out) ==
    /\ s.asking = "nothing" /\ t.asking = "nothing"
    /\ out = <<Says(c, "nothing"), Prompt>>

\* It goes down into a mode.
Descends(s, c, t, out) ==
    /\ c.do \in EnterDos
    /\ Quietly(s, c, t, out) /\ t.config = s.config
    /\ c.do = "vlanDatabase" =>
         \/ s.modes = <<>> /\ t.modes = <<"database">>
         \/ s.modes = <<"config">> /\ t.modes = <<"config", "database">>
    /\ c.do = "configure" => s.modes = <<>> /\ t.modes = <<"config">>
    /\ c.do = "interface" =>
         s.modes = <<"config">> /\ t.modes = <<"config", "interface">> /\ t.port = c.port

\* It leaves a mode, if there is one.
Climbs(s, c, t, out) ==
    /\ c.do = "exit"
    /\ Quietly(s, c, t, out) /\ t.config = s.config /\ t.port \in {s.port, NoPort}
    /\ t.modes \in Levels
    /\ Len(t.modes) = IF s.modes = <<>> THEN 0 ELSE Len(s.modes) - 1

\* It shows a page.
Looks(s, c, t, out) ==
    /\ c.do \in Shows
    /\ s.asking = "nothing" /\ t.asking = "nothing"
    /\ out = <<Page(s, c), Prompt>>
    /\ t.modes = s.modes /\ t.port = s.port
    /\ t.config = s.config \/ t.config = [s.config EXCEPT !.lag = {}]

\* It changes the configuration.
Works(s, c, t, out) ==
    /\ c.do \in BodyDos
    /\ Quietly(s, c, t, out) /\ t.modes = s.modes /\ t.port = s.port
    /\ c.do \in DatabaseCommands =>
         /\ s.modes \in {<<"database">>, <<"config", "database">>}
         /\ ~DatabaseRejects(s.config, c) /\ t.config = DatabaseEffect(s.config, c)
    /\ c.do \in InterfaceCommands =>
         /\ s.modes = <<"config", "interface">>
         /\ ~InterfaceRejects(s.config, c) /\ t.config = InterfaceEffect(s.config, c, s.port)
    /\ c.do \in GlobalCommands =>
         /\ ~GlobalRejects(s, c) /\ t.config = GlobalEffect(s.config, c)
         /\ c.do \notin {"address", "gateway"} => s.modes = <<"config">>

\* It touches HTTPS, or nothing.
Passes(s, c, t, out) ==
    /\ c.do \in {"https", "paging", "enable", "password"}
    /\ Quietly(s, c, t, out) /\ t.modes = s.modes /\ t.port = s.port
    /\ t.config = IF c.do = "https" THEN [s.config EXCEPT !.https = c.on] ELSE s.config

Outcome(s, c, t, out) ==
    \/ Resolves(s, t, out)
    \/ Refuses(s, c, t, out)
    \/ Queries(s, c, t, out)
    \/ Descends(s, c, t, out)
    \/ Climbs(s, c, t, out)
    \/ Looks(s, c, t, out)
    \/ Works(s, c, t, out)
    \/ Passes(s, c, t, out)

LEMMA ShellSet ==
    ASSUME NEW s \in Shell, NEW f, NEW t, t = [s EXCEPT !.config = f]
    PROVE  /\ t.config = f /\ t.modes = s.modes /\ t.port = s.port /\ t.asking = s.asking
           /\ t.down = s.down
BY DEF Shell

LEMMA OutcomeReply ==
    ASSUME NEW s \in Shell, s.config.certificate \in BOOLEAN, s.config.saved \in BOOLEAN,
           s.asking # "nothing", NEW c, NEW done \in BOOLEAN
    PROVE  Resolves(s, Execute(s, c, done).shell, Execute(s, c, done).out)
<1> DEFINE t == [s EXCEPT !.asking = "nothing"]
<1>1. s.asking \in Questions /\ s.config \in Config
  BY DEF Shell
<1>2. Execute(s, c, done) = Answered(s, c, done)
  BY DEF Execute
<1>3. t \in Shell /\ t.modes = s.modes /\ t.port = s.port /\ t.config = s.config
      /\ t.asking = "nothing"
  BY DEF Shell
<1>5. CASE s.asking = "copy"
  <2> DEFINE f == [t.config EXCEPT !.certificate = @ \/ done]
             w == IF done THEN "success" ELSE "failure"
  <2>1. Execute(s, c, done) = [shell |-> [t EXCEPT !.config = f],
                                out |-> <<Says(Do("copy"), w), Prompt>>]
    BY <1>2, <1>5 DEF Answered
  <2>2. f = [s.config EXCEPT !.certificate = (s.config.certificate \/ done)]
    BY <1>3
  <2>3. (s.config.certificate \/ done) \in BOOLEAN
    OBVIOUS
  <2> DEFINE u == [t EXCEPT !.config = f]
  <2>4. u.config = f /\ u.modes = t.modes /\ u.port = t.port /\ u.asking = t.asking
    BY <1>3, ShellSet
  <2>5. w \in {"success", "failure"}
    OBVIOUS
  <2> HIDE DEF u, f, t, w
  <2>6. Execute(s, c, done).shell = u /\ Execute(s, c, done).out = <<Says(Do("copy"), w), Prompt>>
    BY <2>1 DEF u
  <2> QED BY <1>1, <1>3, <2>2, <2>3, <2>4, <2>5, <2>6 DEF Resolves
<1>6. CASE s.asking = "save"
  <2> DEFINE f == [t.config EXCEPT !.saved = @ \/ c.do = "yes"]
  <2>1. Execute(s, c, done) = [shell |-> [t EXCEPT !.config = f], out |-> <<Prompt>>]
    BY <1>2, <1>6 DEF Answered
  <2>2. f = [s.config EXCEPT !.saved = (s.config.saved \/ c.do = "yes")]
    BY <1>3
  <2>3. (s.config.saved \/ c.do = "yes") \in BOOLEAN
    OBVIOUS
  <2> DEFINE u == [t EXCEPT !.config = f]
  <2>4. u.config = f /\ u.modes = t.modes /\ u.port = t.port /\ u.asking = t.asking
    BY <1>3, ShellSet
  <2> HIDE DEF u, f, t
  <2>6. Execute(s, c, done).shell = u /\ Execute(s, c, done).out = <<Prompt>>
    BY <2>1 DEF u
  <2> QED BY <1>1, <1>3, <2>2, <2>3, <2>4, <2>6 DEF Resolves
<1>7. CASE s.asking = "reload"
  <2> DEFINE u == [t EXCEPT !.down = (c.do = "yes")]
             o == IF c.do = "yes" THEN <<>> ELSE <<Prompt>>
  <2>1. Execute(s, c, done) = [shell |-> u, out |-> o]
    BY <1>2, <1>7 DEF Answered
  <2>4. u.config = t.config /\ u.modes = t.modes /\ u.port = t.port /\ u.asking = t.asking
    BY <1>3 DEF Shell
  <2>5. o = <<>> \/ o = <<Prompt>>
    OBVIOUS
  <2> HIDE DEF u, t, o
  <2>6. Execute(s, c, done).shell = u /\ Execute(s, c, done).out = o
    BY <2>1
  <2> QED BY <1>1, <1>3, <1>7, <2>4, <2>5, <2>6 DEF Resolves
<1>8. CASE s.asking = "enable"
  <2>1. Execute(s, c, done) = [shell |-> t, out |-> <<Prompt>>]
    BY <1>2, <1>8 DEF Answered
  <2> HIDE DEF t
  <2>2. Execute(s, c, done).shell = t /\ Execute(s, c, done).out = <<Prompt>>
    BY <2>1
  <2> QED BY <1>1, <1>3, <2>2 DEF Resolves
<1> QED BY <1>1, <1>5, <1>6, <1>7, <1>8 DEF Questions, ExecCommands

\* What "do" can be.
AllDos ==
    Shows \cup DatabaseCommands \cup InterfaceCommands \cup GlobalCommands \cup ExecCommands
      \cup SetupCommands \cup EnterDos \cup {"exit", "https", "yes"}

LEMMA LineDos ==
    ASSUME NEW c \in Line
    PROVE  /\ c \in Command /\ c.do \in AllDos
           /\ c.do \in DatabaseCommands \cup VlanCommands => c.vlan \in Vlan
           /\ c.do \in InterfaceCommands \cup {"interface"} => c.port \in Port
           /\ c.do = "addHost" => c.host \in Host
           /\ c.on \in BOOLEAN /\ c.row \in Nat
BY DEF Line, Command, AllDos, EnterDos

LEMMA OutcomeDescent ==
    ASSUME NEW s \in Shell, s.modes \in Levels, s.asking = "nothing", NEW c, NEW done,
           c.do \in EnterDos, ~Rejects(s, c)
    PROVE  Descends(s, c, Execute(s, c, done).shell, Execute(s, c, done).out)
<1> DEFINE t == Execute(s, c, done).shell
           out == Execute(s, c, done).out
<1>1. t = Effect(s, c) /\ out = Printed(s, c)
  BY ExecuteUnasked DEF EnterDos
<1>2. out = <<Says(c, "nothing"), Prompt>>
  BY <1>1 DEF Printed, EnterDos, ExecCommands, Shows
<1>3. /\ c.do = "vlanDatabase" => Effect(s, c) = Enter(s, "database", s.port)
      /\ c.do = "configure"    => Effect(s, c) = Enter(s, "config", s.port)
      /\ c.do = "interface"    => Effect(s, c) = Enter(s, "interface", c.port)
  <2> USE DEF Effect, Questions, ExecCommands, DatabaseCommands,
                  InterfaceCommands, GlobalCommands, Globals, VlanCommands, PortSettings
  <2>1. CASE c.do = "vlanDatabase"
    BY <2>1
  <2>2. CASE c.do = "configure"
    BY <2>2
  <2>3. CASE c.do = "interface"
    BY <2>3
  <2> QED BY <2>1, <2>2, <2>3 DEF EnterDos
<1>4. \A m, p : LET u == Enter(s, m, p)
                IN  u.modes = Append(s.modes, m) /\ u.port = p /\ u.asking = "nothing"
                    /\ u.config = s.config
  BY DEF Enter, Shell
<1> HIDE DEF t, out
<1>5. CASE c.do = "vlanDatabase"
  <2>1. t = Enter(s, "database", s.port)
    BY <1>1, <1>3, <1>5
  <2>2. Mode(s) \in {"exec", "config"}
    BY <1>5 DEF Rejects
  <2>3. s.modes = <<>> \/ s.modes = <<"config">>
    BY <2>2, LevelModes
  <2>4. t.modes = Append(s.modes, "database") /\ t.asking = "nothing" /\ t.config = s.config
    BY <1>4, <2>1
  <2>5. \/ s.modes = <<>> /\ t.modes = <<"database">>
        \/ s.modes = <<"config">> /\ t.modes = <<"config", "database">>
    BY <2>3, <2>4, PushOf
  <2> QED BY <1>2, <1>5, <2>4, <2>5 DEF Descends, Quietly, EnterDos, t, out
<1>6. CASE c.do = "configure"
  <2>1. t = Enter(s, "config", s.port)
    BY <1>1, <1>3, <1>6
  <2>2. Mode(s) = "exec"
    BY <1>6 DEF Rejects
  <2>3. s.modes = <<>>
    BY <2>2, LevelModes
  <2> QED BY <1>2, <1>4, <1>6, <2>1, <2>3, PushOf DEF Descends, Quietly, EnterDos, t, out
<1>7. CASE c.do = "interface"
  <2>1. t = Enter(s, "interface", c.port)
    BY <1>1, <1>3, <1>7
  <2>2. Mode(s) = "config"
    BY <1>7 DEF Rejects
  <2>3. s.modes = <<"config">>
    BY <2>2, LevelModes
  <2> QED BY <1>2, <1>4, <1>7, <2>1, <2>3, PushOf DEF Descends, Quietly, EnterDos, t, out
<1> QED BY <1>5, <1>6, <1>7 DEF EnterDos, t, out

LEMMA OutcomeExit ==
    ASSUME NEW s \in Shell, s.modes \in Levels, s.asking = "nothing", NEW c, NEW done,
           c.do = "exit"
    PROVE  Climbs(s, c, Execute(s, c, done).shell, Execute(s, c, done).out)
<1> DEFINE t == Execute(s, c, done).shell
           out == Execute(s, c, done).out
           up == IF s.modes = <<>> THEN <<>> ELSE Front(s.modes)
           p == IF up # <<>> /\ Last(up) = "interface" THEN s.port ELSE NoPort
<1>1. ~Rejects(s, c)
  BY DEF Rejects, DatabaseCommands, InterfaceCommands, GlobalCommands, Globals, VlanCommands,
         PortSettings, ExecCommands
<1>2. t = Effect(s, c) /\ out = Printed(s, c)
  BY <1>1, ExecuteUnasked
<1>3. out = <<Says(c, "nothing"), Prompt>>
  BY <1>1, <1>2 DEF Printed, ExecCommands, Shows
<1>4. Effect(s, c) = [s EXCEPT !.modes = up, !.port = p]
  BY DEF Effect, Questions, ExecCommands, DatabaseCommands, InterfaceCommands,
         GlobalCommands, Globals, VlanCommands, PortSettings, Shell
<1>5. up \in Levels /\ Len(up) = IF s.modes = <<>> THEN 0 ELSE Len(s.modes) - 1
  <2>1. CASE s.modes = <<>>
    BY <2>1 DEF Levels
  <2>2. ASSUME NEW x, s.modes = <<x>> PROVE up = <<>> /\ Len(s.modes) = 1
    BY <2>2, FrontOf
  <2>3. ASSUME NEW x, NEW y, s.modes = <<x, y>> PROVE up = <<x>> /\ Len(s.modes) = 2
    <3>1. s.modes # <<>> /\ Len(s.modes) = 2
      BY <2>3, ShortSeqs
    <3>2. Front(s.modes) = <<x>>
      BY <2>3, FrontOf
    <3> QED BY <3>1, <3>2
  <2>4. Len(<<>>) = 0 /\ Len(<<"config">>) = 1 /\ <<>> \in Levels /\ <<"config">> \in Levels
    BY DEF Levels
  <2>5. CASE s.modes = <<"database">> \/ s.modes = <<"config">>
    <3>1. up = <<>> /\ Len(s.modes) = 1 /\ s.modes # <<>>
      <4>1. CASE s.modes = <<"database">>
        BY <2>2, <4>1
      <4>2. CASE s.modes = <<"config">>
        BY <2>2, <4>2
      <4> QED BY <2>5, <4>1, <4>2
    <3> HIDE DEF up
    <3> QED BY <2>4, <3>1
  <2>6. CASE s.modes = <<"config", "interface">> \/ s.modes = <<"config", "database">>
    <3>1. up = <<"config">> /\ Len(s.modes) = 2
      <4>1. CASE s.modes = <<"config", "interface">>
        BY <2>3, <4>1
      <4>2. CASE s.modes = <<"config", "database">>
        BY <2>3, <4>2
      <4> QED BY <2>6, <4>1, <4>2
    <3>2. s.modes # <<>>
      BY <2>4, <3>1
    <3> HIDE DEF up
    <3> QED BY <2>4, <3>1, <3>2
  <2> QED BY <2>1, <2>5, <2>6 DEF Levels
<1> HIDE DEF up, p
<1>6. t.modes = up /\ t.port = p /\ t.asking = "nothing" /\ t.config = s.config
  BY <1>2, <1>4 DEF Shell
<1>7. p \in {s.port, NoPort}
  BY DEF p
<1> HIDE DEF t, out
<1> QED BY <1>3, <1>5, <1>6, <1>7 DEF Climbs, Quietly, t, out

\* The commands that neither move between modes nor ask.
LEMMA OutcomePlain ==
    ASSUME NEW s \in Shell, s.modes \in Levels, s.asking = "nothing", NEW c, NEW done,
           c.do \in Shows \cup BodyDos, ~Rejects(s, c)
    PROVE  \/ Looks(s, c, Execute(s, c, done).shell, Execute(s, c, done).out)
           \/ Works(s, c, Execute(s, c, done).shell, Execute(s, c, done).out)
<1> DEFINE t == Execute(s, c, done).shell
           out == Execute(s, c, done).out
<1>0. c.do \notin EnterDos \cup {"exit", "https"} \cup Questions
  BY DEF EnterDos, BodyDos, Shows, DatabaseCommands, InterfaceCommands, GlobalCommands, Globals,
         VlanCommands, PortSettings, Questions, ExecCommands
<1>1. t = Effect(s, c) /\ out = Printed(s, c)
  BY <1>0, ExecuteUnasked DEF Questions
<1>2. \A f : LET u == [s EXCEPT !.config = f]
             IN  u.modes = s.modes /\ u.port = s.port /\ u.asking = "nothing" /\ u.config = f
  BY DEF Shell
<1>3. CASE c.do \in Shows
  <2>1. out = <<Page(s, c), Prompt>>
    BY <1>0, <1>1, <1>3 DEF Printed, Page, Questions
  <2>2. \/ Effect(s, c) = s
        \/ \E f : f = [s.config EXCEPT !.lag = {}] /\ Effect(s, c) = [s EXCEPT !.config = f]
    <3>1. CASE c.do = "power"
      <4>1. Effect(s, c) = [s EXCEPT !.config.lag = {}]
        BY <3>1 DEF Effect, Questions, ExecCommands, DatabaseCommands,
                  InterfaceCommands, GlobalCommands, Globals, VlanCommands, PortSettings
      <4> QED BY <4>1
    <3>2. CASE c.do # "power"
      <4>1. c.do \notin BodyDos
        BY <1>3 DEF BodyDos, Shows, DatabaseCommands, InterfaceCommands, GlobalCommands, Globals,
                    VlanCommands, PortSettings
      <4> QED BY <1>0, <3>2, <4>1 DEF Effect, EnterDos, BodyDos
    <3> QED BY <3>1, <3>2
  <2>3. /\ t.modes = s.modes /\ t.port = s.port /\ t.asking = "nothing"
        /\ t.config = s.config \/ t.config = [s.config EXCEPT !.lag = {}]
    BY <1>1, <1>2, <2>2
  <2> HIDE DEF t, out
  <2> QED BY <1>3, <2>1, <2>3 DEF Looks, t, out
<1>4. CASE c.do \in BodyDos
  <2>1. out = <<Says(c, "nothing"), Prompt>>
    <3>1. c.do \notin Shows
      BY <1>4 DEF BodyDos, Shows, DatabaseCommands, InterfaceCommands, GlobalCommands, Globals,
                  VlanCommands, PortSettings
    <3> QED BY <1>0, <1>1, <3>1 DEF Printed, Questions
  <2>2. CASE c.do \in DatabaseCommands
    <3>1. Effect(s, c) = [s EXCEPT !.config = DatabaseEffect(s.config, c)]
      BY <2>2 DEF Effect, Shell, Questions, ExecCommands, DatabaseCommands,
                  InterfaceCommands, GlobalCommands, Globals, VlanCommands, PortSettings
    <3>2. c.do \notin InterfaceCommands /\ c.do \notin GlobalCommands
      BY <2>2 DEF DatabaseCommands, InterfaceCommands, GlobalCommands, Globals,
                  VlanCommands, PortSettings
    <3>3. Mode(s) = "database" /\ ~DatabaseRejects(s.config, c)
      BY <2>2 DEF Rejects
    <3>4. /\ t.modes = s.modes /\ t.port = s.port /\ t.asking = "nothing"
          /\ t.config = DatabaseEffect(s.config, c)
      BY <1>1, <1>2, <3>1
    <3> HIDE DEF t, out
    <3> QED BY <1>4, <2>1, <3>2, <3>3, <3>4, LevelModes DEF Works, Quietly, t, out
  <2>3. CASE c.do \in InterfaceCommands
    <3>2. c.do \notin DatabaseCommands /\ c.do \notin GlobalCommands /\ c.do # "power"
      BY <2>3 DEF DatabaseCommands, InterfaceCommands, GlobalCommands, Globals,
                  VlanCommands, PortSettings
    <3>1. Effect(s, c) = [s EXCEPT !.config = InterfaceEffect(s.config, c, s.port)]
      BY <1>0, <2>3, <3>2 DEF Effect, EnterDos, Shell
    <3>3. Mode(s) = "interface" /\ ~InterfaceRejects(s.config, c)
      BY <2>3 DEF Rejects
    <3>4. /\ t.modes = s.modes /\ t.port = s.port /\ t.asking = "nothing"
          /\ t.config = InterfaceEffect(s.config, c, s.port)
      BY <1>1, <1>2, <3>1
    <3> HIDE DEF t, out
    <3> QED BY <1>4, <2>1, <3>2, <3>3, <3>4, LevelModes DEF Works, Quietly, t, out
  <2>4. CASE c.do \in GlobalCommands
    <3>2. c.do \notin DatabaseCommands /\ c.do \notin InterfaceCommands /\ c.do # "power"
      BY <2>4 DEF DatabaseCommands, InterfaceCommands, GlobalCommands, Globals,
                  VlanCommands, PortSettings
    <3>1. Effect(s, c) = [s EXCEPT !.config = GlobalEffect(s.config, c)]
      BY <1>0, <2>4, <3>2 DEF Effect, EnterDos, Shell
    <3>3. ~GlobalRejects(s, c)
      BY <2>4 DEF Rejects
    <3>5. c.do \notin {"address", "gateway"} => Mode(s) = "config"
      BY <3>3 DEF GlobalRejects
    <3>4. /\ t.modes = s.modes /\ t.port = s.port /\ t.asking = "nothing"
          /\ t.config = GlobalEffect(s.config, c)
      BY <1>1, <1>2, <3>1
    <3> HIDE DEF t, out
    <3> QED BY <1>4, <2>1, <3>2, <3>3, <3>4, <3>5, LevelModes DEF Works, Quietly, t, out
  <2> QED BY <1>4, <2>2, <2>3, <2>4 DEF BodyDos
<1> QED BY <1>3, <1>4

LEMMA OutcomeOther ==
    ASSUME NEW s \in Shell, s.asking = "nothing", NEW c, NEW done,
           c.do \in ExecCommands \cup SetupCommands \cup {"https"}, ~Rejects(s, c)
    PROVE  \/ Queries(s, c, Execute(s, c, done).shell, Execute(s, c, done).out)
           \/ Passes(s, c, Execute(s, c, done).shell, Execute(s, c, done).out)
<1> DEFINE t == Execute(s, c, done).shell
           out == Execute(s, c, done).out
<1>1. out = Printed(s, c)
  BY ExecuteUnasked
<1>2. c.do \notin EnterDos \cup {"exit", "power"} \cup DatabaseCommands \cup InterfaceCommands
                \cup GlobalCommands \cup Shows
  BY DEF EnterDos, Shows, DatabaseCommands, InterfaceCommands, GlobalCommands, Globals,
         VlanCommands, PortSettings, ExecCommands, SetupCommands
<1>3. CASE c.do \in ExecCommands \/ (c.do = "enable" /\ AsksPassword)
  <2>1. c.do \in Questions /\ c.do # "https"
    BY <1>3 DEF Questions, ExecCommands
  <2>2. t = Effect(s, c)
    BY <1>3, ExecuteUnasked DEF ExecCommands
  <2>3. Effect(s, c) = [s EXCEPT !.asking = c.do]
    BY <1>2, <2>1 DEF Effect, EnterDos
  <2>4. t.asking = c.do /\ t.modes = s.modes /\ t.port = s.port /\ t.config = s.config
    BY <2>2, <2>3 DEF Shell
  <2>5. out \in {<<Says(c, "question")>>, <<Says(c, "password")>>}
    BY <1>1, <1>3 DEF Printed
  <2> HIDE DEF t, out
  <2> QED BY <2>1, <2>4, <2>5 DEF Queries, t, out
<1>4. CASE c.do = "enable" /\ ~AsksPassword
  <2>1. t = s
    BY <1>4, ExecuteUnasked
  <2>2. out = <<Says(c, "nothing"), Prompt>>
    BY <1>1, <1>2, <1>4 DEF Printed, ExecCommands
  <2> HIDE DEF t, out
  <2> QED BY <1>4, <2>1, <2>2 DEF Passes, Quietly, t, out
<1>5. CASE c.do \in {"password", "paging"}
  <2>1. Effect(s, c) = s
    BY <1>2, <1>5 DEF Effect, EnterDos, Questions, ExecCommands
  <2>2. t = s
    BY <1>5, <2>1, ExecuteUnasked
  <2>3. out = <<Says(c, "nothing"), Prompt>>
    BY <1>1, <1>2, <1>5 DEF Printed, ExecCommands
  <2> HIDE DEF t, out
  <2> QED BY <1>5, <2>2, <2>3 DEF Passes, Quietly, t, out
<1>6. CASE c.do = "https"
  <2> DEFINE f == [s.config EXCEPT !.https = c.on]
  <2>1. Effect(s, c) = [s EXCEPT !.config = f]
    BY <1>6 DEF Effect, Questions, ExecCommands, DatabaseCommands,
                  InterfaceCommands, GlobalCommands, Globals, VlanCommands, PortSettings
  <2>2. t = Effect(s, c)
    BY <1>6, ExecuteUnasked
  <2>3. out = <<Says(c, "nothing"), Prompt>>
    BY <1>1, <1>2, <1>6 DEF Printed, ExecCommands
  <2> HIDE DEF f
  <2>4. t.config = f /\ t.modes = s.modes /\ t.port = s.port /\ t.asking = "nothing"
    BY <2>1, <2>2 DEF Shell
  <2> HIDE DEF t, out
  <2> QED BY <1>6, <2>3, <2>4 DEF Passes, Quietly, t, out, f
<1> QED BY <1>3, <1>4, <1>5, <1>6 DEF SetupCommands

\* One line, executed.
LEMMA OutcomeOf ==
    ASSUME NEW s \in Shell, s.modes \in Levels, NEW c \in Line, NEW done \in BOOLEAN
    PROVE  Outcome(s, c, Execute(s, c, done).shell, Execute(s, c, done).out)
<1>1. CASE s.asking # "nothing"
  <2>1. s.config.certificate \in BOOLEAN /\ s.config.saved \in BOOLEAN
    BY DEF Shell, Config
  <2> QED BY <1>1, <2>1, OutcomeReply DEF Outcome
<1>2. CASE s.asking = "nothing" /\ Rejects(s, c)
  <2>1. Printed(s, c) = <<Says(c, "error"), Prompt>>
    BY <1>2 DEF Printed
  <2>2. c.do \notin Shows
    BY <1>2 DEF Rejects, Shows, DatabaseCommands, InterfaceCommands, GlobalCommands, Globals,
                VlanCommands, PortSettings, ExecCommands
  <2> QED BY <1>2, <2>1, <2>2, ExecuteUnasked DEF Outcome, Refuses
<1>3. CASE s.asking = "nothing" /\ ~Rejects(s, c)
  <2>1. c.do \in AllDos /\ c.do # "yes"
    BY <1>3, LineDos DEF Rejects
  <2>2. CASE c.do \in EnterDos
    BY <1>3, <2>2, OutcomeDescent DEF Outcome
  <2>3. CASE c.do = "exit"
    BY <1>3, <2>3, OutcomeExit DEF Outcome
  <2>4. CASE c.do \in Shows \cup BodyDos
    BY <1>3, <2>4, OutcomePlain DEF Outcome
  <2>5. CASE c.do \in ExecCommands \cup SetupCommands \cup {"https"}
    BY <1>3, <2>5, OutcomeOther DEF Outcome
  <2> QED BY <2>1, <2>2, <2>3, <2>4, <2>5 DEF AllDos, BodyDos
<1> QED BY <1>1, <1>2, <1>3

-----------------------------------------------------------------------------
(***************************************************************************)
(* What is kept of a read: the chunks that say one of some things, in      *)
(* their order and without repetition.                                     *)
(***************************************************************************)
LEMMA LeastNat ==
    ASSUME NEW S, S \subseteq Nat, S # {}
    PROVE  \E i \in S : \A j \in S : i <= j
<1> DEFINE Less == OpToRel(<, Nat)
<1>1. IsWellFoundedOn(Less, Nat)
  BY NatLessThanWellFounded
<1>2. PICK i \in S : \A j \in S : <<j, i>> \notin Less
  BY <1>1, WFMin
<1>3. Less = {ss \in Nat \X Nat : ss[1] < ss[2]}
  BY DEF OpToRel
<1> HIDE DEF Less
<1>4. \A j \in S : ~(j < i)
  <2> SUFFICES ASSUME NEW j \in S, j < i PROVE <<j, i>> \in Less
    BY <1>2
  <2>1. <<j, i>> \in Nat \X Nat /\ <<j, i>>[1] = j /\ <<j, i>>[2] = i
    BY <1>2
  <2> QED BY <1>3, <2>1
<1> QED BY <1>2, <1>4

\* Induction on a set of numbers.
LEMMA AllNat ==
    ASSUME NEW P, 0 \in P, \A n \in Nat : n \in P => n + 1 \in P
    PROVE  Nat \subseteq P
<1> SUFFICES ASSUME Nat \ P # {} PROVE FALSE
  OBVIOUS
<1>1. PICK i \in Nat \ P : \A j \in Nat \ P : i <= j
  BY LeastNat
<1>2. i - 1 \in Nat /\ i - 1 \in P /\ (i - 1) + 1 = i
  BY <1>1
<1> QED BY <1>1, <1>2

KeptOf(read, what, g, n) ==
    \A m \in 0..n : g[m] = IF m = 0 THEN <<>>
                           ELSE IF read[m].says \in what THEN Append(g[m - 1], read[m])
                                                         ELSE g[m - 1]

\* s is what is kept of the first n chunks, at the places that h gives.
Places(read, what, n, s, h) ==
    /\ h \in [1..Len(s) -> 1..n]
    /\ \A i \in 1..Len(s) : s[i] = read[h[i]] /\ read[h[i]].says \in what
    /\ \A i, k \in 1..Len(s) : i < k => h[i] < h[k]
    /\ \A j \in 1..n : read[j].says \in what => \E i \in 1..Len(s) : h[i] = j

\* The function that Saying is the last value of.
Keeping(read, what, n, g) ==
    [m \in 0..n |-> IF m = 0 THEN <<>>
                    ELSE IF read[m].says \in what THEN Append(g[m - 1], read[m]) ELSE g[m - 1]]

LEMMA KeptThere ==
    ASSUME NEW read, NEW what, NEW n \in Nat
    PROVE  \E g : g = Keeping(read, what, n, g)
<1> USE DEF Keeping
<1> DEFINE K(g, n0) == Keeping(read, what, n0, g)
           P == {n0 \in Nat : \E g : g = K(g, n0)}
<1>1. 0 \in P
  <2> DEFINE w == [m \in 0..0 |-> <<>>]
  <2>1. w = K(w, 0)
    OBVIOUS
  <2> QED BY <2>1
<1>2. ASSUME NEW n0 \in Nat, n0 \in P PROVE n0 + 1 \in P
  <2>1. PICK g : g = K(g, n0)
    BY <1>2
  <2> DEFINE x == IF read[n0 + 1].says \in what THEN Append(g[n0], read[n0 + 1]) ELSE g[n0]
             w == [m \in 0..n0 + 1 |-> IF m = n0 + 1 THEN x ELSE g[m]]
  <2>2. \A m \in 0..n0 : w[m] = g[m]
    OBVIOUS
  <2>3. \A m \in 0..n0 : g[m] = K(g, n0)[m]
    BY <2>1
  <2>4. ASSUME NEW m \in 0..n0 + 1 PROVE w[m] = K(w, n0 + 1)[m]
    <3>1. CASE m = n0 + 1
      <4>1. m - 1 = n0 /\ w[n0] = g[n0] /\ m # 0
        BY <3>1, <2>2
      <4>2. w[m] = x
        BY <3>1
      <4> HIDE DEF w
      <4> QED BY <3>1, <4>1, <4>2
    <3>2. CASE m # n0 + 1
      <4>1. m \in 0..n0 /\ (m # 0 => m - 1 \in 0..n0)
        BY <3>2
      <4>2. w[m] = g[m] /\ (m # 0 => w[m - 1] = g[m - 1])
        BY <4>1, <2>2
      <4> HIDE DEF w
      <4> QED BY <2>3, <4>1, <4>2
    <3> QED BY <3>1, <3>2
  <2>5. w = K(w, n0 + 1)
    <3>1. w = [m \in 0..n0 + 1 |-> w[m]]
      OBVIOUS
    <3> HIDE DEF w
    <3> QED BY <2>4, <3>1
  <2>6. \E f : f = K(f, n0 + 1)
    <3> HIDE DEF w
    <3> QED BY <2>5
  <2> QED BY <2>6
<1>3. Nat \subseteq P
  <2> HIDE DEF P
  <2> QED BY <1>1, <1>2, AllNat
<1> QED BY <1>3

LEMMA KeptPlaces ==
    ASSUME NEW S, NEW read \in Seq(S), NEW what, NEW g, KeptOf(read, what, g, Len(read))
    PROVE  \A n \in 0..Len(read) :
             g[n] \in Seq(S) /\ \E h : Places(read, what, n, g[n], h)
<1> DEFINE Q(n) == g[n] \in Seq(S) /\ \E h : Places(read, what, n, g[n], h)
           P == {n \in Nat : n <= Len(read) => Q(n)}
<1>0. Len(read) \in Nat /\ \A i \in 1..Len(read) : read[i] \in S
  OBVIOUS
<1>1. 0 \in P
  <2>1. g[0] = <<>>
    BY <1>0 DEF KeptOf
  <2>2. Len(<<>>) = 0 /\ 1..0 = {} /\ <<>> \in Seq(S)
    OBVIOUS
  <2>3. \E h : h \in [{} -> {}]
    <3>1. [i \in {} |-> 0] \in [{} -> {}]
      OBVIOUS
    <3> QED BY <3>1
  <2>4. \E h : Places(read, what, 0, <<>>, h)
    BY <2>2, <2>3 DEF Places
  <2> QED BY <2>1, <2>2, <2>4
<1>2. ASSUME NEW n \in Nat, n \in P PROVE n + 1 \in P
  <2> SUFFICES ASSUME n + 1 <= Len(read) PROVE Q(n + 1)
    OBVIOUS
  <2> DEFINE s == g[n]
             x == read[n + 1]
             t == g[n + 1]
  <2>1. s \in Seq(S) /\ x \in S
    BY <1>0, <1>2
  <2>2. PICK h : Places(read, what, n, s, h)
    BY <1>0, <1>2
  <2>3. t = IF x.says \in what THEN Append(s, x) ELSE s
    <3>1. n + 1 \in 0..Len(read) /\ n + 1 # 0 /\ (n + 1) - 1 = n
      BY <1>0
    <3> QED BY <3>1 DEF KeptOf
  <2>4. Len(s) \in Nat
    BY <2>1
  <2> HIDE DEF s, x, t
  <2>5. CASE x.says \notin what
    <3>1. t = s
      BY <2>3, <2>5
    <3>2. h \in [1..Len(s) -> 1..n + 1]
      BY <2>2 DEF Places
    <3>3. Places(read, what, n + 1, s, h)
      <4>1. \A j \in 1..n + 1 : read[j].says \in what => j \in 1..n
        BY <2>5 DEF x
      <4> QED BY <2>2, <3>2, <4>1 DEF Places
    <3> QED BY <2>1, <3>1, <3>3 DEF t
  <2>6. CASE x.says \in what
    <3>1. t = Append(s, x)
      BY <2>3, <2>6
    <3>2. t \in Seq(S) /\ Len(t) = Len(s) + 1 /\ t[Len(s) + 1] = x
      BY <2>1, <3>1, AppendProperties
    <3>3. \A i \in 1..Len(s) : t[i] = s[i]
      BY <2>1, <3>1, AppendProperties
    <3> DEFINE k == [i \in 1..Len(t) |-> IF i = Len(t) THEN n + 1 ELSE h[i]]
    <3>4. \A i \in 1..Len(s) : h[i] \in 1..n /\ k[i] = h[i]
      <4>1. h \in [1..Len(s) -> 1..n]
        BY <2>2 DEF Places
      <4>2. \A i \in 1..Len(s) : i \in 1..Len(t) /\ i # Len(t)
        BY <2>4, <3>2
      <4>3. \A i \in 1..Len(s) : h[i] \in 1..n
        BY <4>1
      <4> QED BY <4>2, <4>3
    <3>5. k[Len(t)] = n + 1 /\ Len(t) \in 1..Len(t) /\ \A i \in 1..Len(t) : i = Len(t) \/ i \in 1..Len(s)
      BY <2>4, <3>2
    <3>6. k \in [1..Len(t) -> 1..n + 1]
      <4>1. ASSUME NEW i \in 1..Len(t)
            PROVE  (IF i = Len(t) THEN n + 1 ELSE h[i]) \in 1..n + 1
        <5>1. i = Len(t) \/ h[i] \in 1..n
          BY <3>4, <3>5
        <5> QED BY <5>1
      <4> QED BY <4>1
    <3> HIDE DEF k
    <3>7. \A i \in 1..Len(t) : t[i] = read[k[i]] /\ read[k[i]].says \in what
      <4> SUFFICES ASSUME NEW i \in 1..Len(t)
                   PROVE t[i] = read[k[i]] /\ read[k[i]].says \in what
        OBVIOUS
      <4>1. CASE i = Len(t)
        BY <2>6, <3>2, <3>5, <4>1 DEF x
      <4>2. CASE i # Len(t)
        <5>1. i \in 1..Len(s)
          BY <3>5, <4>2
        <5> QED BY <2>2, <3>3, <3>4, <5>1 DEF Places
      <4> QED BY <4>1, <4>2
    <3>8. \A i, j \in 1..Len(t) : i < j => k[i] < k[j]
      <4> SUFFICES ASSUME NEW i \in 1..Len(t), NEW j \in 1..Len(t), i < j PROVE k[i] < k[j]
        OBVIOUS
      <4>1. i \in 1..Len(s) /\ h[i] \in 1..n /\ k[i] = h[i]
        BY <2>4, <3>2, <3>4
      <4>2. CASE j = Len(t)
        BY <3>5, <4>1, <4>2
      <4>3. CASE j # Len(t)
        <5>1. j \in 1..Len(s) /\ k[j] = h[j]
          BY <3>4, <3>5, <4>3
        <5> QED BY <2>2, <4>1, <5>1 DEF Places
      <4> QED BY <4>2, <4>3
    <3>9. \A j \in 1..n + 1 : read[j].says \in what => \E i \in 1..Len(t) : k[i] = j
      <4> SUFFICES ASSUME NEW j \in 1..n + 1, read[j].says \in what
                   PROVE  \E i \in 1..Len(t) : k[i] = j
        OBVIOUS
      <4>1. CASE j = n + 1
        BY <3>5, <4>1
      <4>2. CASE j # n + 1
        <5>1. PICK i \in 1..Len(s) : h[i] = j
          BY <2>2, <4>2 DEF Places
        <5>2. i \in 1..Len(t) /\ k[i] = j
          BY <2>4, <3>2, <3>4, <5>1
        <5> QED BY <5>2
      <4> QED BY <4>1, <4>2
    <3>10. Places(read, what, n + 1, t, k)
      BY <3>6, <3>7, <3>8, <3>9 DEF Places
    <3> QED BY <3>2, <3>10 DEF t
  <2> QED BY <2>5, <2>6
<1>3. Nat \subseteq P
  <2> HIDE DEF P
  <2> QED BY <1>1, <1>2, AllNat
<1>4. ASSUME NEW n \in 0..Len(read) PROVE Q(n)
  <2>1. n \in P /\ n <= Len(read)
    BY <1>0, <1>3
  <2> QED BY <2>1
<1> QED BY <1>4

LEMMA SayingOf ==
    ASSUME NEW S, NEW read \in Seq(S), NEW what, NEW s, s = Saying(read, what)
    PROVE  s \in Seq(S) /\ \E h : Places(read, what, Len(read), s, h)
<1> DEFINE K(g) == Keeping(read, what, Len(read), g)
           g == CHOOSE f : f = K(f)
<1>0. Len(read) \in Nat
  OBVIOUS
<1>1. g = K(g)
  <2>1. \E f : f = K(f)
    BY <1>0, KeptThere
  <2> QED BY <2>1
<1>2. s = g[Len(read)]
  BY DEF Saying, Keeping
<1> HIDE DEF g
<1>3. KeptOf(read, what, g, Len(read))
  <2>1. \A m \in 0..Len(read) : g[m] = K(g)[m]
    BY <1>1
  <2> QED BY <2>1 DEF KeptOf, Keeping
<1>4. Len(read) \in 0..Len(read)
  BY <1>0
<1> QED BY <1>2, <1>3, <1>4, KeptPlaces

-----------------------------------------------------------------------------
(***************************************************************************)
(* The types of what is written and printed.                               *)
(***************************************************************************)
LEMMA LineDo ==
    ASSUME NEW k \in Shows \cup Globals \cup ExecCommands \cup SetupCommands
                       \cup {"exit", "yes", "configure", "vlanDatabase"}
    PROVE  Do(k) \in Line
<1>1. Do(k) \in Command
  BY FastpathShellAssumption DEF Do, Command, GlobalCommands
<1>2. k \notin DatabaseCommands \cup VlanCommands \cup InterfaceCommands
                 \cup {"interface", "addHost"}
  BY DEF Shows, Globals, ExecCommands, SetupCommands, DatabaseCommands, VlanCommands,
         InterfaceCommands, PortSettings
<1>3. Do(k).do = k
  BY DoIs
<1> QED BY <1>1, <1>2, <1>3 DEF Line

LEMMA CommandWith ==
    ASSUME NEW c \in Command
    PROVE  /\ \A v \in Vlan \cup {NoVlan} : [c EXCEPT !.vlan = v] \in Command
           /\ \A p \in Port \cup {NoPort} : [c EXCEPT !.port = p] \in Command
           /\ \A v \in Vlan \cup {NoVlan}, p \in Port \cup {NoPort} :
                [c EXCEPT !.vlan = v, !.port = p] \in Command
           /\ \A p \in Port \cup {NoPort}, on \in BOOLEAN :
                [c EXCEPT !.port = p, !.on = on] \in Command
           /\ \A h \in Host \cup {NoHost}, n \in Nat :
                [c EXCEPT !.host = h, !.row = n] \in Command
<1>1. \A v \in Vlan \cup {NoVlan} : [c EXCEPT !.vlan = v] \in Command
  BY DEF Command
<1>2. \A p \in Port \cup {NoPort} : [c EXCEPT !.port = p] \in Command
  BY DEF Command
<1>3. \A v \in Vlan \cup {NoVlan}, p \in Port \cup {NoPort} :
        [c EXCEPT !.vlan = v, !.port = p] \in Command
  BY DEF Command
<1>4. \A p \in Port \cup {NoPort}, on \in BOOLEAN : [c EXCEPT !.port = p, !.on = on] \in Command
  BY DEF Command
<1>5. \A h \in Host \cup {NoHost}, n \in Nat : [c EXCEPT !.host = h, !.row = n] \in Command
  BY DEF Command
<1> QED BY <1>1, <1>2, <1>3, <1>4, <1>5

LEMMA LineVlan ==
    ASSUME NEW k \in Shows \cup DatabaseCommands, NEW v \in Vlan
    PROVE  OnVlan(k, v) \in Line /\ OnVlan(k, v).do = k /\ OnVlan(k, v).vlan = v
<1> DEFINE x == OnVlan(k, v)
<1>1. /\ DOMAIN x = DOMAIN Do(k) /\ x = [i \in DOMAIN x |-> x[i]]
      /\ x.do = k /\ x.vlan = v /\ x.port = NoPort /\ x.on = TRUE /\ x.host = NoHost /\ x.row = 0
  BY DEF OnVlan, Do
<1>2. x \in Command
  <2>1. Do(k) \in Command
    BY FastpathShellAssumption DEF Do, Command
  <2> HIDE DEF x
  <2> QED BY <2>1, CommandWith DEF x, OnVlan
<1>3. k \notin InterfaceCommands \cup {"interface", "addHost", "configure", "vlanDatabase"}
  BY DEF Shows, DatabaseCommands, VlanCommands, InterfaceCommands, PortSettings
<1> QED BY <1>1, <1>2, <1>3 DEF Line

LEMMA LinePort ==
    ASSUME NEW k \in InterfaceCommands \cup {"interface", "label"}, NEW v \in Vlan \cup {NoVlan},
           NEW p \in Port, k \in VlanCommands => v \in Vlan
    PROVE  /\ OnPort(k, v, p) \in Line /\ OnPort(k, v, p).do = k /\ OnPort(k, v, p).vlan = v
           /\ OnPort(k, v, p).port = p
<1> DEFINE x == OnPort(k, v, p)
<1>1. /\ DOMAIN x = DOMAIN Do(k) /\ x = [i \in DOMAIN x |-> x[i]]
      /\ x.do = k /\ x.vlan = v /\ x.port = p /\ x.on = TRUE /\ x.host = NoHost /\ x.row = 0
  BY DEF OnPort, Do
<1>2. x \in Command
  <2>1. Do(k) \in Command
    BY FastpathShellAssumption DEF Do, Command, Shows
  <2> HIDE DEF x
  <2> QED BY <2>1, CommandWith DEF x, OnPort
<1>3. k \notin DatabaseCommands \cup {"addHost", "configure", "vlanDatabase"}
  BY DEF DatabaseCommands, VlanCommands, InterfaceCommands, PortSettings
<1> QED BY <1>1, <1>2, <1>3 DEF Line

LEMMA LineSet ==
    ASSUME NEW k \in PortSettings \cup Globals \cup {"poe", "https"}, NEW p \in Port \cup {NoPort},
           NEW on \in BOOLEAN, k \in PortSettings \cup {"poe"} => p \in Port
    PROVE  /\ Set(k, p, on) \in Line /\ Set(k, p, on).do = k /\ Set(k, p, on).on = on
           /\ Set(k, p, on).port = p
<1> DEFINE x == Set(k, p, on)
<1>1. /\ DOMAIN x = DOMAIN Do(k) /\ x = [i \in DOMAIN x |-> x[i]]
      /\ x.do = k /\ x.vlan = NoVlan /\ x.port = p /\ x.on = on /\ x.host = NoHost /\ x.row = 0
  BY DEF Set, Do
<1>2. x \in Command
  <2>1. Do(k) \in Command
    BY FastpathShellAssumption DEF Do, Command, InterfaceCommands, GlobalCommands
  <2> HIDE DEF x
  <2> QED BY <2>1, CommandWith DEF x, Set
<1>3. k \notin DatabaseCommands \cup VlanCommands
                \cup {"addHost", "configure", "vlanDatabase", "interface"}
  BY DEF DatabaseCommands, VlanCommands, PortSettings, Globals
<1>4. k \in InterfaceCommands => p \in Port
  BY DEF InterfaceCommands, PortSettings, VlanCommands, Globals
<1> QED BY <1>1, <1>2, <1>3, <1>4 DEF Line

LEMMA LineHost ==
    ASSUME NEW k \in HostDos, NEW h \in Host \cup {NoHost}, NEW n \in Nat,
           k = "addHost" => h \in Host
    PROVE  /\ OnHost(k, h, n) \in Line /\ OnHost(k, h, n).do = k /\ OnHost(k, h, n).host = h
           /\ OnHost(k, h, n).row = n
<1> DEFINE x == OnHost(k, h, n)
<1>1. /\ DOMAIN x = DOMAIN Do(k) /\ x = [i \in DOMAIN x |-> x[i]]
      /\ x.do = k /\ x.vlan = NoVlan /\ x.port = NoPort /\ x.on = TRUE /\ x.host = h /\ x.row = n
  BY DEF OnHost, Do
<1>2. x \in Command
  <2>1. Do(k) \in Command
    BY FastpathShellAssumption DEF Do, Command, GlobalCommands, HostDos
  <2> HIDE DEF x
  <2> QED BY <2>1, CommandWith DEF x, OnHost
<1>3. k \notin DatabaseCommands \cup VlanCommands \cup InterfaceCommands
                \cup {"configure", "vlanDatabase", "interface"}
  BY DEF DatabaseCommands, VlanCommands, InterfaceCommands, PortSettings, HostDos
<1> QED BY <1>1, <1>2, <1>3 DEF Line

LEMMA SeqsOf ==
    ASSUME NEW S
    PROVE  /\ <<>> \in Seq(S)
           /\ \A x \in S : <<x>> \in Seq(S)
           /\ \A x, y \in S : <<x, y>> \in Seq(S)
           /\ \A x, y, z \in S : <<x, y, z>> \in Seq(S)
           /\ \A s, t \in Seq(S) : s \o t \in Seq(S)
OBVIOUS

LEMMA LinesTyped ==
    ASSUME NEW c \in Line
    PROVE  Lines(c) \in Seq(Line)
<1>1. Do("yes") \in Line
  BY LineDo
<1> QED BY <1>1, SeqsOf DEF Lines

LEMMA PagesTyped ==
    ASSUME NEW c \in Call, c.kind \notin {"reboot", "deploy"}
    PROVE  PagesBefore(c) \in Seq(Line) /\ PagesAfter(c) \in Seq(Line) /\ PagesBefore(c) # <<>>
           /\ PagesAfter(c) # <<>>
<1>1. /\ \A k \in Shows : <<Do(k)>> \in Seq(Line) /\ <<Do(k)>> # <<>>
      /\ <<OnPort("label", NoVlan, c.port)>> \in Seq(Line) /\ <<OnPort("label", NoVlan, c.port)>> # <<>>
      /\ <<Do("logs"), Do("collectors")>> \in Seq(Line) /\ <<Do("logs"), Do("collectors")>> # <<>>
  <2>1. \A k \in Shows : Do(k) \in Line
    BY LineDo
  <2>2. OnPort("label", NoVlan, c.port) \in Line
    BY LinePort, CallKind DEF VlanCommands
  <2>3. Do("logs") \in Line /\ Do("collectors") \in Line
    BY <2>1 DEF Shows
  <2>4. \A x, y : <<x>> # <<>> /\ <<x, y>> # <<>>
    OBVIOUS
  <2> QED BY <2>1, <2>2, <2>3, <2>4, SeqsOf
<1>2. PagesBefore(c) \in Seq(Line) /\ PagesBefore(c) # <<>>
  <2>1. c.kind \in VlanKinds \cup PortSettings \cup PowerKinds \cup GlobalKinds \cup HostKinds
    BY CallKind DEF Kinds, PortKinds, VlanKinds
  <2> USE DEF PagesBefore, Shows, VlanKinds, PortSettings, PowerKinds, GlobalKinds, HostKinds
  <2>2. CASE c.kind \in VlanKinds
    BY <2>2, <1>1
  <2>3. CASE c.kind = "description"
    BY <2>3, <1>1
  <2>4. CASE c.kind \in PortSettings \ {"description"}
    BY <2>4, <1>1
  <2>5. CASE c.kind \in PowerKinds
    BY <2>5, <1>1
  <2>6. CASE c.kind = "hostname"
    BY <2>6, <1>1
  <2>7. CASE c.kind = "address"
    BY <2>7, <1>1
  <2>8. CASE c.kind \in HostKinds \cup {"logging"}
    BY <2>8, <1>1
  <2> QED BY <2>1, <2>2, <2>3, <2>4, <2>5, <2>6, <2>7, <2>8
<1>3. <<Do("pvids")>> \in Seq(Line) /\ <<Do("pvids")>> # <<>>
  BY <1>1 DEF Shows
<1> QED BY <1>2, <1>3 DEF PagesAfter

\* How a descent looks, by the kind of the call.
LEMMA EnterIs ==
    ASSUME NEW c \in Call, c.kind \notin {"reboot", "deploy"}
    PROVE  /\ EnterCommands(c) \in Seq(Line)
           /\ Len(EnterCommands(c)) \in 0..2
           /\ c.kind \in {"create", "delete"} => EnterCommands(c) = <<Do("vlanDatabase")>>
           /\ c.kind \in PortKinds =>
                EnterCommands(c) = <<Do("configure"), OnPort("interface", NoVlan, c.port)>>
           /\ c.kind \in HostKinds => EnterCommands(c) = <<Do("configure")>>
           /\ c.kind \in GlobalKinds => EnterCommands(c) \in {<<>>, <<Do("configure")>>}
           /\ c.kind \in {"create", "delete"} \cup PortKinds \cup GlobalKinds \cup HostKinds
<1>3. /\ <<Do("vlanDatabase")>> \in Seq(Line) /\ <<Do("configure")>> \in Seq(Line)
      /\ <<>> \in Seq(Line)
      /\ <<Do("configure"), OnPort("interface", NoVlan, c.port)>> \in Seq(Line)
  <2>1. Do("vlanDatabase") \in Line /\ Do("configure") \in Line
    BY LineDo
  <2>2. OnPort("interface", NoVlan, c.port) \in Line
    BY LinePort, CallKind DEF VlanCommands
  <2> QED BY <2>1, <2>2, SeqsOf
<1>4. \A x, y : Len(<<>>) = 0 /\ Len(<<x>>) = 1 /\ Len(<<x, y>>) = 2
  OBVIOUS
<1>5. c.kind \in {"create", "delete"} \cup PortKinds \cup GlobalKinds \cup HostKinds
  BY CallKind DEF Kinds, PortKinds, VlanKinds
<1> USE DEF PortKinds, PortSettings, PowerKinds, GlobalKinds, HostKinds, EnterCommands
<1>6. CASE c.kind \in {"create", "delete"}
  BY <1>6, <1>3, <1>4
<1>7. CASE c.kind \in PortKinds
  BY <1>7, <1>3, <1>4
<1>8. CASE c.kind = "address" /\ ExecAddress
  BY <1>8, <1>3, <1>4
<1>9. CASE c.kind \in GlobalKinds \cup HostKinds /\ ~(c.kind = "address" /\ ExecAddress)
  BY <1>9, <1>3, <1>4
<1> QED BY <1>5, <1>6, <1>7, <1>8, <1>9

\* A body, by the kind of the call.
PortBody(s, p) == \A m \in 1..Len(s) : s[m].do \in InterfaceCommands /\ s[m].port = p

LEMMA BodyIs ==
    ASSUME NEW c \in Call, c.kind \notin {"reboot", "deploy"}, NEW row \in Nat
    PROVE  /\ BodyCommands(c, row) \in Seq(Line)
           /\ c.kind \in {"create", "delete"} =>
                \A m \in 1..Len(BodyCommands(c, row)) : BodyCommands(c, row)[m].do \in DatabaseCommands
           /\ c.kind \in PortKinds => PortBody(BodyCommands(c, row), c.port)
           /\ c.kind \in HostKinds =>
                \E x \in Line : x.do \in HostDos /\ BodyCommands(c, row) = <<x>>
           /\ c.kind \in GlobalKinds =>
                \A m \in 1..Len(BodyCommands(c, row)) : BodyCommands(c, row)[m].do \in Globals
<1> DEFINE b == BodyCommands(c, row)
           on(what) == OnPort(what, c.vlan, c.port)
           P == {x \in Line : x.do \in InterfaceCommands /\ x.port = c.port}
           D == {x \in Line : x.do \in DatabaseCommands}
           G == {x \in Line : x.do \in Globals}
           H == {x \in Line : x.do \in HostDos}
<1>0. c.kind \in Kinds /\ c.vlan \in Vlan /\ c.port \in Port /\ c.mode \in VlanMode
      /\ c.on \in BOOLEAN /\ c.host \in Host
  BY CallKind DEF Call
<1>1. \A k \in VlanCommands : on(k) \in P
  <2> SUFFICES ASSUME NEW k \in VlanCommands PROVE on(k) \in P
    OBVIOUS
  <2>1. k \in InterfaceCommands
    BY DEF InterfaceCommands
  <2> QED BY <1>0, <2>1, LinePort
<1>2. GeneralMode(c) \in Seq(P)
  <2>1. OnPort("general", NoVlan, c.port) \in P
    BY <1>0, LinePort DEF InterfaceCommands, VlanCommands
  <2> HIDE DEF P
  <2>2. <<>> \in Seq(P) /\ <<OnPort("general", NoVlan, c.port)>> \in Seq(P)
    BY <2>1, SeqsOf
  <2> QED BY <2>2 DEF GeneralMode
<1>3. OnPort("poeReset", NoVlan, c.port) \in P
  <2>1. "poeReset" \in InterfaceCommands /\ "poeReset" \notin VlanCommands
    BY DEF InterfaceCommands, VlanCommands
  <2> QED BY <1>0, <2>1, LinePort
<1>4. \A k \in PortSettings \cup {"poe"} : Set(k, c.port, c.on) \in P
  BY <1>0, LineSet DEF InterfaceCommands
<1>5. \A k \in DatabaseCommands : OnVlan(k, c.vlan) \in D
  BY <1>0, LineVlan
<1>6. (\A k \in Globals : Set(k, NoPort, c.on) \in G) /\ \A k \in Globals : Do(k) \in G
  <2>1. \A k \in Globals : Set(k, NoPort, c.on) \in G
    <3> SUFFICES ASSUME NEW k \in Globals PROVE Set(k, NoPort, c.on) \in G
      OBVIOUS
    <3>1. k \notin PortSettings \cup {"poe"}
      BY DEF PortSettings, Globals
    <3> QED BY <1>0, <3>1, LineSet
  <2>2. \A k \in Globals : Do(k) \in G
    BY LineDo, DoIs
  <2> QED BY <2>1, <2>2
<1>7. OnHost("addHost", c.host, 0) \in H /\ OnHost("removeHost", NoHost, row) \in H
  BY <1>0, LineHost DEF HostDos
<1> HIDE DEF P, D, G, H, on
<1>8. c.kind \in {"create", "delete"} \cup {"membership", "pvid"} \cup PortSettings \cup PowerKinds
                  \cup GlobalKinds \cup HostKinds
  BY <1>0 DEF Kinds, PortKinds, VlanKinds
<1>9. \/ c.kind \in {"create", "delete"} /\ b \in Seq(D)
      \/ c.kind \in {"membership", "pvid"} \cup PortSettings \cup PowerKinds /\ b \in Seq(P)
      \/ c.kind \in GlobalKinds /\ b \in Seq(G)
      \/ c.kind \in HostKinds /\ \E x \in H : b = <<x>>
  <2> HIDE DEF b
  <2> USE DEF PortSettings, PowerKinds, GlobalKinds, HostKinds
  <2>1. CASE c.kind = "create"
    <3>1. b = <<OnVlan("create", c.vlan), OnVlan("name", c.vlan)>>
      BY <2>1 DEF b, BodyCommands
    <3> QED BY <1>5, <2>1, <3>1, SeqsOf DEF DatabaseCommands
  <2>2. CASE c.kind = "delete"
    <3>1. b = <<OnVlan("remove", c.vlan)>>
      BY <2>2 DEF b, BodyCommands
    <3> QED BY <1>5, <2>2, <3>1, SeqsOf DEF DatabaseCommands
  <2>3. CASE c.kind = "pvid"
    <3>1. b = GeneralMode(c) \o <<on("pvid")>>
      BY <2>3 DEF b, BodyCommands, on
    <3>2. <<on("pvid")>> \in Seq(P)
      BY <1>1, SeqsOf DEF VlanCommands
    <3> QED BY <1>2, <2>3, <3>1, <3>2, SeqsOf
  <2>4. CASE c.kind = "membership"
    <3> DEFINE u == CASE c.mode = "excluded" -> <<on("exclude")>>
                      [] c.mode = "tagged"   -> <<on("include"), on("tag")>>
                      [] c.mode = "untagged" -> <<on("include"), on("untag")>>
    <3>1. b = GeneralMode(c) \o u
      BY <2>4 DEF b, BodyCommands, on
    <3>2. u \in Seq(P)
      BY <1>0, <1>1, SeqsOf DEF VlanMode, VlanCommands
    <3> HIDE DEF u
    <3> QED BY <1>2, <2>4, <3>1, <3>2, SeqsOf
  <2>5. CASE c.kind \in PortSettings \cup {"poe"}
    <3>1. b = <<Set(c.kind, c.port, c.on)>>
      BY <2>5 DEF b, BodyCommands
    <3> QED BY <1>4, <2>5, <3>1, SeqsOf
  <2>6. CASE c.kind \in {"cycle", "clearFault"}
    <3>1. b = <<OnPort("poeReset", NoVlan, c.port)>>
      BY <2>6 DEF b, BodyCommands
    <3> QED BY <1>3, <2>6, <3>1, SeqsOf
  <2>7. CASE c.kind \in {"hostname", "logging"}
    <3>1. b = <<Set(c.kind, NoPort, c.on)>>
      BY <2>7 DEF b, BodyCommands
    <3> QED BY <1>6, <2>7, <3>1, SeqsOf DEF Globals
  <2>8. CASE c.kind = "address"
    <3>1. b = <<Do("address")>> \/ b = <<Do("address"), Do("gateway")>>
      BY <2>8 DEF b, BodyCommands
    <3> QED BY <1>6, <2>8, <3>1, SeqsOf DEF Globals
  <2>9. CASE c.kind = "collect"
    <3>1. b = <<OnHost("addHost", c.host, 0)>>
      BY <2>9 DEF b, BodyCommands
    <3> QED BY <1>7, <2>9, <3>1
  <2>10. CASE c.kind = "uncollect"
    <3>1. b = <<OnHost("removeHost", NoHost, row)>>
      BY <2>10 DEF b, BodyCommands
    <3> QED BY <1>7, <2>10, <3>1
  <2> QED BY <1>8, <2>1, <2>2, <2>3, <2>4, <2>5, <2>6, <2>7, <2>8, <2>9, <2>10
<1>10. /\ \A x \in P : x \in Line /\ x.do \in InterfaceCommands /\ x.port = c.port
       /\ \A x \in D : x \in Line /\ x.do \in DatabaseCommands
       /\ \A x \in G : x \in Line /\ x.do \in Globals
       /\ \A x \in H : x \in Line /\ x.do \in HostDos
  BY DEF P, D, G, H
<1> HIDE DEF b
<1>11. ASSUME NEW S, S \subseteq Line, b \in Seq(S)
       PROVE  b \in Seq(Line) /\ \A m \in 1..Len(b) : b[m] \in S
  <2>1. b = [i \in 1..Len(b) |-> b[i]] /\ Len(b) \in Nat /\ \A i \in 1..Len(b) : b[i] \in S
    BY <1>11
  <2>2. [i \in 1..Len(b) |-> b[i]] \in Seq(Line)
    BY <1>11, <2>1
  <2> QED BY <2>1, <2>2
<1>12. /\ \A k \in {"create", "delete"} : k \notin PortKinds \cup HostKinds \cup GlobalKinds
       /\ PortKinds \cap (HostKinds \cup GlobalKinds) = {} /\ HostKinds \cap GlobalKinds = {}
       /\ PortKinds = {"membership", "pvid"} \cup PortSettings \cup PowerKinds
  BY DEF PortKinds, PortSettings, PowerKinds, HostKinds, GlobalKinds
<1>13. CASE c.kind \in {"create", "delete"} /\ b \in Seq(D)
  BY <1>10, <1>11, <1>12, <1>13 DEF b
<1>14. CASE c.kind \in PortKinds /\ b \in Seq(P)
  BY <1>10, <1>11, <1>12, <1>14 DEF b, PortBody
<1>15. CASE c.kind \in GlobalKinds /\ b \in Seq(G)
  BY <1>10, <1>11, <1>12, <1>15 DEF b
<1>16. CASE c.kind \in HostKinds /\ \E x \in H : b = <<x>>
  BY <1>10, <1>12, <1>16, SeqsOf DEF b
<1> QED BY <1>9, <1>12, <1>13, <1>14, <1>15, <1>16

LEMMA ScriptTyped ==
    ASSUME NEW c \in Call, c.kind \in {"reboot", "deploy"}
    PROVE  Script(c) \in Seq(Line)
<1>1. CASE c.kind = "reboot"
  <2>1. Do("reload") \in Line
    BY LineDo DEF ExecCommands
  <2> QED BY <1>1, <2>1, SeqsOf DEF Script
<1>2. CASE c.kind = "deploy"
  <2> DEFINE off == <<Set("https", NoPort, FALSE), Do("copy")>>
             chain == IF c.on THEN <<Do("copy")>> ELSE <<>>
             on == <<Set("https", NoPort, TRUE), Do("save")>>
  <2>1. Do("copy") \in Line /\ Do("save") \in Line
    BY LineDo DEF ExecCommands
  <2>2. Set("https", NoPort, FALSE) \in Line /\ Set("https", NoPort, TRUE) \in Line
    BY LineSet DEF PortSettings
  <2>3. off \in Seq(Line) /\ chain \in Seq(Line) /\ on \in Seq(Line)
    BY <2>1, <2>2, SeqsOf
  <2>4. Script(c) = off \o chain \o on
    BY <1>2 DEF Script
  <2> HIDE DEF off, chain, on
  <2> QED BY <2>3, <2>4, SeqsOf
<1> QED BY <1>1, <1>2

LEMMA ExitsAre ==
    ASSUME NEW n \in Nat
    PROVE  /\ Exits(n) \in Seq(Line) /\ Len(Exits(n)) = n
           /\ \A i \in 1..n : Exits(n)[i] = Do("exit")
<1>1. Do("exit") \in Line
  BY LineDo
<1> QED BY <1>1 DEF Exits

LEMMA DetailsTyped ==
    ASSUME NEW vlans
    PROVE  Details(vlans) \in Seq(Line)
<1> DEFINE S     == {v \in Vlan \ {DefaultVlan} : v \in vlans}
           first == IF DefaultVlan \in vlans THEN <<DefaultVlan>> ELSE <<>>
           list  == first \o SetToSeq(S)
<1>1. IsFiniteSet(S)
  BY FastpathShellAssumption, FS_Subset
<1>2. SetToSeq(S) \in Seq(S)
  BY <1>1, SeqOfSet
<1>3. SetToSeq(S) \in Seq(Vlan)
  <2>1. S \subseteq Vlan
    OBVIOUS
  <2> HIDE DEF S
  <2> DEFINE s == SetToSeq(S)
  <2>2. s = [i \in 1..Len(s) |-> s[i]] /\ Len(s) \in Nat /\ \A i \in 1..Len(s) : s[i] \in Vlan
    BY <1>2, <2>1
  <2> HIDE DEF s
  <2>3. [i \in 1..Len(s) |-> s[i]] \in Seq(Vlan)
    BY <2>2
  <2> QED BY <2>2, <2>3 DEF s
<1>4. first \in Seq(Vlan)
  BY FastpathShellAssumption
<1> HIDE DEF S, first
<1>5. list \in Seq(Vlan)
  BY <1>3, <1>4
<1> HIDE DEF list
<1>6. \A v \in Vlan : OnVlan("detail", v) \in Line
  BY LineVlan DEF Shows
<1>7. [i \in 1..Len(list) |-> OnVlan("detail", list[i])] \in Seq(Line)
  BY <1>5, <1>6
<1>8. Details(vlans) = [i \in 1..Len(list) |-> OnVlan("detail", list[i])]
  BY DEF Details, list, first, S
<1> QED BY <1>7, <1>8

\* The two configurations a switch starts with.
FitConfig(f) ==
    /\ f \in Config
    /\ f.rows \subseteq [row : Nat, host : Host] /\ IsFiniteSet(f.rows) /\ Uniform(f.rows)
    /\ DefaultVlan \in f.vlans

LEMMA FactoryFits == FitConfig(Factory)
<1>1. Factory \in Config
  BY FastpathShellAssumption DEF Factory, Config
<1>2. Factory.rows = {} /\ Factory.vlans = {DefaultVlan}
  BY DEF Factory
<1>3. IsFiniteSet({})
  BY FS_EmptySet
<1> QED BY <1>1, <1>2, <1>3 DEF FitConfig, Uniform

LEMMA InUseFits == FitConfig(InUse)
<1> DEFINE all   == [v \in Vlan |-> IF v = DefaultVlan THEN {} ELSE Port]
           hosts == SetToSeq(Host)
           rows  == {[row |-> 2 * i, host |-> hosts[i]] : i \in 1..Len(hosts)}
           power == [p \in Port |-> "fault"]
<1>1. hosts \in Seq(Host)
  BY FastpathShellAssumption, SeqOfSet
<1>2. Len(hosts) \in Nat /\ \A i \in 1..Len(hosts) : hosts[i] \in Host
  BY <1>1
<1> HIDE DEF hosts
<1>3. rows \subseteq [row : Nat, host : Host]
  BY <1>2
<1>4. IsFiniteSet(rows)
  <2> DEFINE f == [i \in 1..Len(hosts) |-> [row |-> 2 * i, host |-> hosts[i]]]
  <2>1. IsFiniteSet(1..Len(hosts))
    BY <1>2, FS_Interval
  <2>2. f \in Surjection(1..Len(hosts), rows)
    <3>1. f \in [1..Len(hosts) -> rows]
      OBVIOUS
    <3>2. \A r \in rows : \E i \in 1..Len(hosts) : f[i] = r
      OBVIOUS
    <3> HIDE DEF f, rows
    <3> QED BY <3>1, <3>2 DEF Surjection
  <2> HIDE DEF f, rows
  <2> QED BY <2>1, <2>2, FS_Surjection
<1>5. Uniform(rows)
  <2> SUFFICES ASSUME NEW i \in 1..Len(hosts), NEW j \in 1..Len(hosts), 2 * i = 2 * j
               PROVE  i = j
    BY DEF Uniform
  <2> QED BY <1>2
<1> HIDE DEF rows
<1>6. InUse = [Factory EXCEPT !.vlans = Vlan, !.member = all, !.untagged = all, !.general = Port,
                              !.rows = rows, !.draws = {}, !.power = power]
  BY DEF InUse, rows, hosts
<1>7. all \in [Vlan -> SUBSET Port] /\ power \in [Port -> {"off", "searching", "delivering", "fault"}]
  OBVIOUS
<1> HIDE DEF all, power
<1>8. InUse \in Config /\ InUse.rows = rows /\ InUse.vlans = Vlan
  BY <1>3, <1>6, <1>7, FactoryFits DEF Config, FitConfig
<1> QED BY <1>3, <1>4, <1>5, <1>8, FastpathShellAssumption DEF FitConfig

LEMMA FreshFits ==
    ASSUME NEW f \in Config
    PROVE  FreshShell(f) \in Shell /\ FreshShell(f).modes = <<>> /\ FreshShell(f).modes \in Levels
           /\ FreshShell(f).config = f /\ FreshShell(f).asking = "nothing"
BY DEF FreshShell, Shell, Levels

LEMMA ChunkSays ==
    /\ \A c \in Line, what \in Printable : Says(c, what) \in Text /\ Says(c, what).of = c
                                           /\ Says(c, what).says = what
    /\ \A x \in Text : x \in Chunk /\ x # Prompt /\ x.says \in Printable /\ x.of \in Command
                       /\ x.at \in Config
    /\ Prompt \in Chunk /\ Prompt.says = "prompt"
    /\ \A x \in Chunk : x.says \in Printable => x \in Text
    /\ \A x \in Chunk : x.says = "prompt" => x = Prompt
<1>1. Prompt.says = "prompt" /\ "prompt" \notin Printable
  BY PromptSays
<1>2. \A c \in Line, what \in Printable : Says(c, what) \in Text /\ Says(c, what).of = c
                                          /\ Says(c, what).says = what
  BY FactoryFits DEF Says, Text, Line, FitConfig
<1>3. \A x \in Text : x.says \in Printable /\ x.of \in Command /\ x.at \in Config
  BY DEF Text
<1> QED BY <1>1, <1>2, <1>3 DEF Chunk

\* What a line prints is typed, and starts with no prompt unless it answers a question.
LEMMA OutcomePrints ==
    ASSUME NEW s \in Shell, NEW c \in Line, NEW t, NEW out, Outcome(s, c, t, out)
    PROVE  /\ out \in Seq(Chunk) /\ Len(out) \in 0..2
           /\ Len(out) = 2 => out[1] # Prompt /\ out[2] = Prompt
           /\ out # <<>> /\ out[1] = Prompt => s.asking # "nothing"
           /\ out = <<>> => s.asking # "nothing"
           /\ out # <<>> /\ out[Len(out)] = Prompt => t.asking = "nothing"
<1> DEFINE Fine(o) ==
             /\ o \in Seq(Chunk) /\ Len(o) \in 0..2
             /\ Len(o) = 2 => o[1] # Prompt /\ o[2] = Prompt
             /\ o # <<>> /\ o[1] = Prompt => o = <<Prompt>>
             /\ Len(o) = 1 \/ Len(o) = 2 \/ o = <<>>
<1>1. Fine(<<>>) /\ Fine(<<Prompt>>) /\ Len(<<>>) = 0
  BY ChunkSays
<1>2. \A x \in Text : Fine(<<x, Prompt>>) /\ Fine(<<x>>) /\ <<x, Prompt>>[1] # Prompt
                      /\ <<x>>[1] # Prompt /\ <<x>> # <<>> /\ <<x, Prompt>> # <<>>
                      /\ Len(<<x>>) = 1 /\ Len(<<x, Prompt>>) = 2
  BY ChunkSays
<1> HIDE DEF Fine
<1>3. CASE Resolves(s, t, out)
  <2>0. s.asking # "nothing" /\ t.asking = "nothing"
    BY <1>3 DEF Resolves, Questions, ExecCommands
  <2>1. \/ out = <<>> \/ out = <<Prompt>>
        \/ \E x \in Text : out = <<x, Prompt>>
    <3>1. Says(Do("copy"), "success") \in Text /\ Says(Do("copy"), "failure") \in Text
      BY LineDo, ChunkSays DEF ExecCommands, Printable
    <3> QED BY <1>3, <3>1 DEF Resolves
  <2>2. Fine(out)
    BY <1>1, <1>2, <2>1
  <2> QED BY <2>0, <2>2 DEF Fine
<1>4. CASE ~Resolves(s, t, out)
  <2>1. \/ \E x \in Text : out = <<x, Prompt>> /\ t.asking = "nothing"
        \/ \E x \in Text : out = <<x>>
    <3>1. \A what \in Printable : Says(c, what) \in Text
      BY ChunkSays
    <3>2. Page(s, c) \in Text
      BY DEF Page, Text, Line, Printable, Shell
    <3>3. CASE Refuses(s, c, t, out)
      BY <3>1, <3>3 DEF Refuses, Printable
    <3>4. CASE Queries(s, c, t, out)
      BY <3>1, <3>4 DEF Queries, Printable
    <3>5. CASE Quietly(s, c, t, out)
      BY <3>1, <3>5 DEF Quietly, Printable
    <3>6. CASE Looks(s, c, t, out)
      BY <3>2, <3>6 DEF Looks
    <3> QED BY <1>4, <3>3, <3>4, <3>5, <3>6 DEF Outcome, Descends, Climbs, Works, Passes
  <2>2. CASE \E x \in Text : out = <<x, Prompt>> /\ t.asking = "nothing"
    BY <1>2, <2>2 DEF Fine
  <2>3. CASE \E x \in Text : out = <<x>>
    BY <1>2, <2>3 DEF Fine
  <2> QED BY <2>1, <2>2, <2>3
<1> QED BY <1>3, <1>4

-----------------------------------------------------------------------------
(***************************************************************************)
(* The configuration stays one.                                            *)
(***************************************************************************)
LEMMA DatabaseFits ==
    ASSUME NEW f, FitConfig(f), NEW c \in Line, c.do \in DatabaseCommands, ~DatabaseRejects(f, c)
    PROVE  FitConfig(DatabaseEffect(f, c)) /\ DatabaseEffect(f, c).rows = f.rows
<1>1. f \in Config /\ c.vlan \in Vlan /\ DefaultVlan \in Vlan
  BY LineDos, FastpathShellAssumption DEF FitConfig
<1>2. CASE c.do = "create"
  <2>1. DatabaseEffect(f, c) = [f EXCEPT !.vlans = @ \cup {c.vlan}]
    BY <1>2 DEF DatabaseEffect
  <2> DEFINE g == [f EXCEPT !.vlans = f.vlans \cup {c.vlan}]
  <2>2. g \in Config /\ g.vlans = f.vlans \cup {c.vlan} /\ g.rows = f.rows
    BY <1>1 DEF Config
  <2> HIDE DEF g
  <2> QED BY <2>1, <2>2 DEF FitConfig, g
<1>3. CASE c.do = "name"
  <2>1. DatabaseEffect(f, c) = f
    BY <1>3 DEF DatabaseEffect
  <2> QED BY <2>1
<1>4. CASE c.do = "remove"
  <2> DEFINE g == DatabaseEffect(f, c)
             pvids == [p \in Port |-> IF f.pvid[p] = c.vlan THEN DefaultVlan ELSE f.pvid[p]]
  <2>1. g = [f EXCEPT !.vlans = @ \ {c.vlan}, !.member[c.vlan] = {}, !.untagged[c.vlan] = {},
                      !.pvid = pvids]
    BY <1>4 DEF DatabaseEffect
  <2>2. pvids \in [Port -> Vlan]
    BY <1>1 DEF Config
  <2>3. c.vlan # DefaultVlan
    BY <1>4 DEF DatabaseRejects
  <2> HIDE DEF pvids, g
  <2>4. g \in Config
    BY <1>1, <2>1, <2>2 DEF Config
  <2>5. g.vlans = f.vlans \ {c.vlan} /\ g.rows = f.rows
    BY <1>1, <2>1 DEF Config
  <2> QED BY <2>3, <2>4, <2>5 DEF FitConfig, g
<1> QED BY <1>2, <1>3, <1>4 DEF DatabaseCommands

LEMMA InterfaceFits ==
    ASSUME NEW f, FitConfig(f), NEW c \in Line, c.do \in InterfaceCommands, NEW p \in Port
    PROVE  FitConfig(InterfaceEffect(f, c, p)) /\ InterfaceEffect(f, c, p).rows = f.rows
<1> DEFINE Same(g) == g \in Config /\ g.rows = f.rows /\ g.vlans = f.vlans
<1>1. f \in Config /\ c.on \in BOOLEAN /\ (c.do \in VlanCommands => c.vlan \in Vlan)
  BY LineDos DEF FitConfig
<1>2. \A g : Same(g) => FitConfig(g) /\ g.rows = f.rows
  BY DEF FitConfig
<1>3. CASE c.do \in PortSettings
  <2>1. InterfaceEffect(f, c, p) = [f EXCEPT !.setting[c.do][p] = c.on]
    BY <1>3 DEF InterfaceEffect, PortSettings, VlanCommands
  <2>2. Same([f EXCEPT !.setting[c.do][p] = c.on])
    BY <1>1, <1>3 DEF Config
  <2> QED BY <1>2, <2>1, <2>2
<1>4. CASE c.do = "general"
  <2>1. InterfaceEffect(f, c, p) = [f EXCEPT !.general = @ \cup {p}]
    BY <1>4 DEF InterfaceEffect, PortSettings, VlanCommands
  <2>2. Same([f EXCEPT !.general = @ \cup {p}])
    BY <1>1 DEF Config
  <2> QED BY <1>2, <2>1, <2>2
<1>5. CASE c.do = "poe"
  <2> DEFINE lag == IF c.on /\ f.power[p] = "off" THEN f.lag \cup {p} ELSE f.lag
             pow == IF c.on THEN "delivering" ELSE "off"
  <2>1. InterfaceEffect(f, c, p) = [f EXCEPT !.power[p] = pow, !.lag = lag]
    BY <1>5 DEF InterfaceEffect, PortSettings, VlanCommands, SwitchPower
  <2>2. lag \subseteq Port /\ pow \in {"off", "delivering"}
    BY <1>1 DEF Config
  <2> HIDE DEF lag, pow
  <2>3. Same([f EXCEPT !.power[p] = pow, !.lag = lag])
    BY <1>1, <2>2 DEF Config
  <2> QED BY <1>2, <2>1, <2>3
<1>6. CASE c.do = "poeReset"
  <2> DEFINE pow == IF p \in f.draws THEN "delivering" ELSE "searching"
  <2>1. InterfaceEffect(f, c, p) = [f EXCEPT !.power[p] = pow, !.reset = @ \cup {p}]
    BY <1>6 DEF InterfaceEffect, PortSettings, VlanCommands, ResetPower
  <2>2. pow \in {"searching", "delivering"}
    OBVIOUS
  <2> HIDE DEF pow
  <2>3. Same([f EXCEPT !.power[p] = pow, !.reset = @ \cup {p}])
    BY <1>1, <2>2 DEF Config
  <2> QED BY <1>2, <2>1, <2>3
<1>7. CASE c.do \in VlanCommands
  <2>1. InterfaceEffect(f, c, p) = VlanEffect(f, c, p)
    BY <1>7 DEF InterfaceEffect, PortSettings, VlanCommands
  <2>2. Same(f)
    BY <1>1
  <2>3. /\ Same([f EXCEPT !.member[c.vlan] = @ \cup {p}, !.untagged[c.vlan] = @ \cup {p}])
        /\ Same([f EXCEPT !.member[c.vlan] = @ \ {p}, !.untagged[c.vlan] = @ \ {p}])
        /\ Same([f EXCEPT !.untagged[c.vlan] = @ \ {p}])
        /\ Same([f EXCEPT !.untagged[c.vlan] = @ \cup {p}])
        /\ Same([f EXCEPT !.pvid[p] = c.vlan])
    BY <1>1, <1>7 DEF Config
  <2> HIDE DEF Same
  <2>4. Same(VlanEffect(f, c, p))
    BY <1>7, <2>2, <2>3 DEF VlanEffect, VlanCommands
  <2> QED BY <1>2, <2>1, <2>4
<1> QED BY <1>3, <1>4, <1>5, <1>6, <1>7 DEF InterfaceCommands

\* A finite set of row numbers has a highest one.
LEMMA HighestRow ==
    ASSUME NEW R, R \subseteq Nat, IsFiniteSet(R), R # {}
    PROVE  \E n \in R : \A m \in R : m <= n
<1> DEFINE Top(S) == \E n \in S : \A m \in S : m <= n
           P == {n \in Nat : \A S \in SUBSET R : S # {} /\ Cardinality(S) = n => Top(S)}
<1>1. 0 \in P
  <2> SUFFICES ASSUME NEW S \in SUBSET R, S # {}, Cardinality(S) = 0 PROVE FALSE
    OBVIOUS
  <2>1. IsFiniteSet(S)
    BY FS_Subset
  <2> QED BY <2>1, CountSome
<1>2. ASSUME NEW n \in Nat, n \in P PROVE n + 1 \in P
  <2> SUFFICES ASSUME NEW S \in SUBSET R, S # {}, Cardinality(S) = n + 1 PROVE Top(S)
    OBVIOUS
  <2>1. IsFiniteSet(S)
    BY FS_Subset
  <2>2. PICK a : a \in S
    OBVIOUS
  <2> DEFINE T == S \ {a}
  <2>3. IsFiniteSet(T) /\ Cardinality(T) = n
    <3>1. IsFiniteSet(T) /\ Cardinality(T) = Cardinality(S) - 1
      BY <2>1, <2>2, FS_RemoveElement
    <3> QED BY <3>1
  <2>4. a \in Nat /\ T \in SUBSET R
    BY <2>2
  <2>5. CASE T = {}
    <3>1. S = {a}
      BY <2>2, <2>5
    <3> QED BY <2>4, <3>1
  <2>6. CASE T # {}
    <3>1. Top(T)
      BY <1>2, <2>3, <2>4, <2>6
    <3>2. PICK b \in T : \A m \in T : m <= b
      BY <3>1
    <3>3. b \in Nat /\ b \in S /\ \A m \in S : m = a \/ m \in T
      BY <2>4, <3>2
    <3>4. CASE a <= b
      BY <3>2, <3>3, <3>4
    <3>5. CASE ~(a <= b)
      <4>1. \A m \in S : m \in Nat
        OBVIOUS
      <4>2. \A m \in S : m <= a
        BY <2>4, <3>2, <3>3, <3>5, <4>1
      <4> QED BY <2>2, <4>2
    <3> QED BY <3>4, <3>5
  <2> QED BY <2>5, <2>6
<1>3. Nat \subseteq P
  <2> HIDE DEF P
  <2> QED BY <1>1, <1>2, AllNat
<1>4. Cardinality(R) \in Nat
  BY FS_CardinalityType
<1>5. Cardinality(R) \in P
  BY <1>3, <1>4
<1> QED BY <1>5

\* A new collector takes a row of its own.
LEMMA NextRowFresh ==
    ASSUME NEW f, FitConfig(f)
    PROVE  NextRow(f) \in Nat /\ \A r \in f.rows : r.row # NextRow(f)
<1>1. f.rows \subseteq [row : Nat, host : Host] /\ IsFiniteSet(f.rows)
  BY DEF FitConfig
<1>2. CASE f.rows = {}
  BY <1>2 DEF NextRow
<1>3. CASE f.rows # {}
  <2>1. Rows(f) \subseteq Nat /\ Rows(f) # {}
    BY <1>1, <1>3 DEF Rows
  <2>2. IsFiniteSet(Rows(f))
    <3> DEFINE R == f.rows
               g == [r \in R |-> r.row]
    <3>1. g \in Surjection(R, Rows(f))
      <4>1. g \in [R -> Rows(f)] /\ \A n \in Rows(f) : \E r \in R : g[r] = n
        BY DEF Rows
      <4> QED BY <4>1 DEF Surjection
    <3> HIDE DEF g
    <3> QED BY <1>1, <3>1, FS_Surjection
  <2>3. \E n \in Rows(f) : \A m \in Rows(f) : m <= n
    BY <2>1, <2>2, HighestRow
  <2> DEFINE top == CHOOSE n \in Rows(f) : \A m \in Rows(f) : m <= n
  <2>4. top \in Rows(f) /\ \A m \in Rows(f) : m <= top
    BY <2>3
  <2>5. NextRow(f) = 1 + top
    BY <1>3 DEF NextRow
  <2> HIDE DEF top
  <2>6. \A r \in f.rows : r.row \in Rows(f)
    BY DEF Rows
  <2> QED BY <2>1, <2>4, <2>5, <2>6
<1> QED BY <1>2, <1>3

LEMMA GlobalFits ==
    ASSUME NEW f, FitConfig(f), NEW c \in Line, c.do \in GlobalCommands
    PROVE  FitConfig(GlobalEffect(f, c))
<1>1. f \in Config /\ c.on \in BOOLEAN /\ (c.do = "addHost" => c.host \in Host)
  BY LineDos DEF FitConfig
<1>2. CASE c.do = "address" /\ ExecAddress
  <2>1. GlobalEffect(f, c) = [f EXCEPT !.global["address"] = c.on, !.global["gateway"] = c.on]
    BY <1>2 DEF GlobalEffect
  <2> DEFINE g == [f EXCEPT !.global["address"] = c.on, !.global["gateway"] = c.on]
  <2>2. g \in Config /\ g.vlans = f.vlans /\ g.rows = f.rows
    BY <1>1 DEF Config
  <2> HIDE DEF g
  <2> QED BY <2>1, <2>2 DEF FitConfig, g
<1>3. CASE c.do \in Globals /\ ~(c.do = "address" /\ ExecAddress)
  <2>1. GlobalEffect(f, c) = [f EXCEPT !.global[c.do] = c.on]
    BY <1>3 DEF GlobalEffect, Globals
  <2> DEFINE g == [f EXCEPT !.global[c.do] = c.on]
  <2>2. g \in Config /\ g.vlans = f.vlans /\ g.rows = f.rows
    BY <1>1, <1>3 DEF Config
  <2> HIDE DEF g
  <2> QED BY <2>1, <2>2 DEF FitConfig, g
<1>4. CASE c.do = "addHost"
  <2> DEFINE x == [row |-> NextRow(f), host |-> c.host]
  <2>1. GlobalEffect(f, c) = [f EXCEPT !.rows = f.rows \cup {x}]
    BY <1>4 DEF GlobalEffect, Globals
  <2>2. x \in [row : Nat, host : Host] /\ \A r \in f.rows : r.row # x.row
    BY <1>1, <1>4, NextRowFresh
  <2> HIDE DEF x
  <2> DEFINE R == f.rows \cup {x}
  <2>3. IsFiniteSet(R)
    BY FS_AddElement DEF FitConfig
  <2>4. R \subseteq [row : Nat, host : Host] /\ Uniform(R)
    BY <2>2 DEF FitConfig, Uniform
  <2> HIDE DEF R
  <2>5. [f EXCEPT !.rows = R] \in Config /\ [f EXCEPT !.rows = R].rows = R
        /\ [f EXCEPT !.rows = R].vlans = f.vlans
    BY <1>1, <2>4 DEF Config
  <2> QED BY <2>1, <2>3, <2>4, <2>5 DEF FitConfig, R
<1>5. CASE c.do = "removeHost"
  <2> DEFINE R == {r \in f.rows : r.row # c.row}
  <2>1. GlobalEffect(f, c) = [f EXCEPT !.rows = R]
    BY <1>5 DEF GlobalEffect, Globals
  <2>2. IsFiniteSet(R)
    BY FS_Subset DEF FitConfig
  <2>3. R \subseteq [row : Nat, host : Host] /\ Uniform(R)
    BY DEF FitConfig, Uniform
  <2> HIDE DEF R
  <2>4. [f EXCEPT !.rows = R] \in Config /\ [f EXCEPT !.rows = R].rows = R
        /\ [f EXCEPT !.rows = R].vlans = f.vlans
    BY <1>1, <2>3 DEF Config
  <2> QED BY <2>1, <2>2, <2>3, <2>4 DEF FitConfig
<1> QED BY <1>2, <1>3, <1>4, <1>5 DEF GlobalCommands

LEMMA OutcomeFits ==
    ASSUME NEW s \in Shell, FitConfig(s.config), NEW c \in Line, NEW t, NEW out,
           Outcome(s, c, t, out), c.do \in InterfaceCommands => s.port \in Port
    PROVE  FitConfig(t.config)
<1>1. CASE t.config = s.config
  BY <1>1
<1>2. CASE Resolves(s, t, out)
  <2>1. PICK a \in BOOLEAN : t.config \in {s.config, [s.config EXCEPT !.certificate = a],
                                           [s.config EXCEPT !.saved = a]}
    BY <1>2 DEF Resolves
  <2>2. CASE t.config = [s.config EXCEPT !.certificate = a]
    BY <2>2 DEF FitConfig, Config
  <2>3. CASE t.config = [s.config EXCEPT !.saved = a]
    BY <2>3 DEF FitConfig, Config
  <2> QED BY <1>1, <2>1, <2>2, <2>3
<1>3. CASE Looks(s, c, t, out)
  <2>1. CASE t.config = [s.config EXCEPT !.lag = {}]
    BY <2>1 DEF FitConfig, Config
  <2> QED BY <1>1, <1>3, <2>1 DEF Looks
<1>4. CASE Works(s, c, t, out)
  BY <1>4, DatabaseFits, InterfaceFits, GlobalFits DEF Works, BodyDos
<1>5. CASE Passes(s, c, t, out)
  <2>1. CASE c.do = "https"
    <3>1. t.config = [s.config EXCEPT !.https = c.on] /\ c.on \in BOOLEAN
      BY <1>5, <2>1, LineDos DEF Passes
    <3> QED BY <3>1 DEF FitConfig, Config
  <2> QED BY <1>1, <1>5, <2>1 DEF Passes
<1> QED BY <1>1, <1>2, <1>3, <1>4, <1>5 DEF Outcome, Refuses, Queries, Descends, Climbs

LEMMA ShellOf ==
    ASSUME NEW s \in Shell
    PROVE  /\ \A f \in Config : [s EXCEPT !.config = f] \in Shell
           /\ \A a \in Questions \cup {"nothing"} : [s EXCEPT !.asking = a] \in Shell
           /\ \A d \in BOOLEAN : [s EXCEPT !.down = d] \in Shell
           /\ \A m \in Seq({"database", "config", "interface"}), p \in Port \cup {NoPort} :
                [s EXCEPT !.modes = m, !.port = p] \in Shell
           /\ s.modes \in Seq({"database", "config", "interface"}) /\ s.port \in Port \cup {NoPort}
BY DEF Shell

LEMMA LevelSeqs ==
    /\ Levels \subseteq Seq({"database", "config", "interface"})
    /\ \A m \in Seq({"database", "config", "interface"}), x \in {"database", "config", "interface"} :
         Append(m, x) \in Seq({"database", "config", "interface"})
BY DEF Levels

\* One line leaves a shell.
LEMMA ExecuteShell ==
    ASSUME NEW s \in Shell, s.modes \in Levels, FitConfig(s.config), NEW c \in Line,
           NEW done \in BOOLEAN, NEW t, t = Execute(s, c, done).shell,
           c.do \in InterfaceCommands => s.port \in Port \/ Rejects(s, c), t.modes \in Levels
    PROVE  t \in Shell
<1>1. CASE s.asking # "nothing"
  <2> DEFINE u == [s EXCEPT !.asking = "nothing"]
  <2>1. u \in Shell /\ u.config = s.config
    BY ShellOf DEF Shell
  <2>2. s.asking \in Questions
    BY <1>1 DEF Shell
  <2>3. \A a \in BOOLEAN : [u.config EXCEPT !.certificate = @ \/ a] \in Config
                           /\ [u.config EXCEPT !.saved = @ \/ a] \in Config
    BY <2>1 DEF Shell, Config
  <2>4. Execute(s, c, done) = Answered(s, c, done)
    BY <1>1 DEF Execute
  <2> HIDE DEF u
  <2>5. CASE s.asking = "copy"
    <3>1. t = [u EXCEPT !.config.certificate = @ \/ done]
      BY <2>4, <2>5 DEF Answered, u
    <3>2. t = [u EXCEPT !.config = [u.config EXCEPT !.certificate = @ \/ done]]
      BY <2>1, <3>1
    <3> QED BY <2>1, <2>3, <3>2, ShellOf
  <2>6. CASE s.asking = "save"
    <3> DEFINE a == (c.do = "yes")
    <3>0. a \in BOOLEAN
      OBVIOUS
    <3>1. t = [u EXCEPT !.config.saved = @ \/ a]
      BY <2>4, <2>6 DEF Answered, u
    <3> HIDE DEF a
    <3>2. t = [u EXCEPT !.config = [u.config EXCEPT !.saved = @ \/ a]]
      BY <2>1, <3>1
    <3> QED BY <2>1, <2>3, <3>0, <3>2, ShellOf
  <2>7. CASE s.asking = "reload"
    <3> DEFINE a == (c.do = "yes")
    <3>0. a \in BOOLEAN
      OBVIOUS
    <3>1. t = [u EXCEPT !.down = a]
      BY <2>4, <2>7 DEF Answered, u
    <3> HIDE DEF a
    <3> QED BY <2>1, <3>0, <3>1, ShellOf
  <2>8. CASE s.asking = "enable"
    <3>1. t = u
      BY <2>4, <2>8 DEF Answered, u
    <3> QED BY <2>1, <3>1
  <2> QED BY <2>2, <2>5, <2>6, <2>7, <2>8 DEF Questions, ExecCommands
<1>2. CASE s.asking = "nothing" /\ (Rejects(s, c) \/ (c.do = "enable" /\ ~AsksPassword))
  BY <1>2, ExecuteUnasked
<1>3. CASE s.asking = "nothing" /\ ~(Rejects(s, c) \/ (c.do = "enable" /\ ~AsksPassword))
  <2>1. t = Effect(s, c)
    BY <1>3, ExecuteUnasked
  <2>2. c.do \in AllDos
    BY LineDos
  <2> USE DEF Questions, ExecCommands, DatabaseCommands,
              InterfaceCommands, GlobalCommands, Globals, VlanCommands, PortSettings
  <2>3. ASSUME NEW m \in {"database", "config", "interface"}, NEW p \in Port \cup {NoPort}
        PROVE  Enter(s, m, p) \in Shell
    <3>1. Append(s.modes, m) \in Seq({"database", "config", "interface"})
      BY ShellOf, LevelSeqs
    <3> QED BY <3>1, ShellOf DEF Enter
  <2>4. CASE c.do = "vlanDatabase"
    <3>1. t = Enter(s, "database", s.port)
      BY <2>1, <2>4 DEF Effect
    <3> QED BY <2>3, <3>1, ShellOf
  <2>5. CASE c.do = "configure"
    <3>1. t = Enter(s, "config", s.port)
      BY <2>1, <2>5 DEF Effect
    <3> QED BY <2>3, <3>1, ShellOf
  <2>6. CASE c.do = "interface"
    <3>1. t = Enter(s, "interface", c.port)
      BY <2>1, <2>6 DEF Effect
    <3>2. c.port \in Port
      BY <2>6, LineDos
    <3> QED BY <2>3, <3>1, <3>2
  <2>7. CASE c.do = "exit"
    <3> DEFINE up == IF s.modes = <<>> THEN <<>> ELSE Front(s.modes)
               p == IF up # <<>> /\ Last(up) = "interface" THEN s.port ELSE NoPort
    <3>1. t = [s EXCEPT !.modes = up, !.port = p]
      BY <2>1, <2>7 DEF Effect, Shell
    <3>2. p \in Port \cup {NoPort}
      BY ShellOf
    <3> HIDE DEF up, p
    <3>3. t.modes = up
      BY <3>1 DEF Shell
    <3>4. up \in Seq({"database", "config", "interface"})
      BY <3>3, LevelSeqs
    <3> QED BY <3>1, <3>2, <3>4 DEF Shell
  <2>8. CASE c.do = "https"
    <3>1. t = [s EXCEPT !.config = [s.config EXCEPT !.https = c.on]]
      BY <2>1, <2>8 DEF Effect, Shell
    <3>2. [s.config EXCEPT !.https = c.on] \in Config
      BY LineDos DEF FitConfig, Config
    <3> QED BY <3>1, <3>2, ShellOf
  <2>9. CASE c.do = "power"
    <3>1. t = [s EXCEPT !.config = [s.config EXCEPT !.lag = {}]]
      BY <2>1, <2>9 DEF Effect, Shell
    <3>2. [s.config EXCEPT !.lag = {}] \in Config
      BY DEF FitConfig, Config
    <3> QED BY <3>1, <3>2, ShellOf
  <2>10. CASE c.do \in Questions
    <3>1. t = [s EXCEPT !.asking = c.do]
      BY <2>1, <2>10 DEF Effect
    <3> HIDE DEF Questions, ExecCommands
    <3>2. c.do \in Questions \cup {"nothing"}
      BY <2>10
    <3> QED BY <3>1, <3>2 DEF Shell
  <2>11. CASE c.do \in DatabaseCommands
    <3>1. t = [s EXCEPT !.config = DatabaseEffect(s.config, c)]
      BY <2>1, <2>11 DEF Effect, Shell
    <3>2. ~DatabaseRejects(s.config, c)
      BY <1>3, <2>11 DEF Rejects
    <3>3. DatabaseEffect(s.config, c) \in Config
      BY <2>11, <3>2, DatabaseFits DEF FitConfig
    <3> QED BY <3>1, <3>3, ShellOf
  <2>12. CASE c.do \in InterfaceCommands
    <3>1. t = [s EXCEPT !.config = InterfaceEffect(s.config, c, s.port)]
      BY <2>1, <2>12 DEF Effect, Shell
    <3>2. InterfaceEffect(s.config, c, s.port) \in Config
      BY <1>3, <2>12, InterfaceFits DEF FitConfig
    <3> QED BY <3>1, <3>2, ShellOf
  <2>13. CASE c.do \in GlobalCommands
    <3>1. t = [s EXCEPT !.config = GlobalEffect(s.config, c)]
      BY <2>1, <2>13 DEF Effect, Shell
    <3>2. GlobalEffect(s.config, c) \in Config
      BY <2>13, GlobalFits DEF FitConfig
    <3> QED BY <3>1, <3>2, ShellOf
  <2>14. CASE c.do \notin {"vlanDatabase", "configure", "interface", "exit", "https", "power"}
                            \cup Questions \cup DatabaseCommands \cup InterfaceCommands
                            \cup GlobalCommands
    <3>1. t = s
      BY <2>1, <2>14 DEF Effect
    <3> QED BY <3>1
  <2> QED BY <2>4, <2>5, <2>6, <2>7, <2>8, <2>9, <2>10, <2>11, <2>12, <2>13, <2>14
<1> QED BY <1>1, <1>2, <1>3

-----------------------------------------------------------------------------
(***************************************************************************)
(* The switch executes a line.                                             *)
(***************************************************************************)
LEMMA OutcomeLevels ==
    ASSUME NEW s, s.modes \in Levels, NEW c, NEW t, NEW out, Outcome(s, c, t, out)
    PROVE  t.modes \in Levels
BY DEF Outcome, Resolves, Refuses, Queries, Descends, Climbs, Looks, Works, Passes, EnterDos, Levels

LEMMA ExecOf ==
    ASSUME Typed, Aimed, Executes
    PROVE  /\ wire # <<>> /\ wire[1] \in Line /\ back \in Seq(Chunk)
           /\ \E out \in Seq(Chunk) :
                /\ Outcome(shell, wire[1], shell', out)
                /\ back' = back \o out
           /\ shell' \in Shell /\ shell'.modes \in Levels /\ FitConfig(shell'.config)
           /\ wire' = <<>> \/ wire' = Tail(wire)
           /\ wire[1].do \in InterfaceCommands =>
                shell.port = wire[1].port /\ shell.modes = <<"config", "interface">>
           /\ UNCHANGED <<driver, agenda, awaiting, answer, late, torn>>
<1> DEFINE c == wire[1]
<1>1. /\ shell \in Shell /\ shell.modes \in Levels /\ FitConfig(shell.config)
      /\ wire \in Seq(Line) /\ back \in Seq(Chunk)
  BY DEF Typed, FitConfig, Shell
<1>2. wire # <<>> /\ UNCHANGED <<driver, agenda, awaiting, answer, late, torn>>
  BY DEF Executes
<1>3. Head(wire) = c /\ c \in Line /\ Len(wire) \in Nat /\ Len(wire) >= 1
  BY <1>1, <1>2, Rest
<1>4. PICK done \in BOOLEAN :
        LET r == Execute(shell, Head(wire), done)
        IN  /\ shell' = r.shell
            /\ back' = back \o r.out
            /\ wire' = IF r.shell.down THEN <<>> ELSE Tail(wire)
  BY DEF Executes
<1> DEFINE out == Execute(shell, c, done).out
<1>5. shell' = Execute(shell, c, done).shell /\ back' = back \o out
      /\ (wire' = <<>> \/ wire' = Tail(wire))
  BY <1>3, <1>4
<1>6. c.do \in InterfaceCommands =>
        shell.port = c.port /\ shell.modes = <<"config", "interface">>
  <2>1. 1 \in 1..Len(wire)
    BY <1>3
  <2> QED BY <2>1 DEF Aimed
<1>7. c.do \in InterfaceCommands => shell.port \in Port
  BY <1>3, <1>6, LineDos
<1> HIDE DEF c
<1>8. Outcome(shell, c, shell', out)
  BY <1>1, <1>3, <1>5, OutcomeOf
<1> HIDE DEF out
<1>9. out \in Seq(Chunk)
  BY <1>1, <1>3, <1>8, OutcomePrints
<1>10. shell'.modes \in Levels
  BY <1>1, <1>8, OutcomeLevels
<1>11. FitConfig(shell'.config)
  BY <1>1, <1>3, <1>7, <1>8, OutcomeFits
<1>12. shell' \in Shell
  BY <1>1, <1>3, <1>5, <1>7, <1>10, ExecuteShell
<1> QED BY <1>1, <1>2, <1>3, <1>5, <1>6, <1>8, <1>9, <1>10, <1>11, <1>12 DEF c

\* What is under way after it.
LEMMA ExecWire ==
    ASSUME wire \in Seq(Line), wire # <<>>, wire' = <<>> \/ wire' = Tail(wire)
    PROVE  /\ wire' \in Seq(Line) /\ Len(wire) \in Nat /\ Len(wire') \in Nat
           /\ Len(wire) >= 1 /\ Len(wire') <= Len(wire) - 1
           /\ \A k \in 1..Len(wire') :
                /\ wire'[k] = wire[k + 1] /\ k + 1 \in 1..Len(wire) /\ k \in Nat
                /\ Len(wire) = Len(wire') + 1
           /\ wire' = <<>> <=> Len(wire') = 0
<1> DEFINE t == Tail(wire)
<1>1. /\ t \in Seq(Line) /\ Len(wire) \in Nat /\ Len(wire) >= 1 /\ Len(t) = Len(wire) - 1
      /\ Len(t) \in Nat
      /\ \A i \in 1..Len(t) : t[i] = wire[i + 1] /\ i + 1 \in 1..Len(wire)
  BY Rest
<1> HIDE DEF t
<1>2. CASE wire' = <<>>
  <2>1. Len(<<>>) = 0 /\ <<>> \in Seq(Line)
    OBVIOUS
  <2> QED BY <1>1, <1>2, <2>1
<1>3. CASE wire' = t
  <2>1. t = <<>> <=> Len(t) = 0
    BY <1>1, EmptySeq
  <2> QED BY <1>1, <1>3, <2>1
<1> QED BY <1>2, <1>3 DEF t

LEMMA TypedExecutes ==
    ASSUME Typed, Aimed, Executes, UNCHANGED writerVars
    PROVE  Typed'
<1>1. /\ wire # <<>>
      /\ wire' = <<>> \/ wire' = Tail(wire)
      /\ shell' \in Shell /\ shell'.modes \in Levels /\ FitConfig(shell'.config)
      /\ UNCHANGED <<agenda, awaiting, answer>>
  BY ExecOf
<1>2. back' \in Seq(Chunk)
  <2>1. PICK out \in Seq(Chunk) : back' = back \o out
    BY ExecOf
  <2> QED BY <2>1, Joined DEF Typed
<1>3. wire' \in Seq(Line)
  <2>1. wire \in Seq(Line) /\ (wire' = <<>> \/ wire' = Tail(wire)) /\ wire # <<>>
    BY <1>1, ExecOf DEF Typed
  <2> QED BY <2>1, ExecWire
<1> QED BY <1>1, <1>2, <1>3 DEF Typed, FitConfig, writerVars, Accepted

LEMMA PromptsExecutes ==
    ASSUME Typed, Aimed, Prompts, Executes
    PROVE  Prompts' /\ (Clear => Clear')
<1>1. wire[1] \in Line /\ back \in Seq(Chunk)
  BY ExecOf
<1>2. PICK out \in Seq(Chunk) : Outcome(shell, wire[1], shell', out) /\ back' = back \o out
  BY ExecOf
<1>3. /\ Len(out) \in 0..2
      /\ Len(out) = 2 => out[1] # Prompt /\ out[2] = Prompt
      /\ out # <<>> /\ out[1] = Prompt => shell.asking # "nothing"
      /\ out = <<>> => shell.asking # "nothing"
      /\ out # <<>> /\ out[Len(out)] = Prompt => shell'.asking = "nothing"
  BY <1>1, <1>2, OutcomePrints DEF Typed
<1>4. /\ Len(back) \in Nat /\ Len(back') = Len(back) + Len(out) /\ back' \in Seq(Chunk)
      /\ \A i \in 1..Len(back) : back'[i] = back[i]
      /\ \A i \in 1..Len(out) : back'[Len(back) + i] = out[i]
  BY <1>1, <1>2, Joined
<1>5. (back = <<>> <=> Len(back) = 0) /\ (out = <<>> <=> Len(out) = 0)
      /\ (back' = <<>> <=> Len(back') = 0)
  BY <1>1, <1>2, <1>4, EmptySeq
<1>6. back # <<>> /\ back[Len(back)] = Prompt /\ out # <<>> => out[1] # Prompt
  BY <1>3 DEF Prompts
<1>7. CASE out = <<>>
  <2>1. back' = back
    BY <1>1, <1>2, <1>7
  <2>2. ~(back # <<>> /\ back[Len(back)] = Prompt)
    BY <1>3, <1>7 DEF Prompts
  <2>3. Clear => back # <<>>
    BY <1>3, <1>7 DEF Clear
  <2> QED BY <2>1, <2>2, <2>3 DEF Prompts, Clear
<1>8. CASE Len(out) = 1
  <2>1. Len(back') = Len(back) + 1 /\ back'[Len(back) + 1] = out[1] /\ out # <<>>
        /\ 1 \in 1..Len(out)
    BY <1>4, <1>5, <1>8
  <2>2. \A i \in 1..Len(back') - 1 : back'[i] = Prompt => back'[i + 1] # Prompt
    <3> SUFFICES ASSUME NEW i \in 1..Len(back') - 1, back'[i] = Prompt PROVE back'[i + 1] # Prompt
      OBVIOUS
    <3>1. i \in 1..Len(back) /\ back[i] = Prompt
      BY <1>4, <2>1
    <3>2. CASE i = Len(back)
      BY <1>4, <1>5, <1>6, <2>1, <3>1, <3>2
    <3>3. CASE i # Len(back)
      <4>1. i \in 1..Len(back) - 1 /\ i + 1 \in 1..Len(back)
        BY <1>4, <3>1, <3>3
      <4> QED BY <1>4, <3>1, <4>1 DEF Prompts
    <3> QED BY <3>2, <3>3
  <2>3. back' # <<>> /\ back'[Len(back')] = Prompt => shell'.asking = "nothing"
    BY <1>3, <1>8, <2>1
  <2>4. Clear => Clear'
    <3>1. CASE back = <<>>
      <4>1. back'[1] = out[1] /\ back' # <<>>
        BY <1>4, <1>5, <2>1, <3>1
      <4> QED BY <1>3, <2>1, <3>1, <4>1 DEF Clear
    <3>2. CASE back # <<>>
      <4>1. back'[1] = back[1] /\ back' # <<>>
        BY <1>4, <1>5, <2>1, <3>2
      <4> QED BY <3>2, <4>1 DEF Clear
    <3> QED BY <3>1, <3>2
  <2> QED BY <2>2, <2>3, <2>4 DEF Prompts
<1>9. CASE Len(out) = 2
  <2>1. /\ Len(back') = Len(back) + 2 /\ back'[Len(back) + 1] = out[1] /\ out # <<>>
        /\ back'[Len(back) + 2] = Prompt /\ 1 \in 1..Len(out) /\ out[1] # Prompt
    BY <1>3, <1>4, <1>5, <1>9
  <2>2. \A i \in 1..Len(back') - 1 : back'[i] = Prompt => back'[i + 1] # Prompt
    <3> SUFFICES ASSUME NEW i \in 1..Len(back') - 1, back'[i] = Prompt PROVE back'[i + 1] # Prompt
      OBVIOUS
    <3>0. i # Len(back) + 1
      BY <2>1
    <3>1. i \in 1..Len(back) /\ back[i] = Prompt
      BY <1>4, <2>1, <3>0
    <3>2. CASE i = Len(back)
      BY <2>1, <3>2
    <3>3. CASE i # Len(back)
      <4>1. i \in 1..Len(back) - 1 /\ i + 1 \in 1..Len(back)
        BY <1>4, <3>1, <3>3
      <4> QED BY <1>4, <3>1, <4>1 DEF Prompts
    <3> QED BY <3>2, <3>3
  <2>3. back' # <<>> /\ back'[Len(back')] = Prompt => shell'.asking = "nothing"
    <3>1. out[Len(out)] = Prompt
      BY <1>3, <1>9
    <3> QED BY <1>3, <2>1, <3>1
  <2>4. Clear => Clear'
    <3>1. CASE back = <<>>
      <4>1. back'[1] = out[1] /\ back' # <<>>
        BY <1>4, <1>5, <2>1, <3>1
      <4> QED BY <2>1, <4>1 DEF Clear
    <3>2. CASE back # <<>>
      <4>1. back'[1] = back[1] /\ back' # <<>>
        BY <1>4, <1>5, <2>1, <3>2
      <4> QED BY <3>2, <4>1 DEF Clear
    <3> QED BY <3>1, <3>2
  <2> QED BY <2>2, <2>3, <2>4 DEF Prompts
<1> QED BY <1>3, <1>5, <1>7, <1>8, <1>9

\* Only a line that has been taken prints nothing.
LEMMA OutcomeSaid ==
    ASSUME NEW s, NEW c \in Line, NEW t, NEW out, Outcome(s, c, t, out),
           NEW i \in 1..Len(out), out[i].says = "nothing"
    PROVE  /\ i = 1 /\ Len(out) = 2 /\ out[1].of = c /\ out[2] = Prompt
           /\ Quietly(s, c, t, out)
           /\ Descends(s, c, t, out) \/ Climbs(s, c, t, out) \/ Works(s, c, t, out)
                \/ Passes(s, c, t, out)
<1>0. Prompt.says = "prompt" /\ \A x, what : Says(x, what).says = what /\ Says(x, what).of = x
  BY PromptSays DEF Says
<1>1. \A x, y : Len(<<x>>) = 1 /\ <<x>>[1] = x /\ Len(<<x, y>>) = 2 /\ <<x, y>>[1] = x
                /\ <<x, y>>[2] = y /\ Len(<<>>) = 0
  OBVIOUS
<1>2. ~Resolves(s, t, out)
  <2> SUFFICES ASSUME Resolves(s, t, out) PROVE FALSE
    OBVIOUS
  <2>1. CASE out = <<>>
    BY <1>1, <2>1
  <2>2. CASE out = <<Prompt>>
    BY <1>0, <1>1, <2>2
  <2>3. ASSUME NEW what \in {"success", "failure"}, out = <<Says(Do("copy"), what), Prompt>>
        PROVE  FALSE
    <3>1. Len(out) = 2 /\ out[1].says = what /\ out[2].says = "prompt"
      BY <1>0, <1>1, <2>3
    <3> QED BY <3>1
  <2> QED BY <2>1, <2>2, <2>3 DEF Resolves
<1>3. ~Refuses(s, c, t, out)
  <2> SUFFICES ASSUME out = <<Says(c, "error"), Prompt>> PROVE FALSE
    BY DEF Refuses
  <2>1. Len(out) = 2 /\ out[1].says = "error" /\ out[2].says = "prompt"
    BY <1>0, <1>1
  <2> QED BY <2>1
<1>4. ~Queries(s, c, t, out)
  <2> SUFFICES ASSUME out \in {<<Says(c, "question")>>, <<Says(c, "password")>>} PROVE FALSE
    BY DEF Queries
  <2>1. Len(out) = 1 /\ out[1].says \in {"question", "password"}
    <3>1. CASE out = <<Says(c, "question")>>
      BY <1>0, <1>1, <3>1
    <3>2. CASE out = <<Says(c, "password")>>
      BY <1>0, <1>1, <3>2
    <3> QED BY <3>1, <3>2
  <2> QED BY <2>1
<1>5. ~Looks(s, c, t, out)
  <2> SUFFICES ASSUME out = <<Page(s, c), Prompt>> PROVE FALSE
    BY DEF Looks
  <2>1. Page(s, c).says = "table"
    BY DEF Page
  <2>2. Len(out) = 2 /\ out[1].says = "table" /\ out[2].says = "prompt"
    BY <1>0, <1>1, <2>1
  <2> QED BY <2>2
<1>6. Descends(s, c, t, out) \/ Climbs(s, c, t, out) \/ Works(s, c, t, out) \/ Passes(s, c, t, out)
  BY <1>2, <1>3, <1>4, <1>5 DEF Outcome
<1>7. Quietly(s, c, t, out)
  BY <1>6 DEF Descends, Climbs, Works, Passes
<1>8. out = <<Says(c, "nothing"), Prompt>>
  BY <1>7 DEF Quietly
<1>9. Len(out) = 2 /\ out[1].of = c /\ out[2] = Prompt /\ out[2].says = "prompt"
  BY <1>0, <1>1, <1>8
<1>10. i = 1
  BY <1>9
<1> QED BY <1>6, <1>7, <1>9, <1>10

\* How deep the shell is after a line.
LEMMA OutcomeDepth ==
    ASSUME NEW s, s.modes \in Levels, NEW c, NEW t, NEW out, Outcome(s, c, t, out)
    PROVE  /\ Len(s.modes) \in Nat /\ Len(t.modes) \in Nat
           /\ Descends(s, c, t, out) => Len(t.modes) = Len(s.modes) + 1
           /\ ~Descends(s, c, t, out) /\ c.do # "exit" => t.modes = s.modes
           /\ ~Descends(s, c, t, out) => Len(t.modes) + 1 >= Len(s.modes)
<1>0. t.modes \in Levels
  BY OutcomeLevels
<1>1. Len(s.modes) \in Nat /\ Len(t.modes) \in Nat
  BY <1>0, LevelLens
<1>2. Descends(s, c, t, out) => Len(t.modes) = Len(s.modes) + 1
  <2> SUFFICES ASSUME Descends(s, c, t, out) PROVE Len(t.modes) = Len(s.modes) + 1
    OBVIOUS
  <2>1. Len(<<>>) = 0 /\ Len(<<"config">>) = 1 /\ Len(<<"database">>) = 1
        /\ Len(<<"config", "database">>) = 2 /\ Len(<<"config", "interface">>) = 2
    OBVIOUS
  <2>2. c.do \in {"vlanDatabase", "configure", "interface"}
    BY DEF Descends, EnterDos
  <2>3. \/ s.modes = <<>> /\ (t.modes = <<"database">> \/ t.modes = <<"config">>)
        \/ /\ s.modes = <<"config">>
           /\ t.modes = <<"config", "database">> \/ t.modes = <<"config", "interface">>
    BY <2>2 DEF Descends
  <2>4. CASE s.modes = <<>> /\ (t.modes = <<"database">> \/ t.modes = <<"config">>)
    <3>1. Len(s.modes) = 0 /\ Len(t.modes) = 1
      BY <2>1, <2>4
    <3> QED BY <3>1
  <2>5. CASE /\ s.modes = <<"config">>
             /\ t.modes = <<"config", "database">> \/ t.modes = <<"config", "interface">>
    <3>1. Len(s.modes) = 1 /\ Len(t.modes) = 2
      BY <2>1, <2>5
    <3> QED BY <3>1
  <2> QED BY <2>3, <2>4, <2>5
<1>3. Climbs(s, c, t, out) => Len(t.modes) + 1 >= Len(s.modes) /\ c.do = "exit"
  BY <1>1 DEF Climbs
<1>4. ~Descends(s, c, t, out) /\ ~Climbs(s, c, t, out) => t.modes = s.modes
  BY DEF Outcome, Resolves, Refuses, Queries, Looks, Works, Passes
<1> QED BY <1>1, <1>2, <1>3, <1>4

LEMMA SaidOf ==
    ASSUME NEW x, NEW dos, Said(x, dos)
    PROVE  x.says = "nothing" /\ x.of.do \in dos
BY DEF Said

LEMMA CreditExecutes ==
    ASSUME Typed, Aimed, Credit, entered \in Nat, Executes, UNCHANGED writerVars
    PROVE  Credit'
<1> DEFINE c == wire[1]
<1>1. /\ wire # <<>> /\ c \in Line /\ back \in Seq(Chunk) /\ wire \in Seq(Line)
      /\ shell.modes \in Levels
  BY ExecOf DEF Typed
<1>2. /\ wire' = <<>> \/ wire' = Tail(wire)
      /\ UNCHANGED <<driver, agenda, awaiting, answer, late, torn>>
  BY ExecOf
<1>3. PICK out \in Seq(Chunk) : Outcome(shell, c, shell', out) /\ back' = back \o out
  BY ExecOf
<1>4. Won' = Won /\ Owed' = Owed
  BY <1>2 DEF Won, Owed, Accepted, writerVars
<1>5. Won \in Nat /\ Owed \in Nat
  BY DEF Won, Owed, Typed
<1> HIDE DEF c
<1>6. /\ wire' \in Seq(Line) /\ Len(wire) \in Nat /\ Len(wire') \in Nat
      /\ Len(wire) >= 1 /\ Len(wire') <= Len(wire) - 1
      /\ \A k \in 1..Len(wire') : wire'[k] = wire[k + 1] /\ k + 1 \in 1..Len(wire) /\ k \in Nat
  BY <1>1, <1>2, ExecWire
<1>7. /\ Cardinality(Outs) \in Nat /\ Cardinality(Outs') \in Nat
      /\ Cardinality(Outs') <= Cardinality(Outs)
      /\ c.do = "exit" => Cardinality(Outs') + 1 <= Cardinality(Outs)
  <2>1. IsFiniteSet(Outs) /\ Outs \subseteq Nat /\ Outs' \subseteq Nat
    <3>1. Outs \subseteq 1..Len(wire)
      BY DEF Outs
    <3>2. Outs' \subseteq 1..Len(wire')
      BY DEF Outs
    <3>3. IsFiniteSet(Outs)
      BY <1>6, <3>1, CountType
    <3> QED BY <1>6, <3>1, <3>2, <3>3
  <2>2. \A b \in Outs' : b + 1 \in Outs
    BY <1>6 DEF Outs
  <2>3. c.do = "exit" => \E a \in Outs : \A b \in Outs' : b + 1 # a
    <3> SUFFICES ASSUME c.do = "exit" PROVE 1 \in Outs /\ \A b \in Outs' : b + 1 # 1
      OBVIOUS
    <3>1. 1 \in Outs
      BY <1>6 DEF Outs, c
    <3>2. \A b \in Outs' : b \in 1..Len(wire')
      BY DEF Outs
    <3> QED BY <1>6, <3>1, <3>2
  <2> DEFINE A == Outs
             B == Outs'
  <2>4. /\ Cardinality(B) \in Nat /\ Cardinality(A) \in Nat
        /\ Cardinality(B) <= Cardinality(A)
        /\ (\E a \in A : \A b \in B : b + 1 # a) => Cardinality(B) + 1 <= Cardinality(A)
    <3> HIDE DEF A, B
    <3>1. IsFiniteSet(A) /\ A \subseteq Nat /\ B \subseteq Nat /\ \A b \in B : b + 1 \in A
      BY <2>1, <2>2 DEF A, B
    <3> QED BY <3>1, CountShift
  <2> QED BY <2>3, <2>4
<1>8. /\ Len(back) \in Nat /\ Len(back') = Len(back) + Len(out) /\ Len(out) \in Nat
      /\ \A i \in 1..Len(back) : back'[i] = back[i]
      /\ \A i \in 1..Len(out) : back'[Len(back) + i] = out[i]
  BY <1>1, <1>3, Joined
<1>9. /\ Cardinality(Oks) \in Nat /\ Cardinality(Oks') \in Nat
      /\ Cardinality(Oks') <= Cardinality(Oks) + 1
      /\ ~Descends(shell, c, shell', out) => Cardinality(Oks') <= Cardinality(Oks)
  <2>1. IsFiniteSet(Oks)
    <3>1. Oks \subseteq 1..Len(back)
      BY DEF Oks
    <3> QED BY <1>8, <3>1, CountType
  <2>2. ASSUME NEW i \in Oks', i \notin Oks
        PROVE  i = Len(back) + 1 /\ Descends(shell, c, shell', out)
    <3>1. i \in 1..Len(back') /\ Okay(back'[i])
      BY <2>2 DEF Oks
    <3>2. i \notin 1..Len(back)
      BY <1>8, <2>2, <3>1 DEF Oks
    <3>3. i - Len(back) \in 1..Len(out) /\ back'[i] = out[i - Len(back)]
      <4> DEFINE j == i - Len(back)
      <4>1. j \in 1..Len(out) /\ Len(back) + j = i
        BY <1>8, <3>1, <3>2
      <4> HIDE DEF j
      <4>2. back'[Len(back) + j] = out[j]
        BY <1>8, <4>1
      <4> QED BY <4>1, <4>2 DEF j
    <3> DEFINE j == i - Len(back)
    <3>4. j \in 1..Len(out) /\ out[j].says = "nothing" /\ out[j].of.do \in EnterDos
      BY <3>1, <3>3, SaidOf DEF Okay
    <3> HIDE DEF j
    <3>5. /\ j = 1 /\ out[1].of = c
          /\ Descends(shell, c, shell', out) \/ Climbs(shell, c, shell', out)
               \/ Works(shell, c, shell', out) \/ Passes(shell, c, shell', out)
      BY <1>1, <1>3, <3>4, OutcomeSaid
    <3>6. c.do \in EnterDos
      BY <3>4, <3>5
    <3>7. Descends(shell, c, shell', out)
      BY <3>5, <3>6 DEF Climbs, Works, Passes, EnterDos, BodyDos, DatabaseCommands,
           InterfaceCommands, GlobalCommands, Globals, VlanCommands, PortSettings
    <3>8. i = Len(back) + 1
      BY <1>8, <3>1, <3>5 DEF j
    <3> QED BY <3>7, <3>8
  <2>3. Oks' \subseteq Oks \cup {Len(back) + 1}
    BY <2>2
  <2>4. ~Descends(shell, c, shell', out) => Oks' \subseteq Oks
    BY <2>2
  <2> DEFINE A == Oks
             B == Oks'
  <2> HIDE DEF A, B
  <2>5. Cardinality(B) \in Nat /\ Cardinality(A) \in Nat /\ Cardinality(B) <= Cardinality(A) + 1
    BY <2>1, <2>3, CountOneMore DEF A, B
  <2>6. B \subseteq A => Cardinality(B) <= Cardinality(A)
    BY <2>1, CountFewer DEF A
  <2> QED BY <2>4, <2>5, <2>6 DEF A, B
<1>10. /\ Len(shell.modes) \in Nat /\ Len(shell'.modes) \in Nat
       /\ Descends(shell, c, shell', out) => Len(shell'.modes) = Len(shell.modes) + 1
       /\ ~Descends(shell, c, shell', out) /\ c.do # "exit" => shell'.modes = shell.modes
       /\ ~Descends(shell, c, shell', out) => Len(shell'.modes) + 1 >= Len(shell.modes)
  BY <1>1, <1>3, OutcomeDepth
<1>11. Cardinality(Oks) + Won + Cardinality(Outs) + Owed <= Len(shell.modes)
  BY DEF Credit
<1>12. Cardinality(Oks') + Won + Cardinality(Outs') + Owed <= Len(shell'.modes)
  <2> DEFINE o == Cardinality(Oks)
             o2 == Cardinality(Oks')
             x == Cardinality(Outs)
             x2 == Cardinality(Outs')
             m == Len(shell.modes)
             m2 == Len(shell'.modes)
  <2>0. /\ o \in Nat /\ o2 \in Nat /\ x \in Nat /\ x2 \in Nat /\ m \in Nat /\ m2 \in Nat
        /\ o2 <= o + 1 /\ x2 <= x /\ o + Won + x + Owed <= m
    BY <1>7, <1>9, <1>10, <1>11
  <2>1. CASE Descends(shell, c, shell', out)
    <3>1. m2 = m + 1
      BY <1>10, <2>1
    <3> HIDE DEF o, o2, x, x2, m, m2
    <3>2. o2 + Won + x2 + Owed <= m2
      BY <1>5, <2>0, <3>1
    <3> QED BY <3>2 DEF o2, x2, m2
  <2>2. CASE ~Descends(shell, c, shell', out) /\ c.do = "exit"
    <3>1. m2 + 1 >= m /\ x2 + 1 <= x /\ o2 <= o
      BY <1>7, <1>9, <1>10, <2>2
    <3> HIDE DEF o, o2, x, x2, m, m2
    <3>2. o2 + Won + x2 + Owed <= m2
      BY <1>5, <2>0, <3>1
    <3> QED BY <3>2 DEF o2, x2, m2
  <2>3. CASE ~Descends(shell, c, shell', out) /\ c.do # "exit"
    <3>1. m2 = m /\ o2 <= o
      BY <1>9, <1>10, <2>3
    <3> HIDE DEF o, o2, x, x2, m, m2
    <3>2. o2 + Won + x2 + Owed <= m2
      BY <1>5, <2>0, <3>1
    <3> QED BY <3>2 DEF o2, x2, m2
  <2> QED BY <2>1, <2>2, <2>3
<1> QED BY <1>4, <1>12 DEF Credit

LEMMA CreditFacts ==
    ASSUME Typed, Credit, entered \in Nat
    PROVE  /\ Won \in {0, 1} /\ Owed \in Nat /\ Len(shell.modes) \in Nat
           /\ Cardinality(Oks) \in Nat /\ Cardinality(Outs) \in Nat
           /\ Cardinality(Oks) + Won + Cardinality(Outs) + Owed <= Len(shell.modes)
           /\ (\E k \in 1..Len(wire) : wire[k].do = "exit") => Cardinality(Outs) >= 1
           /\ (\E i \in 1..Len(back) : Okay(back[i])) => Cardinality(Oks) >= 1
<1>1. Won \in {0, 1} /\ Owed \in Nat
  BY DEF Won, Owed, Typed
<1>2. Len(shell.modes) \in Nat
  BY LevelLens DEF Typed
<1>3. Len(wire) \in Nat /\ Len(back) \in Nat
  BY DEF Typed
<1>4. IsFiniteSet(Oks)
  <2>1. Oks \subseteq 1..Len(back)
    BY DEF Oks
  <2> QED BY <1>3, <2>1, CountType
<1>5. IsFiniteSet(Outs)
  <2>1. Outs \subseteq 1..Len(wire)
    BY DEF Outs
  <2> QED BY <1>3, <2>1, CountType
<1>6. (\E k \in 1..Len(wire) : wire[k].do = "exit") => Cardinality(Outs) >= 1
  <2>1. (\E k \in 1..Len(wire) : wire[k].do = "exit") => \E k : k \in Outs
    BY DEF Outs
  <2> QED BY <1>5, <2>1, CountSome
<1>7. (\E i \in 1..Len(back) : Okay(back[i])) => Cardinality(Oks) >= 1
  <2>1. (\E i \in 1..Len(back) : Okay(back[i])) => \E i : i \in Oks
    BY DEF Oks
  <2> QED BY <1>4, <2>1, CountSome
<1>8. Cardinality(Oks) \in Nat /\ Cardinality(Outs) \in Nat
  BY <1>4, <1>5, CountSome
<1> QED BY <1>1, <1>2, <1>6, <1>7, <1>8 DEF Credit

LEMMA OwnedExecutes ==
    ASSUME Typed, Aimed, Owned, Executes, UNCHANGED writerVars
    PROVE  Owned'
<1>1. /\ wire # <<>> /\ wire \in Seq(Line)
      /\ UNCHANGED <<driver, agenda, awaiting, answer, late, torn>>
  BY ExecOf DEF Typed
<1>2. wire' = <<>> \/ wire' = Tail(wire)
  BY ExecOf
<1>3. /\ Len(wire) \in Nat /\ Len(wire') \in Nat
      /\ Len(wire) >= 1 /\ Len(wire') <= Len(wire) - 1
      /\ \A k \in 1..Len(wire') :
           wire'[k] = wire[k + 1] /\ k + 1 \in 1..Len(wire) /\ k \in Nat /\ Len(wire) = Len(wire') + 1
  BY <1>1, <1>2, ExecWire
<1>4. UNCHANGED <<stage, todo, entered, call, victim, awaiting>> /\ Idle' = Idle
  BY <1>1 DEF writerVars, Idle
<1> SUFFICES ASSUME NEW k \in 1..Len(wire'), wire'[k].do \in TiedDos
             PROVE  ExitBehind(k)' \/ Mine(k)' \/ (stage = "unwind" /\ Idle /\ todo # <<>>)
  BY <1>4 DEF Owned
<1>5. wire'[k] = wire[k + 1] /\ k + 1 \in 1..Len(wire) /\ k \in Nat /\ Len(wire) = Len(wire') + 1
  BY <1>3
<1>6. ExitBehind(k + 1) \/ Mine(k + 1) \/ (stage = "unwind" /\ Idle /\ todo # <<>>)
  BY <1>5 DEF Owned
<1>7. CASE ExitBehind(k + 1)
  <2>1. PICK j \in (k + 1) + 1..Len(wire) : wire[j].do = "exit"
    BY <1>7 DEF ExitBehind
  <2>2. j - 1 \in k + 1..Len(wire') /\ j - 1 \in 1..Len(wire') /\ (j - 1) + 1 = j
    BY <1>3, <1>5, <2>1
  <2>3. wire'[j - 1] = wire[j]
    BY <1>3, <2>2
  <2> QED BY <2>1, <2>2, <2>3 DEF ExitBehind
<1>8. CASE Mine(k + 1)
  <2>1. k + 1 = Len(wire) => k = Len(wire')
    BY <1>3, <1>5
  <2> QED BY <1>4, <1>5, <1>8, <2>1 DEF Mine
<1> QED BY <1>6, <1>7, <1>8

\* An inner line is taken only where "configure" has led.
LEMMA OutcomeInner ==
    ASSUME NEW s, NEW c, NEW t, NEW out, c.do \in InnerDos,
           Descends(s, c, t, out) \/ Climbs(s, c, t, out) \/ Works(s, c, t, out)
             \/ Passes(s, c, t, out)
    PROVE  /\ s.modes = <<"config">> /\ Len(s.modes) = 1 /\ t.asking = "nothing"
           /\ c.do = "interface" => t.modes = <<"config", "interface">> /\ t.port = c.port
<1>1. Len(<<"config">>) = 1
  OBVIOUS
<1>2. ~Climbs(s, c, t, out) /\ ~Passes(s, c, t, out)
  BY DEF Climbs, Passes, InnerDos
<1>3. CASE Descends(s, c, t, out)
  <2>1. c.do = "interface"
    BY <1>3 DEF Descends, InnerDos, EnterDos
  <2> QED BY <1>1, <1>3, <2>1 DEF Descends, Quietly
<1>4. CASE Works(s, c, t, out)
  <2>1. c.do \in {"addHost", "removeHost"}
    BY <1>4 DEF Works, InnerDos, BodyDos, DatabaseCommands, InterfaceCommands, GlobalCommands,
                Globals, VlanCommands, PortSettings
  <2>2. s.modes = <<"config">>
    BY <1>4, <2>1 DEF Works, GlobalCommands
  <2> QED BY <1>1, <1>4, <2>1, <2>2 DEF Works, Quietly
<1> QED BY <1>2, <1>3, <1>4

\* What is new of what is unread.
LEMMA ExecSays ==
    ASSUME Typed, Aimed, Executes, NEW i \in 1..Len(back'), i \notin 1..Len(back),
           back'[i].says = "nothing"
    PROVE  /\ i = Len(back) + 1 /\ Len(back') = Len(back) + 2 /\ Len(back) \in Nat
           /\ back'[i].of = wire[1] /\ back'[Len(back')] = Prompt
           /\ shell'.asking = "nothing"
           /\ wire[1].do \in InnerDos =>
                /\ shell.modes = <<"config">> /\ Len(shell.modes) = 1
                /\ wire[1].do = "interface" =>
                     shell'.modes = <<"config", "interface">> /\ shell'.port = wire[1].port
<1>1. wire[1] \in Line /\ back \in Seq(Chunk)
  BY ExecOf
<1>2. PICK out \in Seq(Chunk) : Outcome(shell, wire[1], shell', out) /\ back' = back \o out
  BY ExecOf
<1>3. /\ Len(back) \in Nat /\ Len(back') = Len(back) + Len(out) /\ Len(out) \in Nat
      /\ \A j \in 1..Len(out) : back'[Len(back) + j] = out[j]
  BY <1>1, <1>2, Joined
<1> DEFINE j == i - Len(back)
<1>4. j \in 1..Len(out) /\ Len(back) + j = i
  BY <1>3
<1> HIDE DEF j
<1>5. out[j].says = "nothing" /\ back'[i] = out[j]
  BY <1>3, <1>4
<1> DEFINE c == wire[1]
<1> HIDE DEF c
<1>6. /\ j = 1 /\ Len(out) = 2 /\ out[1].of = c /\ out[2] = Prompt
      /\ Quietly(shell, c, shell', out)
      /\ Descends(shell, c, shell', out) \/ Climbs(shell, c, shell', out)
           \/ Works(shell, c, shell', out) \/ Passes(shell, c, shell', out)
  BY <1>1, <1>2, <1>4, <1>5, OutcomeSaid DEF c
<1>7. shell'.asking = "nothing"
  BY <1>6 DEF Quietly
<1>8. back'[Len(back')] = Prompt
  <2>1. 2 \in 1..Len(out) /\ Len(back') = Len(back) + 2
    BY <1>3, <1>6
  <2> QED BY <1>3, <1>6, <2>1
<1>9. c.do \in InnerDos =>
        /\ shell.modes = <<"config">> /\ Len(shell.modes) = 1
        /\ c.do = "interface" => shell'.modes = <<"config", "interface">> /\ shell'.port = c.port
  BY <1>6, OutcomeInner
<1> QED BY <1>3, <1>4, <1>5, <1>6, <1>7, <1>8, <1>9 DEF c

\* An inner line is taken only for the call that has not let go of it, or when an
\* exit is to follow: nothing else is then owed.
LEMMA InnerTaken ==
    ASSUME Typed, Aimed, Credit, Owned, entered \in Nat, Executes,
           wire[1].do \in InnerDos, Len(shell.modes) = 1
    PROVE  /\ Cardinality(Oks) = 0 /\ Won = 0
           /\ stage \in {"enter", "body"} /\ entered = 1 => Mine(1)
<1>1. wire # <<>> /\ wire \in Seq(Line) /\ todo \in Seq(Line)
  BY ExecOf DEF Typed
<1>2. Len(wire) \in Nat /\ 1 \in 1..Len(wire)
  BY <1>1, Rest
<1>3. /\ Won \in {0, 1} /\ Owed \in Nat
      /\ Cardinality(Oks) \in Nat /\ Cardinality(Outs) \in Nat
      /\ Cardinality(Oks) + Won + Cardinality(Outs) + Owed <= 1
      /\ (\E k \in 1..Len(wire) : wire[k].do = "exit") => Cardinality(Outs) >= 1
  BY CreditFacts
<1>4. ExitBehind(1) \/ Mine(1) \/ (stage = "unwind" /\ Idle /\ todo # <<>>)
  BY <1>2 DEF Owned, TiedDos
<1>5. CASE ExitBehind(1)
  <2>1. Cardinality(Outs) >= 1
    BY <1>2, <1>3, <1>5 DEF ExitBehind
  <2>2. Owed = 0
    BY <1>3, <2>1
  <2> QED BY <1>3, <2>1, <2>2 DEF Owed
<1>6. CASE Mine(1)
  <2>1. Owed = 1
    BY <1>6 DEF Mine, Owed
  <2> QED BY <1>3, <1>6, <2>1
<1>7. CASE stage = "unwind" /\ Idle /\ todo # <<>>
  <2>1. Owed >= 1
    BY <1>1, <1>7, Rest DEF Owed
  <2> QED BY <1>3, <1>7, <2>1
<1> QED BY <1>4, <1>5, <1>6, <1>7

LEMMA ApartExecutes ==
    ASSUME Typed, Aimed, Credit, Owned, Apart, entered \in Nat, Executes, UNCHANGED writerVars
    PROVE  Apart'
<1>0. UNCHANGED <<driver, agenda, awaiting, answer, late, torn>>
  BY ExecOf
<1>1. Won' = Won /\ awaiting' = awaiting
  BY <1>0 DEF Won, Accepted, writerVars
<1>2. Len(back) \in Nat /\ \A i \in 1..Len(back) : back'[i] = back[i]
  <2>1. PICK out \in Seq(Chunk) : back' = back \o out
    BY ExecOf
  <2> QED BY <2>1, Joined DEF Typed
<1>3. ASSUME NEW j \in 1..Len(back'), Said(back'[j], InnerDos), j \notin 1..Len(back)
      PROVE  /\ j = Len(back) + 1 /\ Cardinality(Oks) = 0 /\ Won = 0
  <2>1. back'[j].says = "nothing" /\ back'[j].of.do \in InnerDos
    BY <1>3, SaidOf
  <2>2. /\ j = Len(back) + 1 /\ back'[j].of = wire[1]
        /\ wire[1].do \in InnerDos => Len(shell.modes) = 1
    BY <1>3, <2>1, ExecSays
  <2>3. wire[1].do \in InnerDos /\ Len(shell.modes) = 1
    BY <2>1, <2>2
  <2> QED BY <2>2, <2>3, InnerTaken
<1>4. \A i, j \in 1..Len(back') :
        i < j /\ Said(back'[i], {"configure"}) => ~Said(back'[j], InnerDos)
  <2> SUFFICES ASSUME NEW i \in 1..Len(back'), NEW j \in 1..Len(back'), i < j,
                      Said(back'[i], {"configure"}), Said(back'[j], InnerDos)
               PROVE  FALSE
    OBVIOUS
  <2>1. CASE j \in 1..Len(back)
    <3>1. i \in 1..Len(back) /\ back'[i] = back[i] /\ back'[j] = back[j]
      BY <1>2, <2>1
    <3> QED BY <2>1, <3>1 DEF Apart
  <2>2. CASE j \notin 1..Len(back)
    <3>1. j = Len(back) + 1 /\ Cardinality(Oks) = 0
      BY <1>3, <2>2
    <3>2. i \in 1..Len(back) /\ back'[i] = back[i]
      BY <1>2, <3>1
    <3>3. Okay(back[i])
      BY <3>2 DEF Said, Okay, EnterDos
    <3>4. Cardinality(Oks) >= 1
      BY <3>2, <3>3, CreditFacts
    <3> QED BY <3>1, <3>4
  <2> QED BY <2>1, <2>2
<1>5. Won' = 1 /\ awaiting'.do = "configure" => \A j \in 1..Len(back') : ~Said(back'[j], InnerDos)
  <2> SUFFICES ASSUME Won = 1, awaiting.do = "configure", NEW j \in 1..Len(back'),
                      Said(back'[j], InnerDos)
               PROVE  FALSE
    BY <1>1
  <2>1. CASE j \in 1..Len(back)
    BY <1>2, <2>1 DEF Apart
  <2>2. CASE j \notin 1..Len(back)
    BY <1>3, <2>2
  <2> QED BY <2>1, <2>2
<1> QED BY <1>4, <1>5 DEF Apart

LEMMA CallTyped ==
    ASSUME Typed, stage \notin Resting
    PROVE  call \in Call /\ call \in Calls /\ ~GuardRaises(call) /\ call.kind \in Kinds
           /\ call.port \in Port /\ call.vlan \in Vlan
<1>1. call \in Calls /\ ~GuardRaises(call)
  BY DEF Typed
<1>2. call \in Call
  BY <1>1 DEF Calls
<1> QED BY <1>1, <1>2, CallKind

\* The interface that the line names is the call's.
LEMMA OwnInterface ==
    ASSUME Typed, StageFits, Descent, stage \in {"enter", "body"}, ~Idle,
           awaiting.do = "interface"
    PROVE  awaiting.port = call.port
<1>0. stage \notin Resting /\ stage # "script"
  BY DEF Resting
<1>1. call \in Call /\ call.kind \notin {"reboot", "deploy"}
  BY <1>0, CallTyped DEF StageFits
<1>2. CASE stage = "enter"
  <2> DEFINE cmds == EnterCommands(call)
             n == Len(cmds) - Len(todo)
  <2>1. n \in 0..Len(cmds) /\ n >= 1 /\ awaiting = cmds[n] /\ Len(cmds) \in 0..2
    BY <1>1, <1>2, EnterIs DEF Descent
  <2>2. /\ Do("vlanDatabase").do = "vlanDatabase" /\ Do("configure").do = "configure"
    BY DoIs
  <2>3. \A x, y : /\ Len(<<>>) = 0 /\ Len(<<x>>) = 1 /\ <<x>>[1] = x
                  /\ Len(<<x, y>>) = 2 /\ <<x, y>>[1] = x /\ <<x, y>>[2] = y
    OBVIOUS
  <2> HIDE DEF n
  <2>4. n = 1 \/ n = 2
    BY <2>1
  <2>5. cmds = <<Do("vlanDatabase")>> \/ cmds = <<>> \/ cmds = <<Do("configure")>>
        \/ cmds = <<Do("configure"), OnPort("interface", NoVlan, call.port)>>
    BY <1>1, EnterIs
  <2> HIDE DEF cmds
  <2>6. awaiting = OnPort("interface", NoVlan, call.port)
    <3>1. CASE cmds = <<>>
      BY <2>1, <2>3, <2>4, <3>1
    <3>2. CASE cmds = <<Do("vlanDatabase")>>
      BY <2>1, <2>2, <2>3, <2>4, <3>2
    <3>3. CASE cmds = <<Do("configure")>>
      BY <2>1, <2>2, <2>3, <2>4, <3>3
    <3>4. CASE cmds = <<Do("configure"), OnPort("interface", NoVlan, call.port)>>
      BY <2>1, <2>2, <2>3, <2>4, <3>4
    <3> QED BY <2>5, <3>1, <3>2, <3>3, <3>4
  <2>7. OnPort("interface", NoVlan, call.port).port = call.port
    BY DEF OnPort, Do
  <2> QED BY <2>6, <2>7
<1>3. CASE stage = "body"
  <2> DEFINE cmds == BodyCommands(call, victim)
             n == Len(cmds) - Len(todo)
  <2>1. n \in 0..Len(cmds) /\ n >= 1 /\ awaiting = cmds[n]
    BY <1>3 DEF Descent
  <2>2. Batch(cmds, "body")
    BY <1>1, BodyProper
  <2>3. cmds \in Seq(Range(cmds)) /\ \A x \in Range(cmds) : x.do \in BodyDos
    BY <2>2, DosOf DEF Batch, Proper
  <2> HIDE DEF cmds
  <2>4. n \in 1..Len(cmds)
    BY <2>1, <2>3
  <2>5. awaiting.do \in BodyDos
    BY <2>1, <2>3, <2>4
  <2> QED BY <2>5 DEF BodyDos, DatabaseCommands, InterfaceCommands, GlobalCommands, Globals,
                    VlanCommands, PortSettings
<1> QED BY <1>2, <1>3

LEMMA OwnOkExecutes ==
    ASSUME Typed, Aimed, Credit, Owned, OwnOk, Descent, StageFits, Executes, UNCHANGED writerVars
    PROVE  OwnOk'
<1>0. UNCHANGED <<driver, agenda, awaiting, answer, late, torn>>
  BY ExecOf
<1>1. UNCHANGED <<stage, entered, call, awaiting>> /\ Idle' = Idle
  BY <1>0 DEF writerVars, Idle
<1>2. Len(back) \in Nat /\ \A i \in 1..Len(back) : back'[i] = back[i]
  <2>1. PICK out \in Seq(Chunk) : back' = back \o out
    BY ExecOf
  <2> QED BY <2>1, Joined DEF Typed
<1>3. wire # <<>> /\ wire \in Seq(Line)
  BY ExecOf DEF Typed
<1>4. SUFFICES ASSUME stage \in {"enter", "body"}, entered = 1,
                      call.kind \in PortKinds \cup HostKinds,
                      NEW i \in 1..Len(back'), Said(back'[i], InnerDos)
               PROVE  /\ wire' = <<>> /\ i = Len(back') - 1 /\ back'[Len(back')] = Prompt
                      /\ shell'.asking = "nothing"
                      /\ awaiting = back'[i].of
                      /\ awaiting.do = "interface" => There'
  BY <1>1 DEF OwnOk
<1>5. i \notin 1..Len(back)
  BY <1>2, <1>3, <1>4 DEF OwnOk
<1>6. back'[i].says = "nothing" /\ back'[i].of.do \in InnerDos
  BY <1>4, SaidOf
<1>7. /\ i = Len(back) + 1 /\ Len(back') = Len(back) + 2 /\ back'[i].of = wire[1]
      /\ back'[Len(back')] = Prompt /\ shell'.asking = "nothing"
      /\ wire[1].do \in InnerDos =>
           /\ Len(shell.modes) = 1
           /\ wire[1].do = "interface" =>
                shell'.modes = <<"config", "interface">> /\ shell'.port = wire[1].port
  BY <1>5, <1>6, ExecSays
<1>8. wire[1].do \in InnerDos
  BY <1>6, <1>7
<1>9. Mine(1)
  BY <1>4, <1>7, <1>8, InnerTaken DEF StageFits
<1>10. wire[1] = awaiting /\ Len(wire) = 1
  BY <1>8, <1>9 DEF Mine, InnerDos, DatabaseCommands
<1>11. wire' = <<>>
  <2>1. wire' = <<>> \/ wire' = Tail(wire)
    BY ExecOf
  <2>2. Len(wire') \in Nat /\ Len(wire') <= 0 /\ (wire' = <<>> <=> Len(wire') = 0)
    BY <1>3, <1>10, <2>1, ExecWire
  <2> QED BY <2>2
<1>12. awaiting.do = "interface" => There'
  <2> SUFFICES ASSUME awaiting.do = "interface" PROVE There'
    OBVIOUS
  <2>1. ~Idle
    BY DoIs DEF Idle, NoLine
  <2>2. awaiting.port = call.port
    BY <1>4, <2>1, OwnInterface
  <2> QED BY <1>1, <1>7, <1>8, <1>10, <2>2 DEF There
<1> QED BY <1>2, <1>7, <1>10, <1>11, <1>12

LEMMA InHandExecutes ==
    ASSUME Typed, Aimed, InHand, Executes, UNCHANGED writerVars
    PROVE  InHand'
<1>1. UNCHANGED <<stage, entered, call>>
  BY DEF writerVars
<1>2. SUFFICES ASSUME stage = "body" \/ (stage = "enter" /\ entered = 2), call.kind \in PortKinds
               PROVE  /\ There' /\ shell'.asking = "nothing"
                      /\ \A k \in 1..Len(wire') :
                           wire'[k].do \in InterfaceCommands /\ wire'[k].port = call.port
  BY <1>1 DEF InHand
<1>3. /\ There /\ shell.asking = "nothing"
      /\ \A k \in 1..Len(wire) : wire[k].do \in InterfaceCommands /\ wire[k].port = call.port
  BY <1>2 DEF InHand
<1>4. wire # <<>> /\ wire \in Seq(Line)
  BY ExecOf DEF Typed
<1>5. /\ Len(wire) >= 1 /\ Len(wire) \in Nat
      /\ \A k \in 1..Len(wire') : wire'[k] = wire[k + 1] /\ k + 1 \in 1..Len(wire)
  <2>1. wire' = <<>> \/ wire' = Tail(wire)
    BY ExecOf
  <2> QED BY <1>4, <2>1, ExecWire
<1>6. wire[1].do \in InterfaceCommands
  BY <1>3, <1>5
<1>7. PICK out \in Seq(Chunk) : Outcome(shell, wire[1], shell', out)
  BY ExecOf
<1> DEFINE c == wire[1]
<1> HIDE DEF c
<1>8. c.do \notin EnterDos \cup {"exit", "https", "paging", "enable", "password"} \cup Shows
  BY <1>6 DEF c, EnterDos, Shows, InterfaceCommands, VlanCommands, PortSettings
<1>9. /\ ~Descends(shell, c, shell', out) /\ ~Climbs(shell, c, shell', out)
      /\ ~Looks(shell, c, shell', out) /\ ~Passes(shell, c, shell', out)
  BY <1>8 DEF Descends, Climbs, Looks, Passes
<1>10. ~Resolves(shell, shell', out)
  BY <1>3 DEF Resolves, Questions, ExecCommands
<1>11. CASE Refuses(shell, c, shell', out)
  BY <1>3, <1>5, <1>11, <1>1 DEF Refuses, There
<1>12. CASE Works(shell, c, shell', out)
  <2>1. shell'.modes = shell.modes /\ shell'.port = shell.port /\ shell'.asking = "nothing"
    BY <1>12 DEF Works, Quietly
  <2> QED BY <1>1, <1>3, <1>5, <2>1 DEF There
<1>13. ~Queries(shell, c, shell', out)
  <2>1. c.do \notin Questions
    BY <1>6 DEF c, Questions, ExecCommands, InterfaceCommands, VlanCommands, PortSettings
  <2> QED BY <2>1 DEF Queries
<1> QED BY <1>7, <1>9, <1>10, <1>11, <1>12, <1>13 DEF Outcome, c

LEMMA AimedExecutes ==
    ASSUME Typed, Aimed, Executes
    PROVE  Aimed'
<1>1. wire # <<>> /\ wire \in Seq(Line)
  BY ExecOf DEF Typed
<1>2. /\ Len(wire) >= 1 /\ Len(wire) \in Nat
      /\ \A k \in 1..Len(wire') : wire'[k] = wire[k + 1] /\ k + 1 \in 1..Len(wire) /\ k \in Nat
  <2>1. wire' = <<>> \/ wire' = Tail(wire)
    BY ExecOf
  <2> QED BY <1>1, <2>1, ExecWire
<1>3. PICK out \in Seq(Chunk) : Outcome(shell, wire[1], shell', out)
  BY ExecOf
<1> SUFFICES ASSUME NEW k \in 1..Len(wire'), wire'[k].do \in InterfaceCommands
             PROVE  /\ \A j \in 1..k - 1 : wire'[j].do # "exit"
                    /\ shell'.modes = <<"config", "interface">> /\ shell'.port = wire'[k].port
  BY DEF Aimed
<1>4. wire'[k] = wire[k + 1] /\ k + 1 \in 1..Len(wire) /\ k \in Nat /\ k >= 1
  BY <1>2
<1>5. /\ \A j \in 1..k : wire[j].do # "exit"
      /\ shell.modes = <<"config", "interface">> /\ shell.port = wire[k + 1].port
  BY <1>4 DEF Aimed
<1>6. \A j \in 1..k - 1 : wire'[j].do # "exit"
  <2> SUFFICES ASSUME NEW j \in 1..k - 1 PROVE wire'[j].do # "exit"
    OBVIOUS
  <2>1. j \in 1..Len(wire') /\ j + 1 \in 1..k
    BY <1>4
  <2> QED BY <1>2, <1>5, <2>1
<1> DEFINE c == wire[1]
<1>7. c.do # "exit"
  BY <1>4, <1>5
<1> HIDE DEF c
<1>8. ~Climbs(shell, c, shell', out)
  BY <1>7 DEF Climbs
<1>9. ~Descends(shell, c, shell', out)
  <2>1. /\ <<"config", "interface">> # <<>> /\ <<"config", "interface">> # <<"config">>
    <3>1. Len(<<"config", "interface">>) = 2 /\ Len(<<"config">>) = 1 /\ Len(<<>>) = 0
      OBVIOUS
    <3> QED BY <3>1
  <2> QED BY <1>5, <2>1 DEF Descends, EnterDos
<1>10. shell'.modes = shell.modes /\ shell'.port = shell.port
  BY <1>3, <1>8, <1>9 DEF Outcome, Resolves, Refuses, Queries, Looks, Works, Passes, c
<1> QED BY <1>4, <1>5, <1>6, <1>10

LEMMA LateExecutes ==
    ASSUME IInv, LateInv, Executes, UNCHANGED writerVars
    PROVE  LateInv'
<1>1. Typed' /\ Prompts' /\ Credit' /\ Owned' /\ Apart' /\ OwnOk' /\ InHand' /\ Aimed'
  BY TypedExecutes, PromptsExecutes, CreditExecutes, OwnedExecutes, ApartExecutes,
     OwnOkExecutes, InHandExecutes, AimedExecutes DEF LateInv, IInv, StageFits
<1>2. /\ UNCHANGED <<driver, agenda, awaiting, answer, late, torn>> /\ wire # <<>>
      /\ UNCHANGED <<call, stage, todo, entered, failed, got, victim, polls, calls, named>>
  BY ExecOf DEF LateInv, writerVars
<1>3. Idle' = Idle /\ Broken' = Broken /\ Accepted' = Accepted
  BY <1>2 DEF Idle, Broken, Accepted
<1>4. Clear => Clear'
  BY PromptsExecutes DEF LateInv
<1>5. Attached'
  BY <1>2, <1>3, <1>4 DEF LateInv, Attached
<1>6. Descent'
  BY <1>2, <1>3 DEF LateInv, Descent
<1>7. Landed'
  BY <1>2, <1>3 DEF LateInv, Landed, Caught
<1> QED BY <1>1, <1>5, <1>6, <1>7 DEF LateInv

-----------------------------------------------------------------------------
(***************************************************************************)
(* Reads of the channel.  What is left is the end of what was there; a     *)
(* read gives up, goes on (a reply, the next line of the setup) or brings  *)
(* the call an answer.                                                     *)
(***************************************************************************)
Harmless == Shows \cup {"https", "yes"} \cup ExecCommands \cup SetupCommands
Deep     == {"enter", "body", "unwind"}

GivesUp ==
    /\ answer' \in {Raised, Ended} /\ torn' = TRUE /\ agenda' = <<>>
    /\ UNCHANGED <<wire, driver, awaiting>>

GoesOn(more) ==
    /\ stage \notin Deep /\ more \in Seq(Line)
    /\ \A k \in 1..Len(more) : more[k].do \in Harmless
    /\ wire' = wire \o more
    /\ answer' = Pending /\ UNCHANGED torn /\ driver' \in {driver, "ready"}
    /\ agenda' \in Seq(Line)
    /\ awaiting' \in Line \cup {Banner} /\ awaiting' # NoLine
    /\ torn => UNCHANGED awaiting
    /\ awaiting'.do \in Shows =>
         more = <<awaiting'>> /\ Len(agenda) >= 1 /\ awaiting' = agenda[1]
    /\ awaiting'.do \notin Shows => \A k \in 1..Len(more) : more[k].do \notin Shows
    /\ agenda = <<>> => awaiting.do \notin Shows
    /\ \A k \in 1..Len(agenda') : \E j \in 1..Len(agenda) : agenda'[k] = agenda[j]

ComesBack(n) ==
    /\ n >= 1 /\ agenda = <<>> /\ Proper(awaiting, stage)
    /\ stage # "script" => back[n] = Prompt
    /\ answer' = Returned(Clean(SubSeq(back, 1, n)))
    /\ UNCHANGED <<wire, driver, agenda, awaiting, torn>>

ReadOf(n) ==
    /\ n \in 0..Len(back) /\ back' = SubSeq(back, n + 1, Len(back))
    /\ GivesUp \/ (\E more : GoesOn(more)) \/ ComesBack(n)

Reads == Receive \/ TimesOut \/ StreamEnds

\* The line that is waited for, once the setup is over.
LEMMA AwaitedLine ==
    ASSUME IInv, Typed, Attached, Waiting, agenda = <<>>
    PROVE  Proper(awaiting, stage) /\ stage \in Stage /\ stage \notin Resting
<1>1. stage \in Stage /\ stage \notin Resting /\ ~Idle /\ ~Broken
  BY DEF IInv, StageFits, Waiting, Idle, Broken, Pending
<1>2. CASE torn
  BY <1>1, <1>2 DEF Attached
<1>3. CASE ~torn
  <2>1. AgendaFits
    BY <1>3 DEF IInv, Steady, Sound, ChannelFits
  <2>2. \A x, y, z : <<x, y, z>> # <<>> /\ <<x, y>> # <<>> /\ <<x>> # <<>>
    OBVIOUS
  <2>3. Proper(awaiting, stage)
    <3>1. agenda # <<Do("enable"), Do("paging"), agenda[3]>>
      BY <2>2
    <3>2. agenda # <<Do("paging"), agenda[2]>> /\ agenda # <<agenda[1]>>
      BY <2>2
    <3> QED BY <2>1, <3>1, <3>2 DEF AgendaFits
  <2> QED BY <1>1, <2>3
<1> QED BY <1>1, <1>2, <1>3

LEMMA ReplyGoesOn ==
    ASSUME IInv, Typed, Attached, Waiting, Reply, Replies
    PROVE  \E more : GoesOn(more)
<1> DEFINE more == <<Do("yes")>>
<1>1. awaiting # Banner /\ awaiting # NoLine /\ awaiting \in Line
  BY DoIs DEF Replies, Typed, Banner, NoLine
<1>2. stage \notin Deep
  <2>1. agenda = <<>> => Proper(awaiting, stage)
    BY AwaitedLine
  <2>2. stage \in Deep => agenda = <<>>
    BY DEF Attached, Deep
  <2>3. Proper(awaiting, stage) => stage \notin Deep
    BY DosOf DEF Proper, Deep, Replies, EnterDos, BodyDos, DatabaseCommands, InterfaceCommands,
           GlobalCommands, Globals, VlanCommands, PortSettings
  <2> QED BY <2>1, <2>2, <2>3
<1>3. Do("yes") \in Line /\ Do("yes").do = "yes"
  BY LineDo, DoIs
<1>4. more \in Seq(Line) /\ Len(more) = 1 /\ more[1] = Do("yes")
  BY <1>3, ShortSeqs
<1>5. wire' = wire \o more
  BY <1>3 DEF Reply, Typed
<1> HIDE DEF more
<1>6. \A k \in 1..Len(more) : more[k].do \in Harmless
  BY <1>3, <1>4 DEF Harmless
<1>7. answer' = Pending /\ UNCHANGED <<torn, driver, agenda, awaiting>> /\ agenda \in Seq(Line)
  BY DEF Reply, Waiting, Typed
<1>8. awaiting'.do \notin Shows /\ awaiting.do \notin Shows /\ \A k \in 1..Len(more) : more[k].do \notin Shows
  BY <1>3, <1>4, <1>7 DEF Replies, Shows
<1>9. \A k \in 1..Len(agenda') : \E j \in 1..Len(agenda) : agenda'[k] = agenda[j]
  BY <1>7
<1> QED BY <1>1, <1>2, <1>4, <1>5, <1>6, <1>7, <1>8, <1>9 DEF GoesOn

LEMMA SetupIsOn ==
    ASSUME IInv, Typed, Attached, Waiting, agenda # <<>>, NEW asked \in BOOLEAN, SetupGoesOn(asked)
    PROVE  \E more : GoesOn(more)
<1> DEFINE c == NextLine(asked)
           more == Lines(c)
<1>1. agenda \in Seq(Line) /\ Head(agenda) = agenda[1] /\ agenda[1] \in Line
      /\ Tail(agenda) \in Seq(Line)
  BY Rest DEF Typed
<1>2. stage \notin Deep /\ stage \in Stage
  BY DEF Attached, Deep, IInv, StageFits
<1>3. ~torn
  BY DEF IInv, SessionFits
<1>4. AgendaFits
  BY <1>3 DEF IInv, Steady, Sound, ChannelFits
<1>5. Proper(agenda[1], stage) \/ agenda[1] \in {Do("enable"), Do("paging")}
  BY <1>4 DEF AgendaFits
<1>6. stage \in Reading \cup {"script"}
  <2>1. stage \notin Resting
    BY DEF IInv, StageFits, Idle, Waiting
  <2> QED BY <1>2, <2>1 DEF Stage, Deep
<1>7. /\ Do("enable").do = "enable" /\ Do("paging").do = "paging"
      /\ Do("password").do = "password" /\ Do("yes").do = "yes" /\ NoLine.do = "none"
      /\ Do("password") \in Line /\ Do("yes") \in Line
  BY DoIs, LineDo DEF NoLine, SetupCommands
<1>8. agenda[1].do \in Harmless \ {"yes"}
  <2>1. CASE Proper(agenda[1], stage)
    <3>1. agenda[1].do \in Dos(stage)
      BY <2>1 DEF Proper
    <3>2. Dos(stage) \in {Shows, {"https", "copy", "save", "reload"}}
      BY <1>6, DosOf
    <3> QED BY <3>1, <3>2 DEF Harmless, ExecCommands, Shows
  <2>2. CASE agenda[1] \in {Do("enable"), Do("paging")}
    BY <1>7, <2>2 DEF Harmless, SetupCommands
  <2> QED BY <1>5, <2>1, <2>2
<1>9. c \in Line /\ c.do \in Harmless /\ c # NoLine
  <2>1. c = Do("password") \/ c = agenda[1]
    BY <1>1 DEF NextLine
  <2>2. "none" \notin Harmless
    BY DEF Harmless, Shows, ExecCommands, SetupCommands
  <2>3. c \in Line /\ c.do \in Harmless
    BY <1>1, <1>7, <1>8, <2>1 DEF Harmless, SetupCommands
  <2> QED BY <1>7, <2>2, <2>3
<1>10. /\ wire' = wire \o more /\ awaiting' = c /\ UNCHANGED <<answer, torn>>
       /\ agenda' \in {agenda, Tail(agenda)} /\ driver' \in {driver, "ready"}
  BY DEF SetupGoesOn, SendLine, AgendaAfter
<1> HIDE DEF c
<1>11. more \in Seq(Line)
  BY <1>9, LinesTyped
<1>12. \A k \in 1..Len(more) : more[k].do \in Harmless
  <2>1. CASE more = <<c>>
    <3>1. Len(more) = 1 /\ more[1] = c
      BY <2>1
    <3> QED BY <1>9, <3>1
  <2>2. CASE more = <<c, Do("yes")>>
    <3>1. Len(more) = 2 /\ more[1] = c /\ more[2] = Do("yes")
      BY <2>2
    <3> QED BY <1>7, <1>9, <3>1 DEF Harmless
  <2> QED BY <2>1, <2>2, LinesOf
<1>14. c.do \in Shows => more = <<c>> /\ Len(agenda) >= 1 /\ c = agenda[1]
  <2> SUFFICES ASSUME c.do \in Shows PROVE more = <<c>> /\ Len(agenda) >= 1 /\ c = agenda[1]
    OBVIOUS
  <2>1. c # Do("password") /\ c.do \notin {"reload", "save"}
    BY <1>7 DEF Shows
  <2>2. c = agenda[1]
    BY <1>1, <2>1 DEF NextLine, c
  <2>3. Len(agenda) \in Nat /\ Len(agenda) >= 1
    BY <1>1, Rest
  <2>4. more = <<c>>
    BY <2>1 DEF Lines
  <2> QED BY <2>2, <2>3, <2>4
<1>16. c.do \notin Shows => \A k \in 1..Len(more) : more[k].do \notin Shows
  <2>1. CASE more = <<c>>
    <3>1. Len(more) = 1 /\ more[1] = c
      BY <2>1
    <3> QED BY <3>1
  <2>2. CASE more = <<c, Do("yes")>>
    <3>1. Len(more) = 2 /\ more[1] = c /\ more[2] = Do("yes")
      BY <2>2
    <3>2. "yes" \notin Shows
      BY DEF Shows
    <3> QED BY <1>7, <3>1, <3>2
  <2> QED BY <2>1, <2>2, LinesOf
<1>15. \A k \in 1..Len(agenda') : \E j \in 1..Len(agenda) : agenda'[k] = agenda[j]
  <2>1. \A i \in 1..Len(Tail(agenda)) :
          Tail(agenda)[i] = agenda[i + 1] /\ i + 1 \in 1..Len(agenda)
    BY <1>1, Rest
  <2> QED BY <1>10, <2>1
<1> HIDE DEF more
<1>13. answer' = Pending
  BY <1>10 DEF Waiting
<1> QED BY <1>1, <1>2, <1>3, <1>9, <1>10, <1>11, <1>12, <1>13, <1>14, <1>15, <1>16 DEF GoesOn

LEMMA ReturnComesBack ==
    ASSUME IInv, Typed, Attached, Waiting, agenda = <<>>, NEW n \in 1..Len(back), Ends(back[n]),
           Return(SubSeq(back, 1, n)), ~QuestionIn(SubSeq(back, 1, n)),
           ~FailureIn(SubSeq(back, 1, n))
    PROVE  ComesBack(n)
<1>1. Proper(awaiting, stage) /\ stage \in Stage /\ stage \notin Resting
  BY AwaitedLine
<1>2. back[n] \in Chunk /\ n >= 1
  BY DEF Typed
<1>3. stage # "script" => back[n] = Prompt
  <2> SUFFICES ASSUME stage # "script" PROVE back[n] = Prompt
    OBVIOUS
  <2>1. awaiting.do \notin ExecCommands /\ awaiting.do # "enable"
    BY <1>1, StageOfLine, ProperLine
  <2>2. back[n].says = "prompt"
    BY <2>1 DEF Ends, Replies, ExecCommands
  <2> QED BY <1>2, <2>2, ChunkSays
<1>4. UNCHANGED <<wire, driver, agenda, awaiting, torn>>
      /\ answer' = Returned(Clean(SubSeq(back, 1, n)))
  BY DEF Return
<1> QED BY <1>1, <1>2, <1>3, <1>4 DEF ComesBack

LEMMA ReadsOf ==
    ASSUME IInv, Typed, Attached, Reads
    PROVE  /\ Waiting /\ ~Idle /\ ~Broken /\ answer = Pending /\ driver # "none"
           /\ UNCHANGED shell
           /\ \E n : ReadOf(n)
<1>1. Waiting /\ UNCHANGED shell
  BY DEF Reads, Receive, TimesOut, StreamEnds
<1>2. ~Idle /\ ~Broken /\ answer = Pending /\ driver # "none"
  BY <1>1 DEF Waiting, Idle, Broken, Pending, IInv, SessionFits
<1>3. Len(back) \in Nat /\ back \in Seq(Chunk)
  BY DEF Typed
<1>4. CASE TimesOut
  <2>1. PICK n \in 0..Len(back) : back' = SubSeq(back, n + 1, Len(back))
    BY <1>4 DEF TimesOut
  <2>2. GivesUp
    BY <1>4 DEF TimesOut, Raises, GivesUp
  <2> QED BY <1>1, <1>2, <2>1, <2>2 DEF ReadOf
<1>5. CASE StreamEnds
  <2>1. GivesUp
    BY <1>5 DEF StreamEnds, Raises, GivesUp
  <2>2. back' = <<>>
    BY <1>5 DEF StreamEnds
  <2>3. Len(back) \in 0..Len(back)
    BY <1>3
  <2>4. back' = SubSeq(back, Len(back) + 1, Len(back))
    <3> DEFINE t == SubSeq(back, Len(back) + 1, Len(back))
    <3>1. t = <<>>
      BY <1>3, <2>3, Suffix
    <3> QED BY <2>2, <3>1
  <2>5. ReadOf(Len(back))
    BY <2>1, <2>3, <2>4 DEF ReadOf
  <2> QED BY <1>1, <1>2, <2>5
<1>6. CASE Receive
  <2>1. PICK n \in 1..Len(back) :
          /\ Ends(back[n]) /\ back' = SubSeq(back, n + 1, Len(back))
          /\ Deals(SubSeq(back, 1, n), back[n])
    BY <1>6 DEF Receive
  <2>2. n \in 0..Len(back)
    BY <1>3
  <2> DEFINE read == SubSeq(back, 1, n)
  <2>3. CASE FailureIn(read) /\ Raises(Raised)
    <3>1. GivesUp
      BY <2>3 DEF Raises, GivesUp
    <3> QED BY <1>1, <1>2, <2>1, <2>2, <3>1 DEF ReadOf
  <2>4. CASE QuestionIn(read) /\ Reply
    <3>1. \E more : GoesOn(more)
      BY <1>1, <2>4, ReplyGoesOn DEF QuestionIn
    <3> QED BY <1>1, <1>2, <2>1, <2>2, <3>1 DEF ReadOf
  <2>5. CASE agenda # <<>> /\ SetupGoesOn(back[n].says = "password")
    <3>1. PICK asked \in BOOLEAN : SetupGoesOn(asked)
      BY <2>5
    <3>2. \E more : GoesOn(more)
      BY <1>1, <2>5, <3>1, SetupIsOn
    <3> QED BY <1>1, <1>2, <2>1, <2>2, <3>2 DEF ReadOf
  <2>6. CASE ~FailureIn(read) /\ ~QuestionIn(read) /\ agenda = <<>> /\ Return(read)
    <3>1. ComesBack(n)
      BY <1>1, <2>1, <2>6, ReturnComesBack
    <3> QED BY <1>1, <1>2, <2>1, <2>2, <3>1 DEF ReadOf
  <2> HIDE DEF read
  <2> QED BY <2>1, <2>3, <2>4, <2>5, <2>6 DEF Deals, read
<1> QED BY <1>4, <1>5, <1>6 DEF Reads

-----------------------------------------------------------------------------
(***************************************************************************)
(* The late invariant survives a read.                                     *)
(***************************************************************************)
\* Shorthand for what every read keeps.
ReadKeeps ==
    /\ Waiting /\ ~Idle /\ ~Broken /\ answer = Pending /\ driver # "none"
    /\ UNCHANGED shell /\ UNCHANGED writerVars

\* What a read does to the two ends of the channel.
LEMMA ReadEnds ==
    ASSUME Typed, NEW n, ReadOf(n)
    PROVE  /\ back' \in Seq(Chunk) /\ Len(back') \in Nat /\ Len(back) \in Nat /\ n \in Nat
           /\ Len(back') = Len(back) - n
           /\ \A i \in 1..Len(back') : back'[i] = back[i + n] /\ i + n \in 1..Len(back)
           /\ back' = <<>> <=> n = Len(back)
           /\ wire' \in Seq(Line) /\ Len(wire') \in Nat /\ Len(wire) \in Nat
           /\ Len(wire) <= Len(wire')
           /\ \A k \in 1..Len(wire) : wire'[k] = wire[k] /\ k \in 1..Len(wire')
           /\ \A k \in 1..Len(wire') : k \notin 1..Len(wire) =>
                wire'[k].do \in Harmless /\ stage \notin Deep
           /\ stage \in Deep => wire' = wire /\ awaiting' = awaiting /\ answer' # Pending
           /\ answer'.is = "returned" => ComesBack(n)
<1>0. /\ stage \in Deep => GivesUp \/ ComesBack(n)
      /\ answer'.is = "returned" => ComesBack(n)
      /\ GivesUp \/ ComesBack(n) =>
           wire' = wire /\ awaiting' = awaiting /\ answer' # Pending
  <2>1. /\ Raised.is = "raised" /\ Ended.is = "ended" /\ Pending.is = "pending"
        /\ \A t : Returned(t).is = "returned"
    BY DEF Raised, Ended, Pending, Returned
  <2> QED BY <2>1 DEF ReadOf, GivesUp, ComesBack, GoesOn
<1>1. /\ back' \in Seq(Chunk) /\ Len(back') \in Nat /\ Len(back) \in Nat /\ n \in Nat
      /\ Len(back') = Len(back) - n
      /\ \A i \in 1..Len(back') : back'[i] = back[i + n] /\ i + n \in 1..Len(back)
      /\ back' = <<>> <=> n = Len(back)
  <2>1. back \in Seq(Chunk) /\ n \in 0..Len(back) /\ back' = SubSeq(back, n + 1, Len(back))
    BY DEF Typed, ReadOf
  <2> QED BY <2>1, Suffix
<1>2. wire \in Seq(Line) /\ Len(wire) \in Nat
  BY DEF Typed
<1>3. CASE \E more : GoesOn(more)
  <2>1. PICK more : GoesOn(more)
    BY <1>3
  <2>2. more \in Seq(Line) /\ wire' = wire \o more /\ stage \notin Deep
        /\ \A k \in 1..Len(more) : more[k].do \in Harmless
    BY <2>1 DEF GoesOn
  <2>3. /\ wire' \in Seq(Line) /\ Len(more) \in Nat /\ Len(wire') = Len(wire) + Len(more)
        /\ \A i \in 1..Len(wire) : wire'[i] = wire[i]
        /\ \A i \in 1..Len(more) : wire'[Len(wire) + i] = more[i]
    BY <1>2, <2>2, Joined
  <2>4. \A k \in 1..Len(wire') : k \notin 1..Len(wire) => wire'[k].do \in Harmless
    <3> SUFFICES ASSUME NEW k \in 1..Len(wire'), k \notin 1..Len(wire)
                 PROVE  wire'[k].do \in Harmless
      OBVIOUS
    <3>1. k - Len(wire) \in 1..Len(more) /\ Len(wire) + (k - Len(wire)) = k
      BY <1>2, <2>3
    <3> QED BY <2>2, <2>3, <3>1
  <2> QED BY <1>0, <1>1, <1>2, <2>2, <2>3, <2>4
<1>4. CASE wire' = wire
  BY <1>0, <1>1, <1>2, <1>4
<1> QED BY <1>3, <1>4 DEF ReadOf, GivesUp, ComesBack

LEMMA TypedReads ==
    ASSUME Typed, ReadKeeps, NEW n, ReadOf(n)
    PROVE  Typed'
<1>1. back' \in Seq(Chunk) /\ wire' \in Seq(Line)
  BY ReadEnds
<1>2. UNCHANGED shell /\ UNCHANGED <<call, stage, todo, got, victim>> /\ answer.texts = <<>>
  BY DEF ReadKeeps, writerVars, Pending
<1>3. /\ agenda' \in Seq(Line) /\ awaiting' \in Line \cup {NoLine, Banner}
      /\ answer'.texts \in Seq(Text)
  <2>0. <<>> \in Seq(Line) /\ <<>> \in Seq(Text)
    OBVIOUS
  <2>1. CASE GivesUp
    <3>1. Raised.texts = <<>> /\ Ended.texts = <<>>
      BY DEF Raised, Ended
    <3>2. answer'.texts = <<>> /\ agenda' = <<>> /\ awaiting' = awaiting
      BY <2>1, <3>1 DEF GivesUp
    <3> QED BY <2>0, <3>2 DEF Typed
  <2>2. CASE \E more : GoesOn(more)
    BY <2>0, <2>2 DEF GoesOn, Pending
  <2>3. CASE ComesBack(n)
    <3> DEFINE read == SubSeq(back, 1, n)
               s == Saying(read, Printable)
    <3>1. back \in Seq(Chunk) /\ n \in 0..Len(back)
      BY DEF Typed, ReadOf
    <3>2. read \in Seq(Chunk)
      BY <3>1, Prefix
    <3>3. s \in Seq(Chunk) /\ \E h : Places(read, Printable, Len(read), s, h)
      BY <3>2, SayingOf
    <3>4. answer'.texts = s
      BY <2>3 DEF ComesBack, Returned, Clean
    <3> HIDE DEF read, s
    <3>5. \A i \in 1..Len(s) : s[i] \in Chunk /\ s[i].says \in Printable
      BY <3>3 DEF Places
    <3>6. \A i \in 1..Len(s) : s[i] \in Text
      BY <3>5, ChunkSays
    <3>7. s \in Seq(Text)
      <4>1. s = [i \in 1..Len(s) |-> s[i]] /\ Len(s) \in Nat
        BY <3>3
      <4>2. [i \in 1..Len(s) |-> s[i]] \in Seq(Text)
        BY <3>6, <4>1
      <4> QED BY <4>1, <4>2
    <3> QED BY <2>3, <3>4, <3>7 DEF ComesBack, Typed
  <2> QED BY <2>1, <2>2, <2>3 DEF ReadOf
<1>4. answer' \in {Pending, Raised, Ended} \/ answer'.is = "returned"
  <2>1. \A t : Returned(t).is = "returned"
    BY DEF Returned
  <2> QED BY <2>1 DEF ReadOf, GivesUp, GoesOn, ComesBack
<1> QED BY <1>1, <1>2, <1>3, <1>4 DEF Typed, Uniform

LEMMA PromptsReads ==
    ASSUME Typed, Prompts, ReadKeeps, NEW n, ReadOf(n)
    PROVE  /\ Prompts'
           /\ n >= 1 /\ back[n] = Prompt => Clear'
<1>0. UNCHANGED shell
  BY DEF ReadKeeps
<1>1. /\ Len(back') \in Nat /\ Len(back) \in Nat /\ n \in Nat /\ Len(back') = Len(back) - n
      /\ \A i \in 1..Len(back') : back'[i] = back[i + n] /\ i + n \in 1..Len(back)
      /\ back' = <<>> <=> n = Len(back)
  BY ReadEnds
<1>2. \A i \in 1..Len(back') - 1 : back'[i] = Prompt => back'[i + 1] # Prompt
  <2> SUFFICES ASSUME NEW i \in 1..Len(back') - 1, back'[i] = Prompt PROVE back'[i + 1] # Prompt
    OBVIOUS
  <2>1. /\ i \in 1..Len(back') /\ i + 1 \in 1..Len(back') /\ i + n \in 1..Len(back) - 1
        /\ (i + 1) + n = (i + n) + 1
    BY <1>1
  <2>2. back[i + n] = Prompt /\ back'[i + 1] = back[(i + n) + 1]
    BY <1>1, <2>1
  <2> QED BY <2>1, <2>2 DEF Prompts
<1>3. back' # <<>> /\ back'[Len(back')] = Prompt => shell'.asking = "nothing"
  <2> SUFFICES ASSUME back' # <<>>, back'[Len(back')] = Prompt PROVE shell.asking = "nothing"
    BY <1>0
  <2>1. Len(back') \in 1..Len(back') /\ Len(back') + n = Len(back) /\ back # <<>>
    <3>1. n # Len(back) /\ n <= Len(back)
      BY <1>1 DEF ReadOf
    <3>2. Len(back') >= 1 /\ Len(back) >= 1
      BY <1>1, <3>1
    <3> QED BY <1>1, <3>2
  <2>2. back[Len(back)] = Prompt
    BY <1>1, <2>1
  <2> QED BY <2>1, <2>2 DEF Prompts
<1>4. ASSUME n >= 1, back[n] = Prompt PROVE Clear'
  <2>1. CASE back' = <<>>
    <3>1. n = Len(back) /\ back # <<>>
      BY <1>1, <1>4, <2>1
    <3>2. shell.asking = "nothing"
      BY <1>4, <3>1 DEF Prompts
    <3> QED BY <1>0, <2>1, <3>2 DEF Clear
  <2>2. CASE back' # <<>>
    <3>1. n \in 1..Len(back) - 1 /\ 1 \in 1..Len(back')
      <4>1. n # Len(back) /\ n <= Len(back)
        BY <1>1, <2>2 DEF ReadOf
      <4> QED BY <1>1, <1>4, <4>1
    <3>2. back'[1] = back[1 + n] /\ 1 + n = n + 1
      BY <1>1, <3>1
    <3>3. back'[1] # Prompt
      BY <1>4, <3>1, <3>2 DEF Prompts
    <3> QED BY <2>2, <3>3 DEF Clear
  <2> QED BY <2>1, <2>2
<1> QED BY <1>2, <1>3, <1>4 DEF Prompts

\* What has been read is in the order in which it was printed.
Picked(s, n, h) ==
    /\ s \in Seq(Text) /\ Len(s) \in Nat
    /\ h \in [1..Len(s) -> 1..n]
    /\ \A i \in 1..Len(s) : s[i] = back[h[i]]
    /\ \A i, k \in 1..Len(s) : i < k => h[i] < h[k]
    /\ \A j \in 1..n : back[j] # Prompt => \E i \in 1..Len(s) : h[i] = j

LEMMA ReturnedTexts ==
    ASSUME Typed, NEW n, ReadOf(n), ComesBack(n), Typed'
    PROVE  \E h : Picked(answer'.texts, n, h)
<1> DEFINE read == SubSeq(back, 1, n)
           s == Saying(read, Printable)
<1>1. back \in Seq(Chunk) /\ n \in 0..Len(back)
  BY DEF Typed, ReadOf
<1>2. read \in Seq(Chunk) /\ Len(read) = n /\ n \in Nat /\ \A j \in 1..n : read[j] = back[j]
  BY <1>1, Prefix
<1>3. PICK h : Places(read, Printable, Len(read), s, h)
  BY <1>2, SayingOf
<1>4. answer'.texts = s
  BY DEF ComesBack, Returned, Clean
<1>5. s \in Seq(Text) /\ Len(s) \in Nat
  BY <1>4 DEF Typed
<1>6. \A j \in 1..n : back[j] # Prompt => read[j].says \in Printable
  <2> SUFFICES ASSUME NEW j \in 1..n, back[j] # Prompt PROVE read[j].says \in Printable
    OBVIOUS
  <2>1. back[j] \in Chunk /\ read[j] = back[j]
    BY <1>1, <1>2
  <2> QED BY <2>1, ChunkSays DEF Chunk
<1> HIDE DEF read, s
<1>7. /\ h \in [1..Len(s) -> 1..n]
      /\ \A i \in 1..Len(s) : s[i] = read[h[i]]
      /\ \A i, k \in 1..Len(s) : i < k => h[i] < h[k]
      /\ \A j \in 1..n : read[j].says \in Printable => \E i \in 1..Len(s) : h[i] = j
  BY <1>2, <1>3 DEF Places
<1>8. \A i \in 1..Len(s) : s[i] = back[h[i]]
  BY <1>2, <1>7
<1>9. \A j \in 1..n : back[j] # Prompt => \E i \in 1..Len(s) : h[i] = j
  BY <1>6, <1>7
<1>10. Picked(s, n, h)
  BY <1>5, <1>7, <1>8, <1>9 DEF Picked
<1> QED BY <1>4, <1>10

\* An answer in a mode has something in it.
LEMMA TextsThere ==
    ASSUME IInv, Typed, Attached, ReadKeeps, NEW n, ReadOf(n), Typed',
           stage \in {"enter", "body"}, answer'.is = "returned"
    PROVE  answer'.texts # <<>>
<1>1. ComesBack(n)
  BY ReadEnds
<1>2. PICK h : Picked(answer'.texts, n, h)
  BY <1>1, ReturnedTexts
<1>3. Clear
  BY DEF Attached, ReadKeeps
<1>4. n >= 1 /\ n \in 0..Len(back) /\ Len(back) \in Nat
  BY <1>1 DEF ReadOf, ComesBack, Typed
<1>5. back # <<>> /\ 1 \in 1..n
  BY <1>4
<1>6. back[1] # Prompt
  BY <1>3, <1>5 DEF Clear
<1>7. PICK i \in 1..Len(answer'.texts) : h[i] = 1
  BY <1>2, <1>5, <1>6 DEF Picked
<1>8. Len(<<>>) = 0
  OBVIOUS
<1> QED BY <1>7, <1>8

\* What is taken for success was said by a line of the same kind.
LEMMA AcceptedChunk ==
    ASSUME IInv, Typed, Attached, ReadKeeps, NEW n, ReadOf(n), Typed',
           stage \in {"enter", "body"}, Accepted'
    PROVE  /\ ComesBack(n) /\ awaiting' = awaiting /\ back[n] = Prompt
           /\ stage \in {"enter"} => awaiting.do \in EnterDos
           /\ \E j \in 1..n :
                /\ back[j].says = "nothing" /\ back[j].of.do = awaiting.do /\ j # n
                /\ back[j] \in Text
                /\ awaiting.do = "interface" => back[j].of = awaiting
<1>1. ComesBack(n) /\ awaiting' = awaiting
  BY ReadEnds DEF Accepted, Deep
<1>2. answer'.texts # <<>>
  BY TextsThere DEF Accepted
<1>3. /\ Len(answer'.texts) = 1 /\ answer'.texts[1].says = "nothing"
      /\ awaiting.do = "interface" => answer'.texts[1].of = awaiting
      /\ [answer'.texts[1].of EXCEPT !.port = NoPort] = [awaiting EXCEPT !.port = NoPort]
  BY <1>1, <1>2 DEF Accepted, IsEmpty
<1>4. PICK h : Picked(answer'.texts, n, h)
  BY <1>1, ReturnedTexts
<1>5. h[1] \in 1..n /\ answer'.texts[1] = back[h[1]] /\ answer'.texts[1] \in Text
  BY <1>3, <1>4 DEF Picked
<1>6. answer'.texts[1].of.do = awaiting.do
  <2>1. awaiting \in Command /\ answer'.texts[1].of \in Command
    <3>1. NoLine.do = "none" /\ Banner.do = "banner"
      BY DoIs DEF NoLine, Banner
    <3>2. awaiting # Banner /\ awaiting # NoLine
      BY <1>1, ProperLine DEF ComesBack, IInv, StageFits
    <3> QED BY <1>5, <3>2, ChunkSays DEF Typed, Line
  <2>2. \A c \in Command : [c EXCEPT !.port = NoPort].do = c.do
    BY DEF Command
  <2>3. [answer'.texts[1].of EXCEPT !.port = NoPort].do = [awaiting EXCEPT !.port = NoPort].do
    BY <1>3
  <2> QED BY <2>1, <2>2, <2>3
<1>7. back[n] = Prompt /\ (stage \in {"enter"} => awaiting.do \in EnterDos)
  BY <1>1, DosOf DEF ComesBack, Proper
<1>8. h[1] # n
  BY <1>3, <1>5, <1>7, PromptSays
<1> QED BY <1>1, <1>3, <1>5, <1>6, <1>7, <1>8

LEMMA AttachedReads ==
    ASSUME IInv, Typed, Prompts, Attached, ReadKeeps, NEW n, ReadOf(n), Typed'
    PROVE  Attached'
<1>1. UNCHANGED <<stage, todo>> /\ stage \in Stage
  BY DEF ReadKeeps, writerVars, IInv, StageFits
<1>2. awaiting' # NoLine
  BY DEF ReadOf, GivesUp, GoesOn, ComesBack, ReadKeeps, Idle
<1>3. /\ Raised.is = "raised" /\ Ended.is = "ended" /\ Pending.is = "pending"
      /\ \A t : Returned(t).is = "returned"
  BY DEF Raised, Ended, Pending, Returned
<1>4. torn' /\ ~Idle' /\ ~Broken' => Proper(awaiting', stage')
  <2>1. CASE GivesUp
    BY <1>3, <2>1 DEF GivesUp, Broken
  <2>2. CASE \E more : GoesOn(more)
    BY <1>1, <2>2 DEF GoesOn, Attached, ReadKeeps
  <2>3. CASE ComesBack(n)
    BY <1>1, <2>3 DEF ComesBack
  <2> QED BY <2>1, <2>2, <2>3 DEF ReadOf
<1>5. driver' # "none" /\ (stage \in Deep => agenda' = <<>>)
  BY DEF ReadOf, GivesUp, GoesOn, ComesBack, ReadKeeps
<1>6. ASSUME answer'.is = "returned" \/ stage \in {"enter", "body"}, ~Broken',
             stage \in {"before", "pvids", "enter", "body"}
      PROVE  Clear' /\ agenda' = <<>>
  <2>1. ~GivesUp
    BY <1>3, <1>6 DEF GivesUp, Broken
  <2>2. ComesBack(n)
    BY <1>3, <1>6, <2>1 DEF ReadOf, GoesOn, Deep
  <2>3. n >= 1 /\ back[n] = Prompt /\ agenda' = <<>>
    BY <1>6, <2>2 DEF ComesBack
  <2> QED BY <2>3, PromptsReads
<1>7. stage \in {"enter", "body"} /\ answer'.is = "returned" => answer'.texts # <<>>
  BY TextsThere
<1> QED BY <1>1, <1>2, <1>4, <1>5, <1>6, <1>7 DEF Attached, Deep, Idle

LEMMA DescentReads ==
    ASSUME Typed, Descent, ReadKeeps, NEW n, ReadOf(n)
    PROVE  Descent'
<1>1. UNCHANGED <<stage, todo, entered, call, victim>> /\ ~Idle
  BY DEF ReadKeeps, writerVars
<1>2. stage \in Deep => awaiting' = awaiting /\ Idle' = Idle
  BY ReadEnds DEF Idle
<1>3. CASE stage \in Deep
  BY <1>1, <1>2, <1>3 DEF Descent
<1>4. CASE stage \notin Deep
  BY <1>1, <1>4 DEF Descent, Deep
<1> QED BY <1>3, <1>4

LEMMA CreditReads ==
    ASSUME IInv, Typed, Attached, Credit, ReadKeeps, NEW n, ReadOf(n), Typed'
    PROVE  Credit'
<1>1. UNCHANGED <<stage, todo, entered, shell>> /\ entered \in Nat
  BY DEF ReadKeeps, writerVars, IInv, StageFits
<1>2. Owed' = Owed /\ Owed \in Nat /\ Len(shell.modes) \in Nat
  BY <1>1, CreditFacts DEF Owed
<1>3. Won = 0 /\ Won' \in {0, 1}
  BY DEF Won, Accepted, ReadKeeps, Pending
<1>4. Outs' = Outs
  <2>1. \A k \in 1..Len(wire') : wire'[k].do = "exit" => k \in 1..Len(wire)
    BY ReadEnds DEF Harmless, Shows, ExecCommands, SetupCommands
  <2> QED BY <2>1, ReadEnds DEF Outs
<1> DEFINE A == Oks
           B == Oks'
<1>5. Len(back) \in Nat /\ Len(back') \in Nat /\ n \in Nat
      /\ \A i \in 1..Len(back') : back'[i] = back[i + n] /\ i + n \in 1..Len(back)
  BY ReadEnds
<1>6. A = {i \in 1..Len(back) : Okay(back[i])} /\ B = {i \in 1..Len(back') : Okay(back'[i])}
  BY DEF Oks
<1> HIDE DEF A, B
<1>7. A \subseteq 1..Len(back) /\ B \subseteq Nat /\ A \subseteq Nat
  BY <1>5, <1>6
<1>8. IsFiniteSet(A)
  BY <1>5, <1>7, CountType
<1>9. \A b \in B : b + n \in A
  BY <1>5, <1>6
<1>10. /\ Cardinality(B) \in Nat /\ Cardinality(A) \in Nat /\ Cardinality(B) <= Cardinality(A)
       /\ (\E a \in A : \A b \in B : b + n # a) => Cardinality(B) + 1 <= Cardinality(A)
  BY <1>5, <1>7, <1>8, <1>9, CountShift
<1>11. Won' = 1 => Cardinality(B) + 1 <= Cardinality(A)
  <2> SUFFICES ASSUME Won' = 1 PROVE \E a \in A : \A b \in B : b + n # a
    BY <1>10
  <2>1. stage = "enter" /\ Accepted'
    BY <1>1 DEF Won
  <2>2. PICK j \in 1..n : back[j].says = "nothing" /\ back[j].of.do \in EnterDos
    BY <2>1, AcceptedChunk
  <2>3. j \in 1..Len(back) /\ Okay(back[j])
    BY <1>5, <2>2 DEF ReadOf, Okay, Said
  <2>4. j \in A
    BY <1>6, <2>3
  <2>5. \A b \in B : b + n # j
    <3> SUFFICES ASSUME NEW b \in B PROVE b + n # j
      OBVIOUS
    <3>1. b \in 1..Len(back')
      BY <1>6
    <3> QED BY <1>5, <2>2, <3>1
  <2> QED BY <2>4, <2>5
<1>12. Cardinality(A) + Won + Cardinality(Outs) + Owed <= Len(shell.modes)
       /\ Cardinality(Outs) \in Nat
  BY <1>1, CreditFacts DEF A
<1> DEFINE o == Cardinality(Outs)
           m == Len(shell.modes)
           ca == Cardinality(A)
           cb == Cardinality(B)
<1> HIDE DEF o, m, ca, cb
<1>13. cb + Won' + o + Owed <= m
  <2>1. ca + 0 + o + Owed <= m /\ o \in Nat /\ m \in Nat /\ Owed \in Nat /\ ca \in Nat /\ cb \in Nat
    BY <1>2, <1>3, <1>10, <1>12 DEF o, m, ca, cb
  <2>2. cb + Won' <= ca
    <3>1. Won' = 0 \/ Won' = 1
      BY <1>3
    <3>2. cb <= ca /\ (Won' = 1 => cb + 1 <= ca)
      BY <1>10, <1>11 DEF ca, cb
    <3> QED BY <2>1, <3>1, <3>2
  <2> DEFINE w == Won'
             d == Owed
  <2>3. w \in {0, 1} /\ d \in Nat /\ cb + w <= ca
    BY <1>3, <2>1, <2>2
  <2>5. ca + 0 + o + d <= m
    BY <2>1
  <2> HIDE DEF w, d
  <2>4. cb + w + o + d <= m
    BY <2>1, <2>3, <2>5
  <2> QED BY <2>4 DEF w, d
<1>14. Cardinality(B) + Won' + Cardinality(Outs) + Owed <= Len(shell.modes)
  BY <1>13 DEF o, m, cb
<1> QED BY <1>1, <1>2, <1>4, <1>14 DEF Credit, B

LEMMA OwnedReads ==
    ASSUME Typed, Owned, ReadKeeps, NEW n, ReadOf(n)
    PROVE  Owned'
<1>1. UNCHANGED <<stage, todo, entered, call, victim>> /\ ~Idle
  BY DEF ReadKeeps, writerVars
<1>2. /\ Len(wire') \in Nat /\ Len(wire) \in Nat /\ Len(wire) <= Len(wire')
      /\ \A k \in 1..Len(wire) : wire'[k] = wire[k] /\ k \in 1..Len(wire')
      /\ \A k \in 1..Len(wire') : k \notin 1..Len(wire) => wire'[k].do \in Harmless
      /\ stage \in Deep => wire' = wire /\ awaiting' = awaiting
  BY ReadEnds
<1> SUFFICES ASSUME NEW k \in 1..Len(wire'), wire'[k].do \in TiedDos
             PROVE  ExitBehind(k)' \/ Mine(k)'
  BY DEF Owned
<1>3. wire'[k].do \notin Harmless
  BY DEF Harmless, Shows, ExecCommands, SetupCommands, TiedDos, InnerDos, DatabaseCommands
<1>4. k \in 1..Len(wire) /\ wire'[k] = wire[k]
  BY <1>2, <1>3
<1>5. ExitBehind(k) \/ Mine(k)
  BY <1>1, <1>4 DEF Owned
<1>6. CASE ExitBehind(k)
  <2>1. PICK j \in (k + 1)..Len(wire) : wire[j].do = "exit"
    BY <1>6 DEF ExitBehind
  <2>2. j \in 1..Len(wire) /\ j \in (k + 1)..Len(wire') /\ wire'[j].do = "exit"
    BY <1>2, <1>4, <2>1
  <2> QED BY <2>2 DEF ExitBehind
<1>7. CASE Mine(k)
  <2>1. stage \in Deep
    BY <1>7 DEF Mine, Deep
  <2> QED BY <1>1, <1>2, <1>7, <2>1 DEF Mine
<1> QED BY <1>5, <1>6, <1>7

LEMMA ApartReads ==
    ASSUME IInv, Typed, Attached, Apart, ReadKeeps, NEW n, ReadOf(n), Typed'
    PROVE  Apart'
<1>1. UNCHANGED stage
  BY DEF ReadKeeps, writerVars
<1>2. Len(back) \in Nat /\ Len(back') \in Nat /\ n \in Nat
      /\ \A i \in 1..Len(back') : back'[i] = back[i + n] /\ i + n \in 1..Len(back)
  BY ReadEnds
<1>3. ASSUME NEW i \in 1..Len(back'), NEW j \in 1..Len(back'), i < j,
             Said(back'[i], {"configure"})
      PROVE  ~Said(back'[j], InnerDos)
  <2>1. i + n \in 1..Len(back) /\ j + n \in 1..Len(back) /\ i + n < j + n
        /\ back'[i] = back[i + n] /\ back'[j] = back[j + n]
    BY <1>2, <1>3
  <2> QED BY <1>3, <2>1 DEF Apart
<1>4. ASSUME Won' = 1, awaiting'.do = "configure", NEW j \in 1..Len(back')
      PROVE  ~Said(back'[j], InnerDos)
  <2>1. stage = "enter" /\ Accepted'
    BY <1>1, <1>4 DEF Won
  <2>2. PICK i \in 1..n : back[i].says = "nothing" /\ back[i].of.do = awaiting.do
    BY <2>1, AcceptedChunk
  <2>3. awaiting' = awaiting
    BY <2>1, AcceptedChunk
  <2>4. Said(back[i], {"configure"})
    BY <1>4, <2>2, <2>3 DEF Said
  <2>5. i \in 1..Len(back) /\ j + n \in 1..Len(back) /\ i < j + n /\ back'[j] = back[j + n]
    BY <1>2, <2>2 DEF ReadOf
  <2> QED BY <2>4, <2>5 DEF Apart
<1> QED BY <1>3, <1>4 DEF Apart

LEMMA OwnOkReads ==
    ASSUME Typed, OwnOk, ReadKeeps, NEW n, ReadOf(n)
    PROVE  OwnOk'
<1>1. UNCHANGED <<stage, entered, call, shell>>
  BY DEF ReadKeeps, writerVars
<1>2. /\ Len(back) \in Nat /\ Len(back') \in Nat /\ n \in Nat /\ Len(back') = Len(back) - n
      /\ \A i \in 1..Len(back') : back'[i] = back[i + n] /\ i + n \in 1..Len(back)
  BY ReadEnds
<1> SUFFICES ASSUME stage \in {"enter", "body"}, entered = 1,
                    call.kind \in PortKinds \cup HostKinds,
                    NEW i \in 1..Len(back'), Said(back'[i], InnerDos)
             PROVE  /\ wire' = <<>> /\ i = Len(back') - 1 /\ back'[Len(back')] = Prompt
                    /\ shell'.asking = "nothing"
                    /\ awaiting' = back'[i].of
                    /\ awaiting'.do = "interface" => There'
  BY <1>1 DEF OwnOk
<1>3. wire' = wire /\ awaiting' = awaiting
  BY ReadEnds DEF Deep
<1>4. i + n \in 1..Len(back) /\ back'[i] = back[i + n]
  BY <1>2
<1>5. /\ wire = <<>> /\ i + n = Len(back) - 1 /\ back[Len(back)] = Prompt
      /\ shell.asking = "nothing"
      /\ awaiting = back[i + n].of
      /\ awaiting.do = "interface" => There
  BY <1>4 DEF OwnOk
<1>6. Len(back') \in 1..Len(back') /\ Len(back') + n = Len(back)
  BY <1>2
<1>7. i = Len(back') - 1
  BY <1>2, <1>5
<1>8. back'[Len(back')] = Prompt
  <2>1. back'[Len(back')] = back[Len(back') + n]
    BY <1>2, <1>6
  <2> QED BY <1>5, <1>6, <2>1
<1> QED BY <1>1, <1>3, <1>4, <1>5, <1>7, <1>8 DEF There

LEMMA LandedReads ==
    ASSUME IInv, Typed, Attached, OwnOk, ReadKeeps, NEW n, ReadOf(n), Typed'
    PROVE  Landed'
<1>1. UNCHANGED <<stage, entered, call, shell>>
  BY DEF ReadKeeps, writerVars
<1> SUFFICES ASSUME stage \in {"enter", "body"}, entered = 1,
                    call.kind \in PortKinds \cup HostKinds, Accepted', awaiting'.do \in InnerDos
             PROVE  Caught' /\ (awaiting'.do = "interface" => There')
  BY <1>1 DEF Landed
<1>2. awaiting' = awaiting /\ wire' = wire /\ back[n] = Prompt
  BY AcceptedChunk, ReadEnds DEF Deep
<1>3. PICK j \in 1..n : back[j].says = "nothing" /\ back[j].of.do = awaiting.do /\ j # n
  BY AcceptedChunk
<1>4. j \in 1..Len(back) /\ Len(back) \in Nat /\ n \in 0..Len(back)
  BY <1>3 DEF ReadOf, Typed
<1>5. Said(back[j], InnerDos)
  BY <1>2, <1>3 DEF Said
<1>6. /\ wire = <<>> /\ j = Len(back) - 1 /\ shell.asking = "nothing"
      /\ awaiting.do = "interface" => There
  BY <1>4, <1>5 DEF OwnOk
<1>7. n = Len(back)
  BY <1>3, <1>4, <1>6
<1>8. back' = <<>>
  BY <1>7, ReadEnds
<1> QED BY <1>1, <1>2, <1>6, <1>8 DEF Caught, There

LEMMA InHandReads ==
    ASSUME Typed, InHand, ReadKeeps, NEW n, ReadOf(n)
    PROVE  InHand'
<1>1. UNCHANGED <<stage, entered, call, shell>>
  BY DEF ReadKeeps, writerVars
<1>2. stage \in Deep => wire' = wire
  BY ReadEnds
<1> QED BY <1>1, <1>2 DEF InHand, Deep, There

LEMMA AimedReads ==
    ASSUME Typed, Aimed, ReadKeeps, NEW n, ReadOf(n)
    PROVE  Aimed'
<1>1. UNCHANGED shell
  BY DEF ReadKeeps
<1>2. /\ Len(wire') \in Nat /\ Len(wire) \in Nat
      /\ \A k \in 1..Len(wire) : wire'[k] = wire[k]
      /\ \A k \in 1..Len(wire') : k \notin 1..Len(wire) => wire'[k].do \in Harmless
  BY ReadEnds
<1> SUFFICES ASSUME NEW k \in 1..Len(wire'), wire'[k].do \in InterfaceCommands
             PROVE  /\ \A j \in 1..k - 1 : wire'[j].do # "exit"
                    /\ shell.modes = <<"config", "interface">> /\ shell.port = wire'[k].port
  BY <1>1 DEF Aimed
<1>3. wire'[k].do \notin Harmless
  BY DEF Harmless, Shows, ExecCommands, SetupCommands, InterfaceCommands, VlanCommands,
         PortSettings
<1>4. k \in 1..Len(wire) /\ wire'[k] = wire[k]
  BY <1>2, <1>3
<1>5. \A j \in 1..k - 1 : wire'[j] = wire[j]
  BY <1>2, <1>4
<1> QED BY <1>4, <1>5 DEF Aimed

LEMMA LateReads ==
    ASSUME IInv, LateInv, Reads, UNCHANGED writerVars
    PROVE  LateInv'
<1>0. Typed /\ Prompts /\ Attached /\ Descent /\ Credit /\ Owned /\ Apart /\ OwnOk /\ InHand /\ Aimed
  BY DEF LateInv
<1>1. ReadKeeps
  BY <1>0, ReadsOf DEF ReadKeeps
<1>2. PICK n : ReadOf(n)
  BY <1>0, ReadsOf
<1>3. Typed' /\ Prompts'
  BY <1>0, <1>1, <1>2, TypedReads, PromptsReads
<1>4. Attached' /\ Descent' /\ Credit'
  BY <1>0, <1>1, <1>2, <1>3, AttachedReads, DescentReads, CreditReads
<1>5. Owned' /\ Apart' /\ OwnOk'
  BY <1>0, <1>1, <1>2, <1>3, OwnedReads, ApartReads, OwnOkReads
<1>6. Landed' /\ InHand' /\ Aimed'
  BY <1>0, <1>1, <1>2, <1>3, LandedReads, InHandReads, AimedReads
<1> QED BY <1>3, <1>4, <1>5, <1>6 DEF LateInv

-----------------------------------------------------------------------------
(***************************************************************************)
(* The call sends its next command.                                        *)
(***************************************************************************)
\* What the commands in a mode are, by the kind of the call.
LEMMA BodyLine ==
    ASSUME NEW c \in Call, c.kind \notin {"reboot", "deploy"}, NEW row \in Nat,
           NEW m \in 1..Len(BodyCommands(c, row)), NEW x, x = BodyCommands(c, row)[m]
    PROVE  /\ x \in Line /\ x.do \in BodyDos
           /\ x.do \in InterfaceCommands <=> c.kind \in PortKinds
           /\ x.do \in InterfaceCommands => x.port = c.port
           /\ x.do \in DatabaseCommands <=> c.kind \in {"create", "delete"}
           /\ x.do \in HostDos <=> c.kind \in HostKinds
           /\ x.do \in HostDos => Len(BodyCommands(c, row)) = 1
           /\ c.kind \in {"create", "delete"} \cup HostKinds => Len(EnterCommands(c)) = 1
           /\ c.kind \in PortKinds => Len(EnterCommands(c)) = 2
<1> DEFINE b == BodyCommands(c, row)
<1>1. /\ b \in Seq(Line)
      /\ c.kind \in {"create", "delete"} => b[m].do \in DatabaseCommands
      /\ c.kind \in PortKinds => b[m].do \in InterfaceCommands /\ b[m].port = c.port
      /\ c.kind \in HostKinds => \E y \in Line : y.do \in HostDos /\ b = <<y>>
      /\ c.kind \in GlobalKinds => b[m].do \in Globals
  BY BodyIs DEF PortBody
<1>2. c.kind \in HostKinds => b[m].do \in HostDos /\ Len(b) = 1
  <2> SUFFICES ASSUME c.kind \in HostKinds PROVE b[m].do \in HostDos /\ Len(b) = 1
    OBVIOUS
  <2>1. PICK y \in Line : y.do \in HostDos /\ b = <<y>>
    BY <1>1
  <2>2. Len(<<y>>) = 1 /\ <<y>>[1] = y
    OBVIOUS
  <2>3. Len(b) = 1 /\ b[1] = y /\ m \in 1..Len(b)
    BY <2>1, <2>2
  <2>4. m = 1
    BY <2>3
  <2> QED BY <2>1, <2>3, <2>4
<1>3. /\ c.kind \in {"create", "delete"} => EnterCommands(c) = <<Do("vlanDatabase")>>
      /\ c.kind \in PortKinds =>
           EnterCommands(c) = <<Do("configure"), OnPort("interface", NoVlan, c.port)>>
      /\ c.kind \in HostKinds => EnterCommands(c) = <<Do("configure")>>
      /\ c.kind \in {"create", "delete"} \cup PortKinds \cup GlobalKinds \cup HostKinds
  BY EnterIs
<1>4. \A y, z : Len(<<y>>) = 1 /\ Len(<<y, z>>) = 2
  OBVIOUS
<1>5. x \in Line /\ x = b[m]
  BY <1>1
<1> HIDE DEF b
<1>6. CASE c.kind \in {"create", "delete"}
  <2>1. x.do \in DatabaseCommands /\ Len(EnterCommands(c)) = 1
    BY <1>1, <1>3, <1>4, <1>5, <1>6
  <2> QED BY <1>5, <1>6, <2>1
       DEF BodyDos, DatabaseCommands, InterfaceCommands, VlanCommands, PortSettings, HostDos,
           PortKinds, PowerKinds, HostKinds
<1>7. CASE c.kind \in PortKinds
  <2>1. x.do \in InterfaceCommands /\ x.port = c.port /\ Len(EnterCommands(c)) = 2
    BY <1>1, <1>3, <1>4, <1>5, <1>7
  <2> QED BY <1>5, <1>7, <2>1
       DEF BodyDos, DatabaseCommands, InterfaceCommands, VlanCommands, PortSettings, HostDos,
           PortKinds, PowerKinds, HostKinds
<1>8. CASE c.kind \in HostKinds
  <2>1. x.do \in HostDos /\ Len(b) = 1 /\ Len(EnterCommands(c)) = 1
    BY <1>2, <1>3, <1>4, <1>5, <1>8
  <2> QED BY <1>5, <1>8, <2>1
       DEF BodyDos, DatabaseCommands, InterfaceCommands, VlanCommands, PortSettings, HostDos,
           PortKinds, PowerKinds, HostKinds, GlobalCommands, b
<1>9. CASE c.kind \in GlobalKinds
  <2>1. x.do \in Globals
    BY <1>1, <1>5, <1>9
  <2> QED BY <1>5, <1>9, <2>1
       DEF BodyDos, DatabaseCommands, InterfaceCommands, VlanCommands, PortSettings, HostDos,
           PortKinds, PowerKinds, HostKinds, GlobalCommands, Globals, GlobalKinds
<1> QED BY <1>3, <1>6, <1>7, <1>8, <1>9

\* The kind of a call that is in a mode, or on its way there.
LEMMA DeepCall ==
    ASSUME Typed, StageFits, stage \notin Resting, stage # "script"
    PROVE  call \in Call /\ call.kind \notin {"reboot", "deploy"} /\ victim \in Nat
           /\ call \in Calls /\ ~GuardRaises(call) /\ call.port \in Port
BY CallTyped DEF Typed, StageFits

Connects(c) ==
    /\ driver = "none" /\ stage \notin Deep /\ back = <<>>
    /\ shell.modes = <<>> /\ shell.asking = "nothing"
    /\ torn' = FALSE /\ UNCHANGED wire /\ wire = <<>>
    /\ \/ /\ back' = <<Prompt>> /\ driver' = "made" /\ awaiting' = Banner
          /\ agenda' = <<Do("enable"), Do("paging"), c>> /\ answer' = Pending
       \/ /\ UNCHANGED <<back, driver, agenda>> /\ answer' = Raised /\ awaiting' = c

Sends(c) ==
    /\ driver # "none" /\ wire' = wire \o Lines(c) /\ awaiting' = c
    /\ UNCHANGED <<back, driver, agenda, answer, torn>>

IssueOf(c) ==
    /\ c = todo[1] /\ c \in Line /\ Proper(c, stage) /\ c # NoLine /\ c # Banner
    /\ stage \in Stage /\ stage \notin Resting
    /\ todo \in Seq(Line) /\ todo # <<>> /\ todo' \in Seq(Line)
    /\ Len(todo) \in Nat /\ Len(todo) >= 1 /\ Len(todo') \in Nat /\ Len(todo') = Len(todo) - 1
    /\ \A k \in 1..Len(todo') : todo'[k] = todo[k + 1] /\ k + 1 \in 1..Len(todo)
    /\ Idle /\ ~Broken /\ answer = Pending /\ agenda = <<>> /\ ~Idle'
    /\ UNCHANGED <<shell, call, stage, entered, failed, got, victim>>
    /\ Connects(c) \/ Sends(c)

LEMMA IssuesOf ==
    ASSUME IInv, Typed, Attached, Issue
    PROVE  IssueOf(todo[1])
<1> DEFINE c == todo[1]
<1>1. /\ todo \in Seq(Line) /\ todo # <<>> /\ c = Head(todo) /\ c \in Line
      /\ todo' \in Seq(Line) /\ Len(todo) \in Nat /\ Len(todo) >= 1 /\ Len(todo') \in Nat
      /\ Len(todo') = Len(todo) - 1
      /\ \A k \in 1..Len(todo') : todo'[k] = todo[k + 1] /\ k + 1 \in 1..Len(todo)
  <2>1. todo \in Seq(Line) /\ todo # <<>> /\ todo' = Tail(todo)
    BY DEF Typed, Issue
  <2> QED BY <2>1, Rest
<1> HIDE DEF c
<1>2. Proper(c, stage) /\ c # NoLine /\ c # Banner /\ stage \in Stage /\ stage \notin Resting
  BY <1>1, NextCommand DEF IInv, StageFits
<1>3. Idle /\ ~Broken /\ answer = Pending /\ agenda = <<>>
  BY AtRest DEF IInv, Issue, Run, Broken, Pending
<1>4. UNCHANGED <<shell, call, stage, entered, failed, got, victim>>
  BY DEF Issue, callVars, Run, Connect, RunOnDriver
<1>5. Run(c)
  BY <1>1 DEF Issue
<1>6. Banner # NoLine
  BY SetupLines
<1>7. CASE Connect(c)
  <2>1. driver = "none" /\ stage \notin Deep
    BY <1>7 DEF Connect, Attached, Deep
  <2>2. wire = <<>> /\ back = <<>> /\ shell = FreshShell(shell.config)
    BY <2>1 DEF IInv, SessionFits
  <2>3. shell.modes = <<>> /\ shell.asking = "nothing"
    BY <2>2, FreshIsShell
  <2>4. torn' = FALSE /\ UNCHANGED wire /\ ~Idle'
    BY <1>2, <1>6, <1>7 DEF Connect, Idle
  <2>5. Connects(c)
    BY <1>3, <1>7, <2>1, <2>2, <2>3, <2>4 DEF Connect, Connects
  <2> QED BY <1>1, <1>2, <1>3, <1>4, <2>4, <2>5 DEF IssueOf, c
<1>8. CASE RunOnDriver(c)
  <2>1. Sends(c) /\ ~Idle'
    BY <1>2, <1>8 DEF RunOnDriver, SendLine, Sends, Idle
  <2> QED BY <1>1, <1>2, <1>3, <1>4, <2>1 DEF IssueOf, c
<1> QED BY <1>5, <1>7, <1>8 DEF Run

\* The wire after the command.
LEMMA SendsWire ==
    ASSUME Typed, NEW c, IssueOf(c), Sends(c)
    PROVE  /\ wire' \in Seq(Line) /\ Len(wire) \in Nat /\ Len(wire') \in Nat
           /\ Len(wire) + 1 <= Len(wire')
           /\ \A k \in 1..Len(wire) : wire'[k] = wire[k] /\ k \in 1..Len(wire')
           /\ wire'[Len(wire) + 1] = c
           /\ \A k \in 1..Len(wire') : k \in 1..Len(wire) \/ k = Len(wire) + 1 \/ wire'[k].do = "yes"
           /\ c.do \notin {"reload", "save"} => Len(wire') = Len(wire) + 1
<1>1. wire \in Seq(Line) /\ c \in Line /\ wire' = wire \o Lines(c) /\ Do("yes").do = "yes"
  BY DoIs DEF Typed, IssueOf, Sends
<1>2. Lines(c) \in Seq(Line)
  BY <1>1, LinesTyped
<1> DEFINE l == Lines(c)
<1>3. /\ Len(l) \in Nat /\ Len(l) >= 1 /\ l[1] = c
      /\ \A k \in 1..Len(l) : k = 1 \/ l[k].do = "yes"
      /\ c.do \notin {"reload", "save"} => Len(l) = 1
  <2>1. CASE l = <<c>>
    <3>1. Len(l) = 1 /\ l[1] = c
      BY <2>1
    <3> QED BY <3>1
  <2>2. CASE l = <<c, Do("yes")>>
    <3>1. Len(l) = 2 /\ l[1] = c /\ l[2] = Do("yes")
      BY <2>2
    <3>2. c.do \in {"reload", "save"}
      <4>1. Len(<<c>>) = 1
        OBVIOUS
      <4>2. l # <<c>>
        BY <3>1, <4>1
      <4> QED BY <4>2, LinesOf
    <3> QED BY <1>1, <3>1, <3>2
  <2> QED BY <2>1, <2>2, LinesOf
<1>4. /\ wire' \in Seq(Line) /\ Len(wire) \in Nat /\ Len(wire') = Len(wire) + Len(l)
      /\ \A i \in 1..Len(wire) : wire'[i] = wire[i]
      /\ \A i \in 1..Len(l) : wire'[Len(wire) + i] = l[i]
  BY <1>1, <1>2, Joined
<1> HIDE DEF l
<1>5. \A k \in 1..Len(wire') : k \in 1..Len(wire) \/ k = Len(wire) + 1 \/ wire'[k].do = "yes"
  <2> SUFFICES ASSUME NEW k \in 1..Len(wire'), k \notin 1..Len(wire), k # Len(wire) + 1
               PROVE  wire'[k].do = "yes"
    OBVIOUS
  <2>1. k - Len(wire) \in 1..Len(l) /\ Len(wire) + (k - Len(wire)) = k /\ k - Len(wire) # 1
    BY <1>3, <1>4
  <2> QED BY <1>3, <1>4, <2>1
<1>6. wire'[Len(wire) + 1] = c /\ Len(wire) + 1 <= Len(wire') /\ Len(wire') \in Nat
  <2>1. 1 \in 1..Len(l)
    BY <1>3
  <2> QED BY <1>3, <1>4, <2>1
<1>7. \A k \in 1..Len(wire) : k \in 1..Len(wire')
  BY <1>4, <1>6
<1>8. c.do \notin {"reload", "save"} => Len(wire') = Len(wire) + 1
  BY <1>3, <1>4
<1> QED BY <1>4, <1>5, <1>6, <1>7, <1>8

LEMMA TypedIssues ==
    ASSUME Typed, NEW c, IssueOf(c)
    PROVE  Typed'
<1>1. UNCHANGED <<shell, call, stage, got, victim>> /\ todo' \in Seq(Line) /\ c \in Line
  BY DEF IssueOf
<1>2. wire' \in Seq(Line)
  BY SendsWire DEF IssueOf, Connects, Typed
<1>3. back' \in Seq(Chunk)
  <2>1. <<Prompt>> \in Seq(Chunk)
    BY ChunkSays, SeqsOf
  <2> QED BY <2>1 DEF IssueOf, Connects, Sends, Typed
<1>4. agenda' \in Seq(Line)
  <2>1. Do("enable") \in Line /\ Do("paging") \in Line
    BY LineDo DEF SetupCommands
  <2>2. <<Do("enable"), Do("paging"), c>> \in Seq(Line)
    BY <1>1, <2>1, SeqsOf
  <2> QED BY <2>2 DEF IssueOf, Connects, Sends, Typed
<1>5. answer'.texts \in Seq(Text)
  <2>1. Raised.texts = <<>> /\ Pending.texts = <<>> /\ <<>> \in Seq(Text)
    BY DEF Raised, Pending
  <2>2. answer' = Raised \/ answer' = Pending
    BY DEF IssueOf, Connects, Sends
  <2> QED BY <2>1, <2>2
<1>6. awaiting' \in Line \cup {NoLine, Banner}
  BY <1>1 DEF IssueOf, Connects, Sends
<1>7. answer' \in {Pending, Raised, Ended}
  BY DEF IssueOf, Connects, Sends
<1> QED BY <1>1, <1>2, <1>3, <1>4, <1>5, <1>6, <1>7 DEF Typed, Uniform

LEMMA PromptsIssues ==
    ASSUME Typed, Prompts, NEW c, IssueOf(c)
    PROVE  Prompts'
<1>1. UNCHANGED shell
  BY DEF IssueOf
<1>2. CASE UNCHANGED back
  BY <1>1, <1>2 DEF Prompts
<1>3. CASE back' = <<Prompt>> /\ Connects(c)
  <2>1. Len(back') = 1 /\ shell.asking = "nothing"
    <3>1. Len(<<Prompt>>) = 1
      OBVIOUS
    <3> QED BY <1>3, <3>1 DEF Connects
  <2>2. 1..Len(back') - 1 = {}
    BY <2>1
  <2> QED BY <1>1, <2>1, <2>2 DEF Prompts
<1> QED BY <1>2, <1>3 DEF IssueOf, Connects, Sends

LEMMA AttachedIssues ==
    ASSUME Typed, Attached, NEW c, IssueOf(c)
    PROVE  Attached'
<1>1. /\ Raised.is = "raised" /\ Pending.is = "pending"
  BY DEF Raised, Pending
<1>2. /\ UNCHANGED <<shell, stage>> /\ ~Idle' /\ ~Broken /\ Proper(c, stage)
      /\ answer = Pending /\ agenda = <<>>
  BY DEF IssueOf
<1>3. CASE Connects(c)
  <2>1. torn' = FALSE /\ stage' \notin Deep /\ answer'.is # "returned"
    BY <1>1, <1>2, <1>3 DEF Connects
  <2> QED BY <1>2, <2>1 DEF Attached, Deep
<1>4. CASE Sends(c)
  <2>1. /\ driver' = driver /\ driver # "none" /\ agenda' = <<>> /\ awaiting' = c
        /\ answer'.is # "returned" /\ back' = back
    BY <1>1, <1>2, <1>4 DEF Sends
  <2>2. Clear' <=> Clear
    BY <1>2, <2>1 DEF Clear
  <2>3. stage \in {"enter", "body"} => Clear
    BY <1>2 DEF Attached
  <2> QED BY <1>2, <2>1, <2>2, <2>3 DEF Attached
<1> QED BY <1>3, <1>4 DEF IssueOf

LEMMA DescentIssues ==
    ASSUME Typed, StageFits, Descent, NEW c, IssueOf(c)
    PROVE  Descent'
<1>1. /\ UNCHANGED <<stage, entered, call, victim>> /\ Idle /\ ~Idle' /\ c = todo[1]
      /\ Len(todo) \in Nat /\ Len(todo) >= 1 /\ Len(todo') \in Nat /\ Len(todo') = Len(todo) - 1
      /\ \A k \in 1..Len(todo') : todo'[k] = todo[k + 1] /\ k + 1 \in 1..Len(todo)
  BY DEF IssueOf
<1>2. stage \in Deep => awaiting' = c
  BY DEF IssueOf, Connects, Sends
<1>3. ASSUME NEW cmds, Len(cmds) - Len(todo) \in 0..Len(cmds), Len(cmds) \in Nat,
             \A k \in 1..Len(todo) : todo[k] = cmds[Len(cmds) - Len(todo) + k]
      PROVE  /\ Len(cmds) - Len(todo') \in 0..Len(cmds) /\ Len(cmds) - Len(todo') >= 1
             /\ \A k \in 1..Len(todo') : todo'[k] = cmds[Len(cmds) - Len(todo') + k]
             /\ c = cmds[Len(cmds) - Len(todo')]
             /\ Len(cmds) - Len(todo) = (Len(cmds) - Len(todo')) - 1
  <2> DEFINE n == Len(cmds) - Len(todo)
             m == Len(cmds) - Len(todo')
  <2>1. m = n + 1 /\ n \in 0..Len(cmds) /\ m \in 0..Len(cmds) /\ m >= 1
    BY <1>1, <1>3
  <2>2. \A k \in 1..Len(todo') : n + (k + 1) = m + k
    BY <2>1
  <2>3. 1 \in 1..Len(todo) /\ n + 1 = m
    BY <1>1, <2>1
  <2>4. c = cmds[m]
    <3>1. todo[1] = cmds[n + 1]
      BY <1>3, <2>3
    <3> QED BY <1>1, <2>3, <3>1
  <2>5. \A k \in 1..Len(todo') : todo'[k] = cmds[m + k]
    BY <1>1, <1>3, <2>2
  <2>6. n = m - 1
    BY <2>1
  <2> QED BY <2>1, <2>4, <2>5, <2>6
<1>4. CASE stage = "enter"
  <2> DEFINE cmds == EnterCommands(call)
             n == Len(cmds) - Len(todo)
  <2>1. /\ n \in 0..Len(cmds) /\ \A k \in 1..Len(todo) : todo[k] = cmds[n + k]
        /\ entered = n
    BY <1>1, <1>4 DEF Descent
  <2>2. Len(cmds) \in Nat
    BY <1>1, <1>4, DeepCall, EnterIs DEF IssueOf
  <2> HIDE DEF cmds
  <2>3. /\ Len(cmds) - Len(todo') \in 0..Len(cmds) /\ Len(cmds) - Len(todo') >= 1
        /\ \A k \in 1..Len(todo') : todo'[k] = cmds[Len(cmds) - Len(todo') + k]
        /\ c = cmds[Len(cmds) - Len(todo')]
        /\ entered = (Len(cmds) - Len(todo')) - 1
    BY <1>3, <2>1, <2>2
  <2> QED BY <1>1, <1>2, <1>4, <2>3 DEF Descent, cmds, Deep
<1>5. CASE stage = "body"
  <2> DEFINE cmds == BodyCommands(call, victim)
             n == Len(cmds) - Len(todo)
  <2>1. /\ n \in 0..Len(cmds) /\ \A k \in 1..Len(todo) : todo[k] = cmds[n + k]
        /\ entered = Len(EnterCommands(call))
    BY <1>1, <1>5 DEF Descent
  <2>2. Len(cmds) \in Nat
    BY <1>1, <1>5, DeepCall, BodyIs DEF IssueOf
  <2> HIDE DEF cmds
  <2>3. /\ Len(cmds) - Len(todo') \in 0..Len(cmds) /\ Len(cmds) - Len(todo') >= 1
        /\ \A k \in 1..Len(todo') : todo'[k] = cmds[Len(cmds) - Len(todo') + k]
        /\ c = cmds[Len(cmds) - Len(todo')]
    BY <1>3, <2>1, <2>2
  <2> QED BY <1>1, <1>2, <1>5, <2>1, <2>3 DEF Descent, cmds, Deep
<1>6. CASE stage \notin {"enter", "body"}
  BY <1>1, <1>6 DEF Descent
<1> QED BY <1>4, <1>5, <1>6

\* The command by the stage.
LEMMA NextLineIs ==
    ASSUME Typed, StageFits, Descent, NEW c, IssueOf(c), stage \in {"enter", "body"}
    PROVE  /\ Sends(c) /\ c.do \notin {"exit", "reload", "save"}
           /\ stage = "enter" => entered \in {0, 1} /\ c.do \in EnterDos
           /\ c.do = "interface" => entered = 1
           /\ stage = "body" =>
                \E m \in 1..Len(BodyCommands(call, victim)) : BodyCommands(call, victim)[m] = c
<1>1. call \in Call /\ call.kind \notin {"reboot", "deploy"} /\ victim \in Nat
  BY DeepCall DEF IssueOf
<1>2. /\ stage \in Stage /\ Proper(c, stage) /\ c = todo[1] /\ Idle /\ Len(todo) \in Nat /\ Len(todo) >= 1
      /\ 1 \in 1..Len(todo)
  BY DEF IssueOf
<1>3. Sends(c)
  BY DEF IssueOf, Connects, Deep
<1>4. stage = "enter" => c.do \in EnterDos
  BY <1>2, DosOf DEF Proper
<1>5. stage = "body" => c.do \in BodyDos
  BY <1>2, DosOf DEF Proper
<1>6. c.do \notin {"exit", "reload", "save"} /\ (stage = "body" => c.do # "interface")
  BY <1>4, <1>5 DEF EnterDos, BodyDos, DatabaseCommands, InterfaceCommands, GlobalCommands,
                    Globals, VlanCommands, PortSettings
<1>7. ASSUME stage = "enter"
      PROVE  entered \in {0, 1} /\ (c.do = "interface" => entered = 1)
  <2> DEFINE cmds == EnterCommands(call)
  <2>1. /\ Len(cmds) - Len(todo) \in 0..Len(cmds) /\ entered = Len(cmds) - Len(todo)
        /\ \A k \in 1..Len(todo) : todo[k] = cmds[(Len(cmds) - Len(todo)) + k]
    BY <1>2, <1>7 DEF Descent
  <2>2. Len(cmds) \in 0..2 /\ entered = Len(cmds) - Len(todo)
        /\ \/ cmds = <<Do("vlanDatabase")>> \/ cmds = <<>> \/ cmds = <<Do("configure")>>
           \/ cmds = <<Do("configure"), OnPort("interface", NoVlan, call.port)>>
    BY <1>1, <2>1, EnterIs
  <2> HIDE DEF cmds
  <2>3. entered \in {0, 1} /\ entered + 1 \in 1..Len(cmds)
    <3> DEFINE l == Len(cmds)
               t == Len(todo)
    <3>1. l \in {0, 1, 2} /\ t \in Nat /\ t >= 1 /\ entered = l - t /\ l - t \in 0..l
      BY <1>2, <2>1, <2>2
    <3> HIDE DEF l, t
    <3>2. entered \in {0, 1} /\ entered + 1 \in 1..l
      BY <3>1
    <3> QED BY <3>2 DEF l
  <2>4. c = cmds[entered + 1]
    <3>1. c = cmds[(Len(cmds) - Len(todo)) + 1]
      BY <1>2, <2>1
    <3> QED BY <2>1, <3>1
  <2>5. entered = 0 => c.do # "interface"
    <3> SUFFICES ASSUME entered = 0 PROVE c.do # "interface"
      OBVIOUS
    <3>1. c = cmds[1] /\ Len(cmds) >= 1
      BY <2>3, <2>4
    <3>2. \A x, y : Len(<<>>) = 0 /\ <<x>>[1] = x /\ <<x, y>>[1] = x
      OBVIOUS
    <3>3. c = Do("vlanDatabase") \/ c = Do("configure")
      BY <2>2, <3>1, <3>2
    <3> QED BY <3>3, DoIs
  <2> QED BY <2>3, <2>5
<1>8. ASSUME stage = "body"
      PROVE  \E m \in 1..Len(BodyCommands(call, victim)) : BodyCommands(call, victim)[m] = c
  <2> DEFINE cmds == BodyCommands(call, victim)
             n == Len(cmds) - Len(todo)
  <2>1. n \in 0..Len(cmds) /\ \A k \in 1..Len(todo) : todo[k] = cmds[n + k]
    BY <1>8 DEF Descent
  <2>2. Len(cmds) \in Nat
    BY <1>1, BodyIs
  <2> HIDE DEF cmds
  <2>3. n + 1 \in 1..Len(cmds) /\ c = cmds[n + 1]
    BY <1>2, <2>1, <2>2
  <2> QED BY <2>3 DEF cmds
<1> QED BY <1>3, <1>4, <1>6, <1>7, <1>8

LEMMA CreditIssues ==
    ASSUME Typed, StageFits, Descent, Credit, NEW c, IssueOf(c)
    PROVE  Credit'
<1>1. UNCHANGED <<shell, stage, entered>> /\ Len(todo) \in Nat /\ Len(todo') = Len(todo) - 1
      /\ Len(todo) >= 1 /\ answer = Pending /\ stage \in Stage /\ Proper(c, stage)
      /\ entered \in Nat
  BY DEF IssueOf, StageFits
<1>2. Won' = 0 /\ Won = 0
  <2>1. Raised.is # "returned" /\ Pending.is # "returned"
    BY DEF Raised, Pending
  <2>2. answer' \in {Raised, Pending}
    BY <1>1 DEF IssueOf, Connects, Sends
  <2> QED BY <1>1, <2>1, <2>2 DEF Won, Accepted
<1>3. /\ Cardinality(Oks) \in Nat /\ Cardinality(Outs) \in Nat /\ Owed \in Nat
      /\ Len(shell.modes) \in Nat
      /\ Cardinality(Oks) + Won + Cardinality(Outs) + Owed <= Len(shell.modes)
  BY <1>1, CreditFacts
<1>4. CASE Connects(c)
  <2>1. wire' = wire /\ stage \notin Deep /\ shell.modes = <<>>
    BY <1>4 DEF Connects
  <2>2. Oks' = {}
    <3>1. Len(<<Prompt>>) = 1 /\ <<Prompt>>[1] = Prompt /\ Len(<<>>) = 0
      OBVIOUS
    <3>2. ~Okay(Prompt)
      BY PromptSays, SaidOf DEF Okay, Printable
    <3>3. CASE back' = <<Prompt>>
      <4>1. Len(back') = 1 /\ back'[1] = Prompt
        BY <3>1, <3>3
      <4> QED BY <3>2, <4>1 DEF Oks
    <3>4. CASE back' = <<>>
      <4>1. 1..Len(back') = {}
        BY <3>1, <3>4
      <4> QED BY <4>1 DEF Oks
    <3> QED BY <1>4, <3>3, <3>4 DEF Connects
  <2>3. Cardinality(Oks') = 0
    BY <2>2, FS_EmptySet
  <2>4. Outs' = Outs /\ Owed' = 0
    BY <1>1, <2>1 DEF Outs, Owed, Deep
  <2>5. Cardinality(Oks') + Won' + Cardinality(Outs') + Owed' <= Len(shell.modes)
    <3> DEFINE o == Cardinality(Outs)
               a == Cardinality(Oks)
               w == Len(shell.modes)
    <3> HIDE DEF o, a, w
    <3>1. a \in Nat /\ o \in Nat /\ Owed \in Nat /\ w \in Nat /\ a + 0 + o + Owed <= w
      BY <1>2, <1>3 DEF o, a, w
    <3>2. 0 + 0 + o + 0 <= w
      BY <3>1
    <3> QED BY <1>2, <2>3, <2>4, <3>2 DEF o, a, w
  <2> QED BY <1>1, <2>5 DEF Credit
<1>5. CASE Sends(c)
  <2>1. Oks' = Oks
    BY <1>5 DEF Sends, Oks
  <2>2. /\ Len(wire) \in Nat /\ Len(wire') \in Nat
        /\ \A k \in 1..Len(wire) : wire'[k] = wire[k] /\ k \in 1..Len(wire')
        /\ wire'[Len(wire) + 1] = c
        /\ \A k \in 1..Len(wire') : k \in 1..Len(wire) \/ k = Len(wire) + 1 \/ wire'[k].do = "yes"
    BY <1>5, SendsWire
  <2>3. CASE stage = "unwind"
    <3>1. Owed = Len(todo) /\ Owed' = Len(todo) - 1
      BY <1>1, <2>3 DEF Owed
    <3>2. Outs' \subseteq Outs \cup {Len(wire) + 1}
      BY <2>2 DEF Outs
    <3>3. IsFiniteSet(Outs)
      <4>1. Outs \subseteq 1..Len(wire)
        BY DEF Outs
      <4> QED BY <2>2, <4>1, CountType
    <3> DEFINE A == Outs
               B == Outs'
    <3> HIDE DEF A, B
    <3>4. Cardinality(B) \in Nat /\ Cardinality(B) <= Cardinality(A) + 1
      BY <3>2, <3>3, CountOneMore DEF A, B
    <3>5. Cardinality(Oks) + 0 + Cardinality(B) + Owed' <= Len(shell.modes)
      <4> DEFINE o == Cardinality(A)
                 p == Cardinality(B)
                 a == Cardinality(Oks)
                 w == Len(shell.modes)
                 t == Len(todo)
      <4> HIDE DEF o, a, w, p, t
      <4>1. a \in Nat /\ o \in Nat /\ t \in Nat /\ w \in Nat /\ p \in Nat /\ p <= o + 1
            /\ a + 0 + o + t <= w /\ t >= 1
        BY <1>1, <1>2, <1>3, <3>1, <3>4 DEF o, a, w, p, t, A
      <4>2. a + 0 + p + (t - 1) <= w
        BY <4>1
      <4> QED BY <3>1, <4>2 DEF a, w, p, t
    <3> QED BY <1>1, <1>2, <2>1, <3>5 DEF Credit, B
  <2>4. CASE stage # "unwind"
    <3>1. c.do # "exit"
      BY <1>1, <2>4, StageOfLine
    <3>2. Outs' = Outs
      <4>1. \A k \in 1..Len(wire') : wire'[k].do = "exit" => k \in 1..Len(wire)
        BY <2>2, <3>1
      <4> QED BY <2>2, <4>1 DEF Outs
    <3>3. Owed' = Owed
      BY <1>1, <2>4 DEF Owed
    <3> QED BY <1>1, <1>2, <1>3, <2>1, <3>2, <3>3 DEF Credit
  <2> QED BY <2>3, <2>4
<1> QED BY <1>4, <1>5 DEF IssueOf

LEMMA OwnedIssues ==
    ASSUME Typed, StageFits, Descent, Owned, NEW c, IssueOf(c)
    PROVE  Owned'
<1>1. /\ UNCHANGED <<shell, stage, entered, call, victim>> /\ Idle
      /\ stage \in Stage /\ Proper(c, stage)
  BY DEF IssueOf
<1>2. CASE Connects(c)
  <2>1. wire' = <<>>
    BY <1>2 DEF Connects
  <2>2. Len(wire') = 0
    BY <2>1
  <2> QED BY <2>2 DEF Owned
<1>3. CASE Sends(c)
  <2>1. /\ Len(wire) \in Nat /\ Len(wire') \in Nat /\ Len(wire) + 1 <= Len(wire')
        /\ \A k \in 1..Len(wire) : wire'[k] = wire[k] /\ k \in 1..Len(wire')
        /\ wire'[Len(wire) + 1] = c
        /\ \A k \in 1..Len(wire') : k \in 1..Len(wire) \/ k = Len(wire) + 1 \/ wire'[k].do = "yes"
        /\ c.do \notin {"reload", "save"} => Len(wire') = Len(wire) + 1
    BY <1>3, SendsWire
  <2>2. awaiting' = c
    BY <1>3 DEF Sends
  <2> SUFFICES ASSUME NEW k \in 1..Len(wire'), wire'[k].do \in TiedDos
               PROVE  ExitBehind(k)' \/ Mine(k)'
    BY DEF Owned
  <2>3. wire'[k].do # "yes"
    BY DEF TiedDos, InnerDos, DatabaseCommands
  <2>4. CASE k \in 1..Len(wire)
    <3>1. wire'[k] = wire[k]
      BY <2>1, <2>4
    <3>2. ExitBehind(k) \/ Mine(k) \/ stage = "unwind"
      BY <2>4, <3>1 DEF Owned
    <3>3. CASE ExitBehind(k)
      <4>1. PICK j \in (k + 1)..Len(wire) : wire[j].do = "exit"
        BY <3>3 DEF ExitBehind
      <4>2. j \in 1..Len(wire) /\ j \in (k + 1)..Len(wire') /\ wire'[j].do = "exit"
        BY <2>1, <2>4, <4>1
      <4> QED BY <4>2 DEF ExitBehind
    <3>4. CASE Mine(k)
      <4>1. NoLine.do = "none" /\ awaiting = NoLine
        BY <1>1, DoIs DEF Idle, NoLine
      <4>2. wire[k].do \in TiedDos => wire[k] # awaiting
        BY <4>1 DEF TiedDos, InnerDos, DatabaseCommands
      <4> QED BY <1>1, <3>1, <3>4, <4>2 DEF Mine
    <3>5. CASE stage = "unwind"
      <4>1. c.do = "exit"
        BY <1>1, <3>5, StageOfLine
      <4>2. Len(wire) + 1 \in (k + 1)..Len(wire')
        BY <2>1, <2>4
      <4> QED BY <2>1, <4>1, <4>2 DEF ExitBehind
    <3> QED BY <3>2, <3>3, <3>4, <3>5
  <2>5. CASE k = Len(wire) + 1
    <3>1. wire'[k] = c /\ c.do \in TiedDos
      BY <2>1, <2>5
    <3>2. stage \in {"enter", "body"}
      <4>1. c.do \notin Shows \cup {"exit", "https", "copy", "save", "reload"}
        BY <3>1 DEF TiedDos, InnerDos, DatabaseCommands, Shows
      <4>2. c.do \in Dos(stage)
        BY <1>1 DEF Proper
      <4>3. stage \notin Reading \cup Resting \cup {"unwind", "script"}
        BY <4>1, <4>2, DosOf
      <4> QED BY <1>1, <4>3 DEF Stage
    <3>3. /\ stage = "enter" => c.do \in EnterDos
          /\ c.do = "interface" => entered = 1
          /\ stage = "body" =>
               \E m \in 1..Len(BodyCommands(call, victim)) : BodyCommands(call, victim)[m] = c
          /\ k = Len(wire')
      BY <2>1, <2>5, <3>2, NextLineIs
    <3>4. CASE stage = "enter"
      <4>1. c.do = "interface"
        BY <3>1, <3>3, <3>4 DEF TiedDos, InnerDos, DatabaseCommands, EnterDos
      <4> QED BY <1>1, <2>2, <3>1, <3>3, <3>4, <4>1 DEF Mine, InnerDos
    <3>5. CASE stage = "body"
      <4>1. PICK m \in 1..Len(BodyCommands(call, victim)) : BodyCommands(call, victim)[m] = c
        BY <3>3, <3>5
      <4>2. call \in Call /\ call.kind \notin {"reboot", "deploy"} /\ victim \in Nat
        BY <3>5, DeepCall DEF IssueOf
      <4>3. /\ c.do \in DatabaseCommands <=> call.kind \in {"create", "delete"}
            /\ c.do \in HostDos <=> call.kind \in HostKinds
            /\ call.kind \in {"create", "delete"} \cup HostKinds => Len(EnterCommands(call)) = 1
            /\ c.do \in BodyDos
        BY <4>1, <4>2, BodyLine
      <4>4. entered = Len(EnterCommands(call))
        BY <3>5 DEF Descent
      <4>5. c.do \in HostDos \/ c.do \in DatabaseCommands
        BY <3>1, <4>3 DEF TiedDos, InnerDos, HostDos, BodyDos, DatabaseCommands,
             InterfaceCommands, GlobalCommands, Globals, VlanCommands, PortSettings
      <4>6. entered = 1
        BY <4>3, <4>4, <4>5
      <4>7. Len(BodyCommands(call, victim)) \in Nat
        BY <4>2, BodyIs
      <4>8. CASE c.do \in HostDos
        BY <1>1, <2>2, <3>1, <3>3, <3>5, <4>6, <4>8 DEF Mine, InnerDos, HostDos
      <4>9. CASE c.do \in DatabaseCommands
        BY <1>1, <3>1, <3>5, <4>1, <4>6, <4>9 DEF Mine
      <4> QED BY <4>5, <4>8, <4>9
    <3> QED BY <3>2, <3>4, <3>5
  <2> QED BY <2>1, <2>3, <2>4, <2>5
<1> QED BY <1>2, <1>3 DEF IssueOf

LEMMA ApartIssues ==
    ASSUME Typed, Apart, NEW c, IssueOf(c)
    PROVE  Apart'
<1>1. Won' = 0
  <2>1. Raised.is # "returned" /\ Pending.is # "returned"
    BY DEF Raised, Pending
  <2>2. answer' \in {Raised, Pending}
    BY DEF IssueOf, Connects, Sends
  <2> QED BY <2>1, <2>2 DEF Won, Accepted
<1>2. CASE UNCHANGED back
  BY <1>1, <1>2 DEF Apart
<1>3. CASE back' = <<Prompt>>
  <2>1. Len(back') = 1
    <3>1. Len(<<Prompt>>) = 1
      OBVIOUS
    <3> QED BY <1>3, <3>1
  <2>2. \A i, j \in 1..Len(back') : ~(i < j)
    BY <2>1
  <2> QED BY <1>1, <2>2 DEF Apart
<1> QED BY <1>2, <1>3 DEF IssueOf, Connects, Sends

LEMMA OwnOkIssues ==
    ASSUME Typed, OwnOk, NEW c, IssueOf(c)
    PROVE  OwnOk' /\ Landed'
<1>1. UNCHANGED <<stage, entered, call, shell>> /\ Idle
  BY DEF IssueOf
<1>2. ~Accepted'
  <2>1. Raised.is # "returned" /\ Pending.is # "returned"
    BY DEF Raised, Pending
  <2>2. answer' \in {Raised, Pending}
    BY DEF IssueOf, Connects, Sends
  <2> QED BY <2>1, <2>2 DEF Accepted
<1>3. ASSUME stage \in {"enter", "body"}, entered = 1, call.kind \in PortKinds \cup HostKinds,
             NEW i \in 1..Len(back'), Said(back'[i], InnerDos)
      PROVE  FALSE
  <2>1. back' = back
    BY <1>3 DEF IssueOf, Connects, Sends, Deep
  <2>2. awaiting = back[i].of /\ back[i].of.do \in InnerDos
    BY <1>3, <2>1 DEF OwnOk, Said
  <2>3. awaiting.do = "none"
    BY <1>1, DoIs DEF Idle, NoLine
  <2> QED BY <2>2, <2>3 DEF InnerDos
<1> QED BY <1>1, <1>2, <1>3 DEF OwnOk, Landed

LEMMA InHandIssues ==
    ASSUME Typed, StageFits, Descent, InHand, NEW c, IssueOf(c)
    PROVE  InHand'
<1>1. UNCHANGED <<stage, entered, call, shell>>
  BY DEF IssueOf
<1> SUFFICES ASSUME stage = "body" \/ (stage = "enter" /\ entered = 2), call.kind \in PortKinds
             PROVE  /\ There /\ shell.asking = "nothing"
                    /\ \A k \in 1..Len(wire') :
                         wire'[k].do \in InterfaceCommands /\ wire'[k].port = call.port
  BY <1>1 DEF InHand, There
<1>2. /\ There /\ shell.asking = "nothing"
      /\ \A k \in 1..Len(wire) : wire[k].do \in InterfaceCommands /\ wire[k].port = call.port
  BY DEF InHand
<1>3. Sends(c) /\ stage = "body" /\ c.do \notin {"exit", "reload", "save"}
  BY NextLineIs
<1>4. PICK m \in 1..Len(BodyCommands(call, victim)) : BodyCommands(call, victim)[m] = c
  BY <1>3, NextLineIs
<1>5. call \in Call /\ call.kind \notin {"reboot", "deploy"} /\ victim \in Nat
  BY <1>3, DeepCall DEF IssueOf
<1>6. c.do \in InterfaceCommands /\ c.port = call.port
  BY <1>4, <1>5, BodyLine
<1>7. /\ Len(wire) \in Nat /\ Len(wire') = Len(wire) + 1
      /\ \A k \in 1..Len(wire) : wire'[k] = wire[k]
      /\ wire'[Len(wire) + 1] = c
  BY <1>3, SendsWire
<1>8. \A k \in 1..Len(wire') : k \in 1..Len(wire) \/ k = Len(wire) + 1
  BY <1>7
<1> QED BY <1>2, <1>6, <1>7, <1>8

LEMMA AimedIssues ==
    ASSUME Typed, StageFits, Descent, InHand, Aimed, NEW c, IssueOf(c)
    PROVE  Aimed'
<1>1. UNCHANGED <<stage, entered, call, shell>> /\ stage \in Stage /\ Proper(c, stage)
  BY DEF IssueOf
<1>2. CASE Connects(c)
  <2>1. wire' = <<>>
    BY <1>2 DEF Connects
  <2>2. Len(wire') = 0
    BY <2>1
  <2> QED BY <2>2 DEF Aimed
<1>3. CASE Sends(c)
  <2>1. /\ Len(wire) \in Nat /\ Len(wire') \in Nat /\ Len(wire) + 1 <= Len(wire')
        /\ \A k \in 1..Len(wire) : wire'[k] = wire[k] /\ k \in 1..Len(wire')
        /\ wire'[Len(wire) + 1] = c
        /\ \A k \in 1..Len(wire') : k \in 1..Len(wire) \/ k = Len(wire) + 1 \/ wire'[k].do = "yes"
    BY <1>3, SendsWire
  <2> SUFFICES ASSUME NEW k \in 1..Len(wire'), wire'[k].do \in InterfaceCommands
               PROVE  /\ \A j \in 1..k - 1 : wire'[j].do # "exit"
                      /\ shell.modes = <<"config", "interface">> /\ shell.port = wire'[k].port
    BY <1>1 DEF Aimed
  <2>2. CASE k \in 1..Len(wire)
    <3>1. wire'[k] = wire[k] /\ \A j \in 1..k - 1 : wire'[j] = wire[j]
      BY <2>1, <2>2
    <3> QED BY <2>2, <3>1 DEF Aimed
  <2>3. CASE k = Len(wire) + 1
    <3>1. wire'[k] = c /\ c.do \in InterfaceCommands
      BY <2>1, <2>3
    <3>2. stage = "body"
      <4>1. c.do \notin Shows \cup EnterDos \cup {"exit", "https", "copy", "save", "reload"}
        BY <3>1 DEF Shows, EnterDos, InterfaceCommands, VlanCommands, PortSettings
      <4>2. c.do \in Dos(stage)
        BY <1>1 DEF Proper
      <4>3. stage \notin Reading \cup Resting \cup {"unwind", "script", "enter"}
        BY <4>1, <4>2, DosOf
      <4> QED BY <1>1, <4>3 DEF Stage
    <3>3. PICK m \in 1..Len(BodyCommands(call, victim)) : BodyCommands(call, victim)[m] = c
      BY <3>2, NextLineIs
    <3>4. call \in Call /\ call.kind \notin {"reboot", "deploy"} /\ victim \in Nat
      BY <3>2, DeepCall DEF IssueOf
    <3>5. call.kind \in PortKinds /\ c.port = call.port
      BY <3>1, <3>3, <3>4, BodyLine
    <3>6. There /\ \A j \in 1..Len(wire) : wire[j].do \in InterfaceCommands
      BY <3>2, <3>5 DEF InHand
    <3>7. \A j \in 1..k - 1 : wire'[j].do # "exit"
      <4> SUFFICES ASSUME NEW j \in 1..k - 1 PROVE wire'[j].do # "exit"
        OBVIOUS
      <4>1. j \in 1..Len(wire) /\ wire'[j] = wire[j]
        BY <2>1, <2>3
      <4> QED BY <3>6, <4>1 DEF InterfaceCommands, VlanCommands, PortSettings
    <3> QED BY <3>1, <3>5, <3>6, <3>7 DEF There
  <2>4. wire'[k].do # "yes"
    BY DEF InterfaceCommands, VlanCommands, PortSettings
  <2> QED BY <2>1, <2>2, <2>3, <2>4
<1> QED BY <1>2, <1>3 DEF IssueOf

LEMMA LateIssues ==
    ASSUME IInv, LateInv, Issue
    PROVE  LateInv'
<1>0. Typed /\ Prompts /\ Attached /\ Descent /\ Credit /\ Owned /\ Apart /\ OwnOk /\ InHand
      /\ Aimed /\ StageFits
  BY DEF LateInv, IInv
<1>1. PICK c : IssueOf(c)
  BY <1>0, IssuesOf
<1>2. Typed' /\ Prompts' /\ Attached' /\ Descent' /\ Credit'
  BY <1>0, <1>1, TypedIssues, PromptsIssues, AttachedIssues, DescentIssues, CreditIssues
<1>3. Owned' /\ Apart' /\ OwnOk' /\ Landed' /\ InHand' /\ Aimed'
  BY <1>0, <1>1, OwnedIssues, ApartIssues, OwnOkIssues, InHandIssues, AimedIssues
<1> QED BY <1>2, <1>3 DEF LateInv

-----------------------------------------------------------------------------
(***************************************************************************)
(* The call takes an answer.                                               *)
(***************************************************************************)
\* What the parsers find in a read is typed.
LEMMA TablesTyped ==
    ASSUME NEW texts \in Seq(Text), NEW what
    PROVE  /\ Saying(texts, what) \in Seq(Text) /\ Len(Saying(texts, what)) \in Nat
           /\ \A i \in 1..Len(Saying(texts, what)) : Saying(texts, what)[i].says \in what
<1> DEFINE s == Saying(texts, what)
<1>1. s \in Seq(Text) /\ \E h : Places(texts, what, Len(texts), s, h)
  BY SayingOf
<1> HIDE DEF s
<1>2. \A i \in 1..Len(s) : s[i].says \in what
  BY <1>1 DEF Places
<1> QED BY <1>1, <1>2 DEF s

LEMMA LeastOf ==
    ASSUME NEW S, S \subseteq Nat, S # {}
    PROVE  Min(S) \in S /\ \A i \in S : Min(S) <= i
<1>1. \E i \in S : \A j \in S : i <= j
  BY LeastNat
<1> QED BY <1>1 DEF Min

LEMMA DetailTyped ==
    ASSUME NEW texts \in Seq(Text)
    PROVE  ParseDetail(texts) \in Entry
<1> DEFINE tables == Tables(texts)
           pages == {i \in 1..Len(tables) : tables[i].of.do = "detail"}
           page  == tables[Min(pages)]
           rows(f) == IF FirstIs(texts, "detail") /\ page.of.vlan \in page.at.vlans
                      THEN f[page.of.vlan] ELSE {}
<1>1. CASE pages = {}
  <2>1. ParseDetail(texts) = [vlan |-> NoVlan, member |-> {}, untagged |-> {}]
    BY <1>1 DEF ParseDetail
  <2> QED BY <2>1 DEF Entry
<1>2. CASE pages # {}
  <2>1. tables \in Seq(Text) /\ Len(tables) \in Nat
    BY TablesTyped DEF Tables
  <2>2. pages \subseteq 1..Len(tables) /\ pages \subseteq Nat
    BY <2>1
  <2>3. Min(pages) \in pages
    BY <1>2, <2>2, LeastOf
  <2>4. page \in Text
    BY <2>1, <2>2, <2>3
  <2>5. page.of.vlan \in Vlan \cup {NoVlan} /\ page.at \in Config
    BY <2>4 DEF Text, Command
  <2>6. /\ page.at.vlans \subseteq Vlan
        /\ \A v \in Vlan : page.at.member[v] \subseteq Port /\ page.at.untagged[v] \subseteq Port
    BY <2>5 DEF Config
  <2>7. ParseDetail(texts) =
          [vlan |-> page.of.vlan, member |-> rows(page.at.member),
           untagged |-> rows(page.at.untagged)]
    BY <1>2 DEF ParseDetail
  <2> HIDE DEF tables, pages, page
  <2>8. rows(page.at.member) \subseteq Port /\ rows(page.at.untagged) \subseteq Port
    BY <2>5, <2>6
  <2> HIDE DEF rows
  <2> QED BY <2>5, <2>7, <2>8 DEF Entry
<1> QED BY <1>1, <1>2

\* What a read adds to what the call knows.
LEMMA NotedFits ==
    ASSUME GotFits(got), NEW texts \in Seq(Text)
    PROVE  GotFits(Noted(texts))
<1> DEFINE show == awaiting.do
<1>1. /\ \A x : GotFits([got EXCEPT !.pvid = x])
      /\ \A x : GotFits([got EXCEPT !.power = x])
      /\ \A x : GotFits([got EXCEPT !.value = x])
      /\ \A x : x \subseteq [row : Nat, host : Host] => GotFits([got EXCEPT !.rows = x])
      /\ \A x : x \in Entry => GotFits([got EXCEPT !.infos = Append(@, x)])
  BY DEF GotFits
<1>2. ParseDetail(texts) \in Entry
  BY DetailTyped
<1>3. (IF FirstIs(texts, show) THEN Tables(texts)[1].at.rows ELSE {}) \subseteq [row : Nat, host : Host]
  <2> SUFFICES ASSUME FirstIs(texts, show)
               PROVE  Tables(texts)[1].at.rows \subseteq [row : Nat, host : Host]
    OBVIOUS
  <2>1. Tables(texts) \in Seq(Text) /\ Len(Tables(texts)) \in Nat /\ Tables(texts) # <<>>
    BY TablesTyped DEF Tables, FirstIs
  <2>2. Tables(texts)[1] \in Text
    BY <2>1
  <2>3. Tables(texts)[1].at \in Config
    BY <2>2 DEF Text
  <2> QED BY <2>3 DEF Config
<1>4. CASE show = "detail"
  BY <1>1, <1>2, <1>4 DEF Noted
<1>5. CASE show = "pvids"
  BY <1>1, <1>5 DEF Noted
<1>6. CASE show = "power"
  BY <1>1, <1>6 DEF Noted
<1>7. CASE show = "collectors"
  <2>1. Noted(texts) = [got EXCEPT !.rows = IF FirstIs(texts, show) THEN Tables(texts)[1].at.rows ELSE {}]
    BY <1>7 DEF Noted
  <2> QED BY <1>1, <1>3, <2>1
<1>8. CASE show = "label" /\ FirstIs(texts, show)
  BY <1>1, <1>8 DEF Noted
<1>9. CASE show \in {"ports", "names", "network", "logs"}
  BY <1>1, <1>9 DEF Noted
<1>10. CASE /\ show \notin {"detail", "pvids", "power", "collectors", "ports", "names", "network", "logs"}
            /\ ~(show = "label" /\ FirstIs(texts, show))
  BY <1>10 DEF Noted
<1> QED BY <1>4, <1>5, <1>6, <1>7, <1>8, <1>9, <1>10

Takes ==
    /\ ~Idle /\ ~Waiting /\ agenda = <<>> /\ answer # Pending
    /\ Idle' /\ answer' = Pending /\ awaiting' = NoLine
    /\ stage \in Stage /\ stage \notin Resting /\ entered \in Nat
    /\ UNCHANGED <<shell, wire, back, driver, agenda, torn, call, victim, calls, named>>

Keeps == UNCHANGED <<stage, todo, got, entered, failed>>

UseOf ==
    \/ stage \in Reading /\ ~Broken /\ Note(answer.texts) /\ UNCHANGED <<stage, entered, failed>>
    \/ /\ stage = "enter" /\ Accepted
       /\ entered' = entered + 1 /\ UNCHANGED <<stage, todo, got, failed>>
    \/ stage \in {"enter", "body"} /\ ~Accepted /\ Unwind(TRUE)
    \/ stage \in Reading \cup {"unwind", "script"} /\ Broken /\ Escapes(answer)
    \/ stage = "body" /\ Accepted /\ Keeps
    \/ stage \in {"unwind", "script"} /\ ~Broken /\ Keeps

LEMMA UsesOf ==
    ASSUME IInv, Use
    PROVE  Takes /\ UseOf
<1>1. ~Idle /\ ~Waiting /\ agenda = <<>> /\ answer # Pending
  BY DEF IInv, SessionFits, Use, Waiting
<1>2. stage \in Stage /\ stage \notin Resting /\ entered \in Nat
  BY <1>1 DEF IInv, StageFits
<1>3. answer' = Pending /\ awaiting' = NoLine /\ Idle'
      /\ UNCHANGED <<shell, wire, back, driver, agenda, torn, call, victim, calls, named>>
  BY DEF Use, Take, Idle, callVars
<1>4. stage \in Reading \cup {"enter", "body", "unwind", "script"}
  BY <1>2 DEF Stage
<1>5. stage \in Reading => stage \notin {"enter", "body", "unwind", "script"}
  BY DEF Reading
<1>6. CASE stage \in Reading /\ ~Broken
  <2>1. Note(answer.texts) /\ UNCHANGED <<stage, entered, failed>>
    BY <1>5, <1>6 DEF Use
  <2> QED BY <1>1, <1>2, <1>3, <1>6, <2>1 DEF Takes, UseOf
<1>7. CASE stage = "enter" /\ Accepted
  <2>1. entered' = entered + 1 /\ UNCHANGED <<stage, todo, got, failed>>
    BY <1>5, <1>7 DEF Use
  <2> QED BY <1>1, <1>2, <1>3, <1>7, <2>1 DEF Takes, UseOf
<1>8. CASE stage \in {"enter", "body"} /\ ~Accepted
  <2>1. Unwind(TRUE)
    BY <1>5, <1>8 DEF Use
  <2> QED BY <1>1, <1>2, <1>3, <1>8, <2>1 DEF Takes, UseOf
<1>9. CASE stage \in Reading \cup {"unwind", "script"} /\ Broken
  <2>1. Escapes(answer)
    BY <1>5, <1>9 DEF Use
  <2> QED BY <1>1, <1>2, <1>3, <1>9, <2>1 DEF Takes, UseOf
<1>10. CASE stage = "body" /\ Accepted
  <2>1. Keeps
    BY <1>5, <1>10 DEF Use, Keeps
  <2> QED BY <1>1, <1>2, <1>3, <1>10, <2>1 DEF Takes, UseOf
<1>11. CASE stage \in {"unwind", "script"} /\ ~Broken
  <2>1. Keeps
    BY <1>5, <1>11 DEF Use, Keeps
  <2> QED BY <1>1, <1>2, <1>3, <1>11, <2>1 DEF Takes, UseOf
<1> QED BY <1>4, <1>6, <1>7, <1>8, <1>9, <1>10, <1>11

\* The descent and the line whose answer it takes.
LEMMA AwaitedIs ==
    ASSUME Typed, StageFits, Descent, ~Idle, stage \in {"enter", "body"}
    PROVE  /\ call \in Call /\ call.kind \notin {"reboot", "deploy"} /\ victim \in Nat
           /\ stage = "enter" =>
                /\ awaiting.do \in EnterDos /\ entered \in {0, 1}
                /\ awaiting = EnterCommands(call)[entered + 1]
                /\ entered + 1 \in 1..Len(EnterCommands(call))
                /\ awaiting.do = "interface" <=> entered = 1
                /\ entered = 1 => call.kind \in PortKinds /\ entered + 1 = Len(EnterCommands(call))
                /\ call.kind \in PortKinds \cup HostKinds /\ entered = 0 => awaiting.do = "configure"
           /\ stage = "body" =>
                \E m \in 1..Len(BodyCommands(call, victim)) :
                  BodyCommands(call, victim)[m] = awaiting
<1>1. call \in Call /\ call.kind \notin {"reboot", "deploy"} /\ victim \in Nat
  <2>1. stage \notin Resting /\ stage # "script"
    BY DEF Resting
  <2> QED BY <2>1, DeepCall
<1>2. ASSUME stage = "enter"
      PROVE  /\ awaiting.do \in EnterDos /\ entered \in {0, 1}
             /\ awaiting = EnterCommands(call)[entered + 1]
             /\ entered + 1 \in 1..Len(EnterCommands(call))
             /\ awaiting.do = "interface" <=> entered = 1
             /\ entered = 1 => call.kind \in PortKinds /\ entered + 1 = Len(EnterCommands(call))
             /\ call.kind \in PortKinds \cup HostKinds /\ entered = 0 => awaiting.do = "configure"
  <2> DEFINE cmds == EnterCommands(call)
             l == Len(cmds)
             n == Len(cmds) - Len(todo)
  <2>1. n \in 0..l /\ n >= 1 /\ entered = n - 1 /\ awaiting = cmds[n]
    BY <1>2 DEF Descent
  <2>2. /\ l \in 0..2
        /\ call.kind \in {"create", "delete"} => cmds = <<Do("vlanDatabase")>>
        /\ call.kind \in PortKinds =>
             cmds = <<Do("configure"), OnPort("interface", NoVlan, call.port)>>
        /\ call.kind \in HostKinds => cmds = <<Do("configure")>>
        /\ call.kind \in GlobalKinds => cmds \in {<<>>, <<Do("configure")>>}
        /\ call.kind \in {"create", "delete"} \cup PortKinds \cup GlobalKinds \cup HostKinds
    BY <1>1, EnterIs
  <2>3. \A x, y : Len(<<>>) = 0 /\ Len(<<x>>) = 1 /\ <<x>>[1] = x /\ Len(<<x, y>>) = 2
                  /\ <<x, y>>[1] = x /\ <<x, y>>[2] = y
    OBVIOUS
  <2>4. OnPort("interface", NoVlan, call.port).do = "interface" /\ Do("configure").do = "configure"
        /\ Do("vlanDatabase").do = "vlanDatabase"
    BY DEF Do, OnPort
  <2> HIDE DEF n
  <2>5. (n = 1 \/ n = 2) /\ entered + 1 = n /\ entered \in {0, 1} /\ (entered = 0 <=> n = 1)
        /\ n \in 1..l
    BY <2>1, <2>2
  <2> HIDE DEF cmds
  <2>6. CASE cmds = <<>>
    BY <2>3, <2>5, <2>6
  <2>7. CASE cmds = <<Do("vlanDatabase")>> /\ call.kind \in {"create", "delete"}
    <3>1. l = 1 /\ cmds[1] = Do("vlanDatabase")
      BY <2>3, <2>7
    <3>2. n = 1 /\ awaiting.do = "vlanDatabase" /\ awaiting = cmds[1]
      BY <2>1, <2>4, <2>5, <3>1
    <3>3. call.kind \notin PortKinds \cup HostKinds
      BY <2>7 DEF PortKinds, HostKinds, PowerKinds, PortSettings
    <3> QED BY <2>5, <3>1, <3>2, <3>3 DEF EnterDos, cmds
  <2>8. CASE cmds = <<Do("configure")>>
    <3>1. l = 1 /\ cmds[1] = Do("configure")
      BY <2>3, <2>8
    <3>2. n = 1 /\ awaiting.do = "configure" /\ awaiting = cmds[1]
      BY <2>1, <2>4, <2>5, <3>1
    <3> QED BY <2>5, <3>1, <3>2 DEF EnterDos, cmds
  <2>9. CASE cmds = <<Do("configure"), OnPort("interface", NoVlan, call.port)>>
             /\ call.kind \in PortKinds
    <3>1. l = 2 /\ cmds[1] = Do("configure") /\ cmds[2] = OnPort("interface", NoVlan, call.port)
      BY <2>3, <2>9
    <3>2. /\ n = 1 => awaiting.do = "configure"
          /\ n = 2 => awaiting.do = "interface"
      BY <2>1, <2>4, <3>1
    <3> QED BY <2>1, <2>5, <2>9, <3>1, <3>2 DEF EnterDos, cmds
  <2> QED BY <2>2, <2>6, <2>7, <2>8, <2>9
<1>3. ASSUME stage = "body"
      PROVE  \E m \in 1..Len(BodyCommands(call, victim)) :
               BodyCommands(call, victim)[m] = awaiting
  <2> DEFINE cmds == BodyCommands(call, victim)
             n == Len(cmds) - Len(todo)
  <2>1. n \in 0..Len(cmds) /\ n >= 1 /\ awaiting = cmds[n]
    BY <1>3 DEF Descent
  <2>2. Len(cmds) \in Nat
    BY <1>1, BodyIs
  <2> HIDE DEF cmds
  <2>3. n \in 1..Len(cmds)
    BY <2>1, <2>2
  <2> QED BY <2>1, <2>3 DEF cmds
<1> QED BY <1>1, <1>2, <1>3

LEMMA ExitsOwed ==
    ASSUME entered \in Nat, NEW raised, Unwind(raised)
    PROVE  /\ stage' = "unwind" /\ entered' = entered /\ got' = Nothing
           /\ todo' \in Seq(Line) /\ Len(todo') = entered
           /\ \A i \in 1..entered : todo'[i] = Do("exit")
           /\ entered > 0 => todo' # <<>>
<1>1. todo' = Exits(entered) /\ stage' = "unwind" /\ entered' = entered /\ got' = Nothing
  BY DEF Unwind, GoTo
<1>2. /\ Exits(entered) \in Seq(Line) /\ Len(Exits(entered)) = entered
      /\ \A i \in 1..entered : Exits(entered)[i] = Do("exit")
  BY ExitsAre
<1>3. Len(<<>>) = 0
  OBVIOUS
<1> QED BY <1>1, <1>2, <1>3

LEMMA NothingFits == GotFits(Nothing)
<1>1. <<>> \in Seq(Entry)
  OBVIOUS
<1> QED BY <1>1 DEF GotFits, Nothing

LEMMA TypedUses ==
    ASSUME Typed, Takes, UseOf
    PROVE  Typed'
<1>1. UNCHANGED <<shell, wire, back, agenda, call, victim>> /\ answer' = Pending
      /\ awaiting' = NoLine /\ Pending.texts = <<>> /\ <<>> \in Seq(Text) /\ <<>> \in Seq(Line)
  BY DEF Takes, Pending
<1>3. GotFits(got')
  <2>1. CASE Note(answer.texts)
    <3>1. got' = Noted(answer.texts)
      BY <2>1 DEF Note
    <3>2. GotFits(Noted(answer.texts))
      BY NotedFits DEF Typed
    <3> QED BY <3>1, <3>2
  <2>2. CASE got' = got
    BY <2>2 DEF Typed
  <2>3. CASE got' = Nothing
    BY <2>3, NothingFits
  <2> QED BY <2>1, <2>2, <2>3 DEF UseOf, Unwind, Escapes, End, GoTo, Keeps
<1>4. todo' \in Seq(Line)
  <2>1. CASE Note(answer.texts)
    BY <2>1, DetailsTyped DEF Note, Typed
  <2>2. CASE todo' = todo
    BY <2>2 DEF Typed
  <2>3. CASE Unwind(TRUE)
    BY <2>3, ExitsOwed DEF Takes
  <2>4. CASE todo' = <<>>
    BY <1>1, <2>4
  <2> QED BY <2>1, <2>2, <2>3, <2>4 DEF UseOf, Escapes, End, GoTo, Keeps
<1>5. stage' \notin Resting => call' \in Calls /\ ~GuardRaises(call')
  BY <1>1 DEF Typed, Takes
<1> QED BY <1>1, <1>3, <1>4, <1>5 DEF Typed, Uniform

LEMMA AttachedUses ==
    ASSUME Typed, Attached, Takes, UseOf
    PROVE  Attached'
<1>1. /\ UNCHANGED <<shell, back, driver, agenda, torn>> /\ Idle' /\ ~Idle /\ agenda = <<>>
      /\ answer' = Pending /\ Pending.is = "pending" /\ answer # Pending
  BY DEF Takes, Pending
<1>2. stage' \in Deep => stage \in Deep
  BY DEF UseOf, Deep, Escapes, Unwind, GoTo, End, Keeps
<1>3. stage' \in {"enter", "body"} => stage' = stage /\ Accepted
  BY DEF UseOf, Escapes, Unwind, GoTo, End, Reading, Keeps
<1>4. stage' \in {"before", "pvids"} => stage' = stage /\ ~Broken
  BY DEF UseOf, Escapes, Unwind, GoTo, End, Keeps
<1>5. ~Broken => answer.is = "returned"
  BY <1>1 DEF Broken, Typed, Raised, Ended
<1>6. Accepted => ~Broken
  BY DEF Accepted, Broken
<1>7. Clear' <=> Clear
  BY <1>1 DEF Clear
<1>8. stage' \in {"enter", "body", "before", "pvids"} => Clear' /\ driver' # "none"
  BY <1>1, <1>3, <1>4, <1>5, <1>6, <1>7 DEF Attached
<1> QED BY <1>1, <1>2, <1>8 DEF Attached, Deep

LEMMA DescentUses ==
    ASSUME Typed, StageFits, Descent, Takes, UseOf
    PROVE  Descent'
<1>1. UNCHANGED <<call, victim>> /\ Idle' /\ ~Idle
  BY DEF Takes
<1>2. stage' \in {"enter", "body"} =>
        /\ stage' = stage /\ todo' = todo
        /\ stage = "enter" => entered' = entered + 1
        /\ stage = "body" => entered' = entered
  BY DEF UseOf, Escapes, Unwind, GoTo, End, Reading, Keeps
<1>3. CASE stage' = "enter"
  <2>1. stage = "enter" /\ todo' = todo /\ entered' = entered + 1
    BY <1>2, <1>3
  <2> DEFINE cmds == EnterCommands(call)
             n == Len(cmds) - Len(todo)
  <2>2. /\ n \in 0..Len(cmds) /\ n >= 1 /\ entered = n - 1
        /\ \A k \in 1..Len(todo) : todo[k] = cmds[n + k]
    BY <1>1, <2>1 DEF Descent
  <2>3. Len(cmds) \in Nat /\ Len(todo) \in Nat
    BY <2>1, <1>1, AwaitedIs, EnterIs DEF Typed
  <2> HIDE DEF cmds
  <2>4. entered' = n
    BY <2>1, <2>2, <2>3
  <2> QED BY <1>1, <1>3, <2>1, <2>2, <2>4 DEF Descent, cmds
<1>4. CASE stage' = "body"
  BY <1>1, <1>2, <1>4 DEF Descent
<1>5. CASE stage' \notin {"enter", "body"}
  BY <1>5 DEF Descent
<1> QED BY <1>3, <1>4, <1>5

LEMMA CreditUses ==
    ASSUME Typed, Credit, Takes, UseOf
    PROVE  Credit'
<1>1. UNCHANGED <<shell, wire, back>> /\ answer' = Pending /\ entered \in Nat
  BY DEF Takes
<1>2. Oks' = Oks /\ Outs' = Outs
  BY <1>1 DEF Oks, Outs
<1>3. Won' = 0
  BY <1>1 DEF Won, Accepted, Pending
<1>4. /\ Won \in {0, 1} /\ Owed \in Nat /\ Len(shell.modes) \in Nat
      /\ Cardinality(Oks) \in Nat /\ Cardinality(Outs) \in Nat
      /\ Cardinality(Oks) + Won + Cardinality(Outs) + Owed <= Len(shell.modes)
  BY <1>1, CreditFacts
<1>5. Owed' \in Nat /\ Owed' <= Won + Owed
  <2>1. CASE stage \in Reading /\ UNCHANGED stage
    BY <1>4, <2>1 DEF Owed, Reading
  <2>2. CASE stage = "enter" /\ Accepted /\ entered' = entered + 1 /\ UNCHANGED stage
    BY <1>1, <2>2 DEF Owed, Won
  <2>3. CASE stage \in {"enter", "body"} /\ Unwind(TRUE)
    <3>1. Owed = entered /\ Owed' = entered
      BY <1>1, <2>3, ExitsOwed DEF Owed
    <3> QED BY <1>1, <1>4, <3>1
  <2>4. CASE Escapes(answer)
    <3>1. Owed' = 0
      BY <2>4 DEF Owed, Escapes, End, GoTo
    <3> QED BY <1>4, <3>1
  <2>5. CASE Keeps
    <3>1. Owed' = Owed
      BY <2>5 DEF Owed, Keeps
    <3> QED BY <1>4, <3>1
  <2> QED BY <2>1, <2>2, <2>3, <2>4, <2>5 DEF UseOf
<1> DEFINE a == Cardinality(Oks)
           o == Cardinality(Outs)
           m == Len(shell.modes)
           w == Won
           d == Owed
           e == Owed'
<1>6. a \in Nat /\ o \in Nat /\ m \in Nat /\ w \in Nat /\ d \in Nat /\ e \in Nat
      /\ a + w + o + d <= m /\ e <= w + d
  BY <1>4, <1>5
<1>7. Oks' = Oks /\ Outs' = Outs /\ Won' = 0 /\ Owed' = e /\ shell' = shell
  BY <1>1, <1>2, <1>3
<1> HIDE DEF a, o, m, w, d, e
<1>8. a + 0 + o + e <= m
  BY <1>6
<1> QED BY <1>7, <1>8 DEF Credit, a, o, m

\* Success in the first mode: nothing more is under way.
LEMMA InnerAccepted ==
    ASSUME Typed, StageFits, Descent, Landed, ~Idle, stage \in {"enter", "body"}, Accepted,
           entered = 1, awaiting.do \in InnerDos
    PROVE  wire = <<>> /\ back = <<>> /\ call.kind \in PortKinds \cup HostKinds
           /\ (awaiting.do = "interface" => There) /\ shell.asking = "nothing"
<1>1. call.kind \in PortKinds \cup HostKinds
  <2>1. CASE stage = "enter"
    BY <2>1, AwaitedIs
  <2>2. CASE stage = "body"
    <3>1. PICK k \in 1..Len(BodyCommands(call, victim)) : BodyCommands(call, victim)[k] = awaiting
      BY <2>2, AwaitedIs
    <3>2. call \in Call /\ call.kind \notin {"reboot", "deploy"} /\ victim \in Nat
      BY AwaitedIs
    <3>3. /\ awaiting.do \in HostDos <=> call.kind \in HostKinds
          /\ awaiting.do \in BodyDos
      BY <3>1, <3>2, BodyLine
    <3>4. awaiting.do \in HostDos
      BY <3>3 DEF InnerDos, HostDos, BodyDos, DatabaseCommands, InterfaceCommands, VlanCommands,
                  PortSettings, GlobalCommands, Globals
    <3> QED BY <3>3, <3>4
  <2> QED BY <2>1, <2>2
<1>2. Caught /\ (awaiting.do = "interface" => There)
  BY <1>1 DEF Landed
<1> QED BY <1>1, <1>2 DEF Caught

LEMMA OwnedUses ==
    ASSUME Typed, StageFits, Descent, Owned, Landed, Takes, UseOf
    PROVE  Owned'
<1>1. UNCHANGED <<wire, call, victim>> /\ Idle' /\ ~Idle /\ entered \in Nat
  BY DEF Takes
<1> SUFFICES ASSUME NEW k \in 1..Len(wire), wire[k].do \in TiedDos
             PROVE  ExitBehind(k) \/ Mine(k)' \/ (stage' = "unwind" /\ todo' # <<>>)
  BY <1>1 DEF Owned, ExitBehind
<1>2. ExitBehind(k) \/ Mine(k)
  BY <1>1 DEF Owned
<1>3. CASE Mine(k)
  <2>1. stage \in {"enter", "body"} /\ entered = 1
    BY <1>3 DEF Mine
  <2>2. CASE ~Accepted
    <3>1. Unwind(TRUE)
      BY <2>1, <2>2 DEF UseOf, Reading
    <3>2. stage' = "unwind" /\ (entered > 0 => todo' # <<>>)
      BY <1>1, <3>1, ExitsOwed
    <3> QED BY <2>1, <3>2
  <2>3. CASE Accepted
    <3>1. stage' = stage
      BY <2>1, <2>3 DEF UseOf, Reading, Keeps
    <3>2. CASE wire[k].do \in InnerDos /\ wire[k] = awaiting
      <4>1. wire = <<>>
        BY <1>1, <2>1, <2>3, <3>2, InnerAccepted
      <4>2. Len(wire) = 0
        BY <4>1
      <4> QED BY <4>2
    <3>3. CASE stage = "body" /\ wire[k].do \in DatabaseCommands
      <4>1. entered' = entered
        BY <3>3, <2>3 DEF UseOf, Reading, Keeps
      <4>2. wire[k].do \notin InnerDos
        BY <3>3 DEF InnerDos, DatabaseCommands
      <4> QED BY <1>1, <1>3, <3>1, <3>3, <4>1, <4>2 DEF Mine
    <3> QED BY <1>3, <3>2, <3>3 DEF Mine
  <2> QED BY <2>2, <2>3
<1> QED BY <1>2, <1>3

LEMMA OwnOkUses ==
    ASSUME Typed, StageFits, Descent, Apart, OwnOk, Landed, Takes, UseOf
    PROVE  OwnOk' /\ Landed' /\ Apart'
<1>1. UNCHANGED <<wire, call, victim, back, shell>> /\ Idle' /\ ~Idle /\ answer' = Pending
      /\ entered \in Nat
  BY DEF Takes
<1>2. ~Accepted' /\ Won' = 0
  BY <1>1 DEF Won, Accepted, Pending
<1>3. ASSUME stage' \in {"enter", "body"}, entered' = 1, call.kind \in PortKinds \cup HostKinds,
             NEW i \in 1..Len(back), Said(back[i], InnerDos)
      PROVE  FALSE
  <2>1. stage' = stage /\ Accepted /\ (stage = "body" => entered' = entered)
        /\ (stage = "enter" => entered' = entered + 1)
    BY <1>3 DEF UseOf, Reading, Unwind, GoTo, Escapes, End, Keeps
  <2>2. CASE stage = "enter"
    <3>1. entered = 0
      BY <1>1, <1>3, <2>1, <2>2
    <3>2. awaiting.do = "configure" /\ Won = 1
      BY <1>1, <1>3, <2>1, <2>2, <3>1, AwaitedIs DEF Won
    <3> QED BY <1>3, <3>2 DEF Apart
  <2>3. CASE stage = "body"
    <3>1. awaiting = back[i].of /\ awaiting.do \in InnerDos
      BY <1>3, <2>1, <2>3 DEF OwnOk, Said
    <3>2. back = <<>>
      BY <1>1, <1>3, <2>1, <2>3, <3>1, InnerAccepted
    <3>3. Len(back) = 0
      BY <3>2
    <3> QED BY <1>3, <3>3
  <2> QED BY <1>3, <2>1, <2>2, <2>3
<1>4. OwnOk'
  BY <1>1, <1>3 DEF OwnOk
<1>5. Landed' /\ Apart'
  BY <1>1, <1>2 DEF Landed, Apart
<1> QED BY <1>4, <1>5

LEMMA InHandUses ==
    ASSUME Typed, StageFits, Descent, Landed, InHand, Takes, UseOf
    PROVE  InHand'
<1>1. UNCHANGED <<wire, call, shell>> /\ ~Idle /\ entered \in Nat
  BY DEF Takes
<1> SUFFICES ASSUME stage' = "body" \/ (stage' = "enter" /\ entered' = 2), call.kind \in PortKinds
             PROVE  /\ There /\ shell.asking = "nothing"
                    /\ \A k \in 1..Len(wire) :
                         wire[k].do \in InterfaceCommands /\ wire[k].port = call.port
  BY <1>1 DEF InHand, There
<1>2. stage' = stage /\ Accepted /\ (stage = "enter" => entered' = entered + 1)
  BY DEF UseOf, Reading, Unwind, GoTo, Escapes, End, Keeps
<1>3. CASE stage = "body"
  BY <1>3 DEF InHand
<1>4. CASE stage = "enter"
  <2>1. entered = 1
    BY <1>1, <1>2, <1>4
  <2>2. awaiting.do = "interface"
    BY <1>1, <1>4, <2>1, AwaitedIs
  <2>3. wire = <<>> /\ There /\ shell.asking = "nothing"
    BY <1>1, <1>2, <1>4, <2>1, <2>2, InnerAccepted DEF InnerDos
  <2>4. Len(wire) = 0
    BY <2>3
  <2> QED BY <2>3, <2>4
<1> QED BY <1>2, <1>3, <1>4

LEMMA LateUses ==
    ASSUME IInv, LateInv, Use
    PROVE  LateInv'
<1>0. Typed /\ Prompts /\ Attached /\ Descent /\ Credit /\ Owned /\ Apart /\ OwnOk /\ Landed
      /\ InHand /\ Aimed /\ StageFits
  BY DEF LateInv, IInv
<1>1. Takes /\ UseOf
  BY UsesOf
<1>2. Typed' /\ Attached' /\ Descent' /\ Credit'
  BY <1>0, <1>1, TypedUses, AttachedUses, DescentUses, CreditUses
<1>3. Owned' /\ Apart' /\ OwnOk' /\ Landed' /\ InHand'
  BY <1>0, <1>1, OwnedUses, OwnOkUses, InHandUses
<1>4. UNCHANGED <<wire, back, shell>>
  BY <1>1 DEF Takes
<1>5. Prompts' /\ Aimed'
  BY <1>0, <1>4 DEF Prompts, Aimed
<1> QED BY <1>2, <1>3, <1>5 DEF LateInv

-----------------------------------------------------------------------------
(***************************************************************************)
(* A stage ends, a call begins, the session is closed.                     *)
(***************************************************************************)
LEMMA RowTyped ==
    ASSUME GotFits(got), NEW h
    PROVE  RowOf(got, h) \in Nat
<1>1. CASE h \notin HostsOf(got)
  BY <1>1 DEF RowOf
<1>2. CASE h \in HostsOf(got)
  <2> DEFINE rows == {r.row : r \in {q \in got.rows : q.host = h}}
  <2>1. got.rows \subseteq [row : Nat, host : Host]
    BY DEF GotFits
  <2>2. rows \subseteq Nat
    BY <2>1
  <2>3. rows # {}
    <3>1. PICK r \in got.rows : r.host = h
      BY <1>2 DEF HostsOf
    <3>2. r.row \in rows
      BY <3>1
    <3> QED BY <3>2
  <2>4. PICK n \in rows : \A m \in rows : n <= m
    BY <2>2, <2>3, LeastNat
  <2>5. \A r \in got.rows : r.host = h => n <= r.row
    BY <2>4
  <2>6. RowOf(got, h) = CHOOSE i \in rows : \A r \in got.rows : r.host = h => i <= r.row
    BY <1>2 DEF RowOf
  <2>7. RowOf(got, h) \in rows
    BY <2>4, <2>5, <2>6
  <2> QED BY <2>2, <2>7
<1> QED BY <1>1, <1>2

CallEnds ==
    /\ stage \notin {"enter", "body"} /\ stage' \in Resting /\ todo' = <<>> /\ entered' = 0
    /\ UNCHANGED victim

Enters ==
    /\ stage \in {"before", "pvids"} /\ stage' = "enter" /\ todo' = EnterCommands(call)
    /\ entered' = 0 /\ victim' \in Nat

Bodies ==
    /\ stage = "enter" /\ stage' = "body" /\ todo' = BodyCommands(call, victim)
    /\ UNCHANGED <<entered, victim>>

Leaves == stage = "body" /\ Unwind(FALSE) /\ UNCHANGED victim

ReadsPages ==
    /\ stage \in {"before", "unwind", "after"} /\ stage' \in {"pvids", "after", "farewell"}
    /\ todo' = (IF stage' = "pvids" THEN <<Do("pvids")>> ELSE PagesAfter(call))
    /\ victim' \in Nat

TurnOf ==
    /\ stage \notin Resting /\ Idle /\ Idle' /\ todo = <<>> /\ ~Broken
    /\ answer = Pending /\ answer' = Pending /\ agenda = <<>> /\ entered \in Nat
    /\ awaiting.do = "none"
    /\ UNCHANGED <<shell, wire, back, driver, agenda, awaiting, answer, torn, call>>
    /\ got' = Nothing
    /\ CallEnds \/ Enters \/ Bodies \/ Leaves \/ ReadsPages

LEMMA TurnsOf ==
    ASSUME IInv, Typed, Turn
    PROVE  TurnOf
<1>1. /\ stage \notin Resting /\ Idle /\ Idle' /\ todo = <<>> /\ ~Broken
      /\ answer = Pending /\ answer' = Pending /\ agenda = <<>> /\ entered \in Nat
      /\ awaiting.do = "none"
      /\ UNCHANGED <<shell, wire, back, driver, agenda, awaiting, answer, torn, call>>
  <2>1. stage \notin Resting /\ Idle /\ todo = <<>> /\ UNCHANGED <<sessionVars, call>>
    BY DEF Turn
  <2>2. answer = Pending /\ agenda = <<>> /\ entered \in Nat
    BY <2>1, AtRest DEF IInv, StageFits, SessionFits, Waiting
  <2>3. ~Broken
    BY <2>2 DEF Broken, Pending
  <2>4. awaiting.do = "none"
    BY <2>1 DEF Idle, NoLine, Do
  <2> QED BY <2>1, <2>2, <2>3, <2>4 DEF sessionVars, Idle
<1>2. victim \in Nat /\ RowOf(got, call.host) \in Nat
  BY RowTyped DEF Typed
<1>3. stage \in {"before", "pvids"} => entered = 0
  BY DEF IInv, StageFits
<1>4. got' = Nothing
  BY DEF Turn, Prepare, Judge, Unwound, Unwind, GoTo, End
<1>5. CASE stage = "before"
  <2>1. Prepare
    BY <1>5 DEF Turn
  <2>2. CASE PreconditionFails(call, got)
    BY <2>1, <2>2, <1>1, <1>4, <1>5 DEF Prepare, End, GoTo, Resting, TurnOf, CallEnds
  <2>3. CASE ~PreconditionFails(call, got) /\ call.kind = "pvid"
    BY <2>1, <2>3, <1>1, <1>2, <1>4, <1>5 DEF Prepare, GoTo, TurnOf, ReadsPages
  <2>4. CASE ~PreconditionFails(call, got) /\ call.kind # "pvid"
    BY <2>1, <2>4, <1>1, <1>2, <1>3, <1>4, <1>5 DEF Prepare, GoTo, TurnOf, Enters
  <2> QED BY <2>2, <2>3, <2>4
<1>6. CASE stage = "after"
  <2>1. Judge /\ UNCHANGED victim
    BY <1>6 DEF Turn
  <2> QED BY <1>1, <1>2, <1>4, <1>6, <2>1 DEF Judge, End, GoTo, TurnOf, CallEnds, ReadsPages, Resting
<1>7. CASE stage = "pvids"
  BY <1>1, <1>2, <1>3, <1>4, <1>7 DEF Turn, GoTo, TurnOf, Enters
<1>8. CASE stage = "enter"
  BY <1>1, <1>4, <1>8 DEF Turn, GoTo, TurnOf, Bodies
<1>9. CASE stage = "body"
  BY <1>1, <1>4, <1>9 DEF Turn, TurnOf, Leaves
<1>10. CASE stage = "unwind"
  BY <1>1, <1>2, <1>4, <1>10 DEF Turn, Unwound, End, GoTo, TurnOf, CallEnds, ReadsPages, Resting
<1>11. CASE stage \in {"farewell", "script"}
  BY <1>1, <1>4, <1>11 DEF Turn, End, GoTo, TurnOf, CallEnds, Resting
<1> QED BY <1>5, <1>6, <1>7, <1>8, <1>9, <1>10, <1>11 DEF Turn

LEMMA TypedTurns ==
    ASSUME Typed, StageFits, TurnOf
    PROVE  Typed'
<1>1. /\ UNCHANGED <<shell, wire, back, agenda, answer, awaiting, call>> /\ GotFits(got')
      /\ stage \notin Resting /\ <<>> \in Seq(Line)
  BY NothingFits DEF TurnOf
<1>2. victim' \in Nat
  BY DEF TurnOf, CallEnds, Enters, Bodies, Leaves, ReadsPages, Typed
<1>3. todo' \in Seq(Line)
  <2>1. CASE CallEnds
    BY <1>1, <2>1 DEF CallEnds
  <2>2. CASE Enters
    <3>1. stage # "script" /\ todo' = EnterCommands(call)
      BY <2>2 DEF Enters
    <3> QED BY <1>1, <3>1, DeepCall, EnterIs
  <2>3. CASE Bodies
    <3>1. stage # "script" /\ todo' = BodyCommands(call, victim)
      BY <2>3 DEF Bodies
    <3> QED BY <1>1, <3>1, DeepCall, BodyIs
  <2>4. CASE Leaves
    BY <2>4, ExitsOwed DEF Leaves, TurnOf
  <2>5. CASE ReadsPages
    <3>1. stage # "script" /\ todo' \in {<<Do("pvids")>>, PagesAfter(call)}
      BY <2>5 DEF ReadsPages
    <3>2. Do("pvids") \in Line
      BY LineDo DEF Shows
    <3>3. <<Do("pvids")>> \in Seq(Line)
      BY <3>2, SeqsOf
    <3> QED BY <1>1, <3>1, <3>3, DeepCall, PagesTyped
  <2> QED BY <2>1, <2>2, <2>3, <2>4, <2>5 DEF TurnOf
<1> QED BY <1>1, <1>2, <1>3 DEF Typed, Uniform

LEMMA AttachedTurns ==
    ASSUME Typed, Attached, TurnOf
    PROVE  Attached'
<1>1. /\ UNCHANGED <<shell, back, driver, agenda, awaiting, answer, torn>> /\ Idle /\ Idle'
      /\ todo = <<>> /\ ~Broken /\ agenda = <<>> /\ answer.is # "returned"
  BY DEF TurnOf, Pending
<1>2. stage' \in {"enter", "body"} => stage \in {"before", "pvids", "enter"}
  BY DEF TurnOf, CallEnds, Enters, Bodies, Leaves, ReadsPages, Unwind, GoTo, Resting
<1>3. stage' \in {"before", "pvids"} => todo' # <<>>
  <2>1. stage' \in {"before", "pvids"} => ReadsPages /\ stage' = "pvids"
    BY DEF TurnOf, CallEnds, Enters, Bodies, Leaves, ReadsPages, Unwind, GoTo, Resting
  <2>2. <<Do("pvids")>> # <<>>
    OBVIOUS
  <2> QED BY <2>1, <2>2 DEF ReadsPages
<1>4. stage' = "unwind" => stage = "body"
  BY DEF TurnOf, CallEnds, Enters, Bodies, Leaves, ReadsPages, Unwind, GoTo, Resting
<1>5. Clear' <=> Clear
  BY <1>1 DEF Clear
<1>6. stage \in {"before", "pvids", "enter", "body"} => Clear /\ driver # "none"
  BY <1>1 DEF Attached
<1> QED BY <1>1, <1>2, <1>3, <1>4, <1>5, <1>6 DEF Attached

LEMMA DescentTurns ==
    ASSUME Typed, StageFits, Descent, TurnOf
    PROVE  Descent'
<1>1. UNCHANGED call /\ Idle /\ Idle' /\ todo = <<>> /\ stage \notin Resting /\ Len(<<>>) = 0
  BY DEF TurnOf
<1>2. CASE Enters
  <2>1. stage' = "enter" /\ todo' = EnterCommands(call) /\ entered' = 0 /\ stage # "script"
    BY <1>2 DEF Enters
  <2>2. Len(EnterCommands(call)) \in Nat
    BY <1>1, <2>1, DeepCall, EnterIs
  <2> DEFINE cmds == EnterCommands(call)
             l == Len(cmds)
  <2>3. l - l = 0 /\ 0 \in 0..l /\ \A k \in 1..l : cmds[k] = cmds[0 + k]
    BY <2>2
  <2> HIDE DEF cmds
  <2>4. EnterCommands(call)' = cmds /\ todo' = cmds
    BY <1>1, <2>1 DEF cmds
  <2> QED BY <1>1, <2>1, <2>3, <2>4 DEF Descent, cmds
<1>3. CASE Bodies
  <2>1. /\ stage = "enter" /\ stage' = "body" /\ todo' = BodyCommands(call, victim)
        /\ UNCHANGED <<entered, victim>>
    BY <1>3 DEF Bodies
  <2>2. Len(BodyCommands(call, victim)) \in Nat /\ Len(EnterCommands(call)) \in Nat
    BY <1>1, <2>1, DeepCall, BodyIs, EnterIs
  <2>3. entered = Len(EnterCommands(call)) - Len(todo)
    BY <1>1, <2>1 DEF Descent
  <2>4. entered' = Len(EnterCommands(call))
    BY <1>1, <2>1, <2>2, <2>3
  <2> DEFINE cmds == BodyCommands(call, victim)
             l == Len(cmds)
  <2>5. l - l = 0 /\ 0 \in 0..l /\ \A k \in 1..l : cmds[k] = cmds[0 + k]
    BY <2>2
  <2> HIDE DEF cmds
  <2>6. BodyCommands(call, victim)' = cmds /\ todo' = cmds
    BY <1>1, <2>1 DEF cmds
  <2>7. EnterCommands(call)' = EnterCommands(call)
    BY <1>1
  <2> QED BY <1>1, <2>1, <2>4, <2>5, <2>6, <2>7 DEF Descent, cmds
<1>4. stage' \in {"enter", "body"} => Enters \/ Bodies
  BY DEF TurnOf, CallEnds, Leaves, ReadsPages, Unwind, GoTo, Resting
<1> QED BY <1>2, <1>3, <1>4 DEF Descent

\* What the call owes: as many exits as before.
LEMMA CreditTurns ==
    ASSUME Typed, StageFits, Credit, TurnOf
    PROVE  Credit'
<1>1. /\ UNCHANGED <<shell, wire, back, answer>> /\ entered \in Nat /\ answer.is # "returned"
      /\ answer' = Pending /\ todo = <<>>
  BY DEF TurnOf, Pending
<1>2. Oks' = Oks /\ Outs' = Outs
  BY <1>1 DEF Oks, Outs
<1>3. Won' = 0
  BY <1>1 DEF Won, Accepted, Pending
<1>4. /\ Won \in {0, 1} /\ Owed \in Nat /\ Len(shell.modes) \in Nat
      /\ Cardinality(Oks) \in Nat /\ Cardinality(Outs) \in Nat
      /\ Cardinality(Oks) + Won + Cardinality(Outs) + Owed <= Len(shell.modes)
  BY <1>1, CreditFacts
<1>5. Owed' \in Nat /\ Owed' <= Owed
  <2>1. CASE CallEnds
    BY <1>4, <2>1 DEF CallEnds, Owed, Resting
  <2>2. CASE Enters
    BY <1>4, <2>2 DEF Enters, Owed
  <2>3. CASE Bodies
    BY <1>1, <1>4, <2>3 DEF Bodies, Owed
  <2>4. CASE Leaves
    <3>1. Owed' = Owed
      BY <1>1, <2>4, ExitsOwed DEF Leaves, Owed
    <3> QED BY <1>4, <3>1
  <2>5. CASE ReadsPages
    <3>1. Owed' = 0
      BY <2>5 DEF ReadsPages, Owed
    <3> QED BY <1>4, <3>1
  <2> QED BY <2>1, <2>2, <2>3, <2>4, <2>5 DEF TurnOf
<1> DEFINE a == Cardinality(Oks)
           o == Cardinality(Outs)
           m == Len(shell.modes)
           w == Won
           d == Owed
           e == Owed'
<1>6. a \in Nat /\ o \in Nat /\ m \in Nat /\ w \in Nat /\ d \in Nat /\ e \in Nat
      /\ a + w + o + d <= m /\ e <= d
  BY <1>4, <1>5
<1>7. Oks' = Oks /\ Outs' = Outs /\ Won' = 0 /\ Owed' = e /\ shell' = shell
  BY <1>1, <1>2, <1>3
<1> HIDE DEF a, o, m, w, d, e
<1>8. a + 0 + o + e <= m
  BY <1>6
<1> QED BY <1>7, <1>8 DEF Credit, a, o, m

LEMMA OwnedTurns ==
    ASSUME Typed, Owned, TurnOf
    PROVE  Owned'
<1>1. /\ UNCHANGED <<wire, call, awaiting>> /\ Idle' /\ entered \in Nat /\ awaiting.do = "none"
      /\ todo = <<>>
  BY DEF TurnOf
<1> SUFFICES ASSUME NEW k \in 1..Len(wire), wire[k].do \in TiedDos
             PROVE  ExitBehind(k) \/ Mine(k)' \/ (stage' = "unwind" /\ todo' # <<>>)
  BY <1>1 DEF Owned, ExitBehind
<1>2. ExitBehind(k) \/ Mine(k)
  BY <1>1 DEF Owned
<1>3. CASE Mine(k)
  <2>1. /\ stage = "body" /\ entered = 1 /\ wire[k].do \in DatabaseCommands
        /\ \E m \in 1..Len(BodyCommands(call, victim)) : BodyCommands(call, victim)[m] = wire[k]
    BY <1>1, <1>3 DEF Mine, InnerDos
  <2>2. Leaves
    BY <2>1 DEF TurnOf, CallEnds, Enters, Bodies, ReadsPages
  <2>3. stage' = "unwind" /\ (entered > 0 => todo' # <<>>)
    BY <1>1, <2>2, ExitsOwed DEF Leaves
  <2> QED BY <2>1, <2>3
<1> QED BY <1>2, <1>3

LEMMA DepthTurns ==
    ASSUME Typed, StageFits, Descent, Apart, OwnOk, InHand, TurnOf
    PROVE  Apart' /\ OwnOk' /\ Landed' /\ InHand'
<1>1. /\ UNCHANGED <<shell, wire, back, call, awaiting>> /\ Idle /\ awaiting.do = "none"
      /\ answer' = Pending /\ todo = <<>> /\ stage \notin Resting /\ Len(<<>>) = 0
      /\ entered \in Nat
  BY DEF TurnOf
<1>2. ~Accepted' /\ Won' = 0
  BY <1>1 DEF Won, Accepted, Pending
<1>3. Apart' /\ Landed'
  BY <1>1, <1>2 DEF Apart, Landed
<1>4. stage' \in {"enter", "body"} => (entered' = 0 /\ stage' = "enter") \/ Bodies
  BY DEF TurnOf, CallEnds, Enters, Leaves, ReadsPages, Unwind, GoTo, Resting
<1>5. OwnOk'
  <2> SUFFICES ASSUME Bodies, entered = 1, call.kind \in PortKinds \cup HostKinds,
                      NEW i \in 1..Len(back), Said(back[i], InnerDos)
               PROVE  FALSE
    BY <1>1, <1>4 DEF OwnOk, Bodies
  <2>1. awaiting = back[i].of
    BY DEF OwnOk, Bodies
  <2> QED BY <1>1, <2>1 DEF Said, InnerDos
<1>6. InHand'
  <2> SUFFICES ASSUME Bodies, call.kind \in PortKinds
               PROVE  /\ There /\ shell.asking = "nothing"
                      /\ \A k \in 1..Len(wire) :
                           wire[k].do \in InterfaceCommands /\ wire[k].port = call.port
    BY <1>1, <1>4 DEF InHand, There
  <2>1. stage = "enter" /\ stage # "script"
    BY DEF Bodies
  <2>2. EnterCommands(call) = <<Do("configure"), OnPort("interface", NoVlan, call.port)>>
    BY <1>1, <2>1, DeepCall, EnterIs
  <2>3. Len(EnterCommands(call)) = 2
    BY <2>2
  <2>4. entered = Len(EnterCommands(call)) - Len(todo)
    BY <1>1, <2>1 DEF Descent
  <2>5. entered = 2
    BY <1>1, <2>3, <2>4
  <2> QED BY <2>1, <2>5 DEF InHand
<1> QED BY <1>3, <1>5, <1>6

LEMMA LateTurns ==
    ASSUME IInv, LateInv, Turn
    PROVE  LateInv'
<1>0. Typed /\ Prompts /\ Attached /\ Descent /\ Credit /\ Owned /\ Apart /\ OwnOk /\ Landed
      /\ InHand /\ Aimed /\ StageFits
  BY DEF LateInv, IInv
<1>1. TurnOf
  BY <1>0, TurnsOf
<1>2. Typed' /\ Attached' /\ Descent' /\ Credit'
  BY <1>0, <1>1, TypedTurns, AttachedTurns, DescentTurns, CreditTurns
<1>3. Owned' /\ Apart' /\ OwnOk' /\ Landed' /\ InHand'
  BY <1>0, <1>1, OwnedTurns, DepthTurns
<1>4. UNCHANGED <<wire, back, shell>>
  BY <1>1 DEF TurnOf
<1>5. Prompts' /\ Aimed'
  BY <1>0, <1>4 DEF Prompts, Aimed
<1> QED BY <1>2, <1>3, <1>5 DEF LateInv

\* What begins or ends calls leaves the channel alone, or empties it.
BetweenCalls ==
    /\ stage \in Resting /\ Idle /\ Idle' /\ todo = <<>> /\ ~Broken /\ answer = Pending
    /\ entered = 0 /\ entered' = 0 /\ got' \in {got, Nothing}
    /\ stage' \notin {"pvids", "enter", "body", "unwind"}
    /\ stage' = "before" =>
         todo' # <<>> /\ \E c \in Call : todo' = PagesBefore(c) /\ c.kind \notin {"reboot", "deploy"}
    /\ stage' \in Resting \cup {"before", "script"}
    /\ stage' \notin Resting => call' \in Calls /\ ~GuardRaises(call')
    /\ todo' \in Seq(Line) /\ victim' \in Nat
    /\ UNCHANGED <<agenda, awaiting, answer, torn>>
    /\ \/ UNCHANGED <<shell, wire, back, driver>>
       \/ /\ shell' = FreshShell(shell.config) /\ wire' = <<>> /\ back' = <<>>
          /\ UNCHANGED stage

LEMMA CallsInvoke ==
    ASSUME IInv, Typed, Invoke
    PROVE  BetweenCalls
<1>1. /\ stage \in Resting /\ Idle /\ todo = <<>> /\ entered = 0 /\ UNCHANGED <<sessionVars, entered>>
      /\ victim' = 0
  BY DEF Invoke, IInv, StageFits, Resting
<1>2. answer = Pending /\ ~Broken /\ Idle'
  BY <1>1 DEF IInv, SessionFits, Broken, Pending, Idle, sessionVars
<1>3. PICK c \in Calls : call' = c /\ Begin(c)
  BY DEF Invoke
<1>4. c \in Call
  BY DEF Calls
<1>5. /\ got' = Nothing /\ stage' \in {"refused", "script", "before"}
      /\ stage' = "refused" => todo' = <<>>
      /\ stage' = "script" => todo' = Script(c) /\ c.kind \in {"reboot", "deploy"} /\ ~GuardRaises(c)
      /\ stage' = "before" =>
           todo' = PagesBefore(c) /\ c.kind \notin {"reboot", "deploy"} /\ ~GuardRaises(c)
  <2>1. CASE GuardRaises(c)
    BY <1>3, <2>1 DEF Begin, GoTo
  <2>2. CASE c.kind \in {"reboot", "deploy"} /\ ~GuardRaises(c)
    BY <1>3, <2>2 DEF Begin, GoTo
  <2>3. CASE c.kind \notin {"reboot", "deploy"} /\ ~GuardRaises(c)
    BY <1>3, <2>3 DEF Begin, GoTo
  <2> QED BY <2>1, <2>2, <2>3
<1>6. /\ todo' \in Seq(Line)
      /\ stage' = "before" =>
           todo' # <<>> /\ \E x \in Call : todo' = PagesBefore(x) /\ x.kind \notin {"reboot", "deploy"}
  BY <1>4, <1>5, ScriptTyped, PagesTyped, SeqsOf
<1> QED BY <1>1, <1>2, <1>3, <1>5, <1>6 DEF BetweenCalls, sessionVars, Resting

LEMMA CallsClose ==
    ASSUME IInv, Typed, stage \in Resting, Close, UNCHANGED writerVars
    PROVE  BetweenCalls
<1>1. /\ todo = <<>> /\ entered = 0 /\ Idle /\ answer = Pending
      /\ UNCHANGED <<stage, todo, entered, got, victim, call>>
  BY DEF IInv, StageFits, Resting, writerVars, SessionFits
<1>2. ~Broken /\ Idle' /\ todo' \in Seq(Line) /\ victim' \in Nat
  BY <1>1 DEF Broken, Pending, Idle, Typed, Close
<1> QED BY <1>1, <1>2 DEF BetweenCalls, Close, Resting

LEMMA LateCalls ==
    ASSUME IInv, LateInv, BetweenCalls
    PROVE  LateInv'
<1>0. Typed /\ Prompts /\ Attached /\ Descent /\ Credit /\ Owned /\ Apart /\ OwnOk /\ Landed
      /\ InHand /\ Aimed
  BY DEF LateInv
<1>1. /\ stage \in Resting /\ Idle /\ Idle' /\ todo = <<>> /\ ~Broken /\ answer = Pending
      /\ entered' = 0 /\ answer' = Pending /\ answer.is # "returned" /\ ~Accepted' /\ Won' = 0
      /\ stage' \notin {"pvids", "enter", "body", "unwind"} /\ stage \notin {"enter", "body", "unwind"}
  BY DEF BetweenCalls, Won, Accepted, Pending, Resting
<1>2. GotFits(got')
  BY <1>0, NothingFits DEF BetweenCalls, Typed
<1>3. Descent' /\ OwnOk' /\ Landed' /\ InHand'
  BY <1>1 DEF Descent, OwnOk, Landed, InHand
<1>4. Attached'
  <2>1. torn' /\ ~Idle' => FALSE
    BY <1>1
  <2>2. ~(stage' \in {"before", "pvids"} /\ (answer'.is = "returned" \/ (Idle' /\ todo' = <<>>)))
    BY <1>1 DEF BetweenCalls, Pending
  <2> QED BY <1>1, <2>1, <2>2 DEF Attached
<1>5. Owed = 0 /\ Owed' = 0 /\ Won = 0
  BY <1>1 DEF Owed, Won, Accepted
<1>6. CASE UNCHANGED <<shell, wire, back, driver>>
  <2>1. UNCHANGED <<agenda, awaiting, answer, shell, wire, back>>
    BY <1>6 DEF BetweenCalls
  <2>2. todo' \in Seq(Line) /\ victim' \in Nat
        /\ (stage' \notin Resting => call' \in Calls /\ ~GuardRaises(call'))
    BY DEF BetweenCalls
  <2>3. Typed'
    BY <1>0, <1>2, <2>1, <2>2 DEF Typed, Uniform
  <2>4. Oks' = Oks /\ Outs' = Outs
    BY <2>1 DEF Oks, Outs
  <2>5. Credit'
    BY <1>0, <1>1, <1>5, <2>1, <2>4 DEF Credit
  <2>6. Prompts' /\ Apart' /\ Aimed'
    BY <1>0, <1>1, <2>1 DEF Prompts, Apart, Aimed
  <2>7. Owned'
    BY <1>0, <1>1, <2>1 DEF Owned, Mine, ExitBehind
  <2> QED BY <1>3, <1>4, <2>3, <2>5, <2>6, <2>7 DEF LateInv
<1>7. CASE shell' = FreshShell(shell.config) /\ wire' = <<>> /\ back' = <<>>
  <2>1. shell.config \in Config
    BY <1>0 DEF Typed, Shell
  <2>2. shell' \in Shell /\ shell'.modes = <<>> /\ shell'.modes \in Levels
        /\ shell'.config = shell.config /\ shell'.asking = "nothing"
    BY <1>7, <2>1, FreshFits
  <2>3. UNCHANGED <<agenda, awaiting, answer>> /\ todo' \in Seq(Line) /\ victim' \in Nat
        /\ (stage' \notin Resting => call' \in Calls /\ ~GuardRaises(call'))
    BY DEF BetweenCalls
  <2>4. <<>> \in Seq(Line) /\ <<>> \in Seq(Chunk) /\ Len(<<>>) = 0
    OBVIOUS
  <2>5. Typed'
    BY <1>0, <1>2, <1>7, <2>2, <2>3, <2>4 DEF Typed, Uniform
  <2>6. 1..0 = {} /\ Len(wire') = 0 /\ Len(back') = 0
    BY <1>7
  <2>7. Oks' = {} /\ Outs' = {}
    BY <2>6 DEF Oks, Outs
  <2>8. Cardinality({}) = 0
    BY FS_EmptySet
  <2>9. Credit'
    BY <1>1, <1>5, <2>2, <2>4, <2>7, <2>8 DEF Credit
  <2>10. Prompts' /\ Apart' /\ Aimed' /\ Owned'
    BY <1>1, <1>7, <2>6 DEF Prompts, Apart, Aimed, Owned
  <2> QED BY <1>3, <1>4, <2>5, <2>9, <2>10 DEF LateInv
<1> QED BY <1>6, <1>7 DEF BetweenCalls

LEMMA LateInit == Init => LateInv
<1> SUFFICES ASSUME Init PROVE LateInv
  OBVIOUS
<1>1. PICK f \in {Factory, InUse} : shell = FreshShell(f)
  BY DEF Init, SessionInit
<1>2. FitConfig(f)
  BY <1>1, FactoryFits, InUseFits
<1>3. shell \in Shell /\ shell.modes = <<>> /\ shell.modes \in Levels
      /\ shell.config = f /\ shell.asking = "nothing"
  BY <1>1, <1>2, FreshFits DEF FitConfig
<1>4. /\ wire = <<>> /\ back = <<>> /\ agenda = <<>> /\ todo = <<>> /\ awaiting = NoLine
      /\ answer = Pending /\ stage = "idle" /\ got = Nothing /\ victim = 0 /\ Idle
      /\ torn = FALSE /\ Pending.is = "pending" /\ Pending.texts = <<>>
  BY DEF Init, SessionInit, Idle, Pending
<1>5. <<>> \in Seq(Line) /\ <<>> \in Seq(Chunk) /\ <<>> \in Seq(Text) /\ Len(<<>>) = 0
  OBVIOUS
<1>6. Typed
  BY <1>2, <1>3, <1>4, <1>5, NothingFits DEF Typed, FitConfig, Resting
<1>7. 1..0 = {} /\ Len(wire) = 0 /\ Len(back) = 0
  BY <1>4
<1>8. Oks = {} /\ Outs = {} /\ Won = 0 /\ Owed = 0
  BY <1>4, <1>7 DEF Oks, Outs, Won, Owed
<1>9. Cardinality({}) = 0
  BY FS_EmptySet
<1>10. Credit
  BY <1>3, <1>5, <1>8, <1>9 DEF Credit
<1>11. Prompts /\ Apart /\ Aimed /\ Owned
  BY <1>4, <1>7, <1>8 DEF Prompts, Apart, Aimed, Owned
<1>12. Attached /\ Descent /\ OwnOk /\ Landed /\ InHand
  BY <1>4 DEF Attached, Descent, OwnOk, Landed, InHand
<1> QED BY <1>6, <1>10, <1>11, <1>12 DEF LateInv

LEMMA LateStep == IInv /\ LateInv /\ [Next]_vars => LateInv'
<1> SUFFICES ASSUME IInv, LateInv, [Next]_vars PROVE LateInv'
  OBVIOUS
<1>0. Typed
  BY DEF LateInv
<1>1. CASE Invoke
  BY <1>0, <1>1, CallsInvoke, LateCalls
<1>2. CASE Issue
  BY <1>2, LateIssues
<1>3. CASE Use
  BY <1>3, LateUses
<1>4. CASE Turn
  BY <1>4, LateTurns
<1>5. CASE Session
  <2>1. UNCHANGED writerVars
    BY <1>5 DEF Session
  <2>2. CASE Executes
    BY <2>1, <2>2, LateExecutes
  <2>3. CASE Receive \/ TimesOut \/ StreamEnds
    BY <2>1, <2>3, LateReads DEF Reads
  <2>4. CASE stage \in Resting /\ Close
    BY <1>0, <2>1, <2>4, CallsClose, LateCalls
  <2> QED BY <1>5, <2>2, <2>3, <2>4 DEF Session
<1>6. CASE UNCHANGED vars
  BY <1>6 DEF vars, sessionVars, writerVars, LateInv, Typed, Prompts, Attached, Descent, Credit,
              Owned, Apart, OwnOk, Landed, InHand, Aimed, Clear, Oks, Outs, Won, Owed, Uniform,
              Mine, ExitBehind, There, Caught, Accepted, Broken, Idle
<1> QED BY <1>1, <1>2, <1>3, <1>4, <1>5, <1>6 DEF Next

(***************************************************************************)
(* The inductive invariant, in every behaviour: also after any number of   *)
(* timeouts, when the answers that a call reads are those of earlier       *)
(* lines.                                                                  *)
(***************************************************************************)
THEOREM LateInvariant == Spec => [](IInv /\ LateInv)
<1>1. Init => LateInv
  BY LateInit
<1>2. IInv /\ LateInv /\ [Next]_vars => LateInv'
  BY LateStep
<1> QED BY <1>1, <1>2, SessionInvariant, PTL DEF Spec

(***************************************************************************)
(* No more exits are under way or owed than the shell has levels: whatever *)
(* has timed out, _in_mode never takes the shell out of a mode that it has *)
(* not entered.                                                            *)
(***************************************************************************)
THEOREM ExitsWithinDepth == Spec => []Credit
BY LateInvariant, PTL DEF LateInv

(***************************************************************************)
(* A command for a port that is on its way to the switch finds the         *)
(* interface of that port selected when it arrives, late or not (_in_mode  *)
(* with interface_cmd).                                                    *)
(***************************************************************************)
THEOREM PortCommandsAimed == Spec => []Aimed
BY LateInvariant, PTL DEF LateInv

\* What every picture of the configuration shows of the protected ports: the
\* VLANs that they are in do not change.  b: they are not in the default VLAN.
Pictured(f, b) ==
    /\ \A p \in Protected :
         /\ f.pvid[p] = DefaultVlan
         /\ \A v \in Vlan :
              /\ p \in f.member[v] <=> (v = DefaultVlan) # b
              /\ p \in f.untagged[v] <=> (v = DefaultVlan) # b
    /\ DefaultVlan \in f.vlans
    /\ b /\ Protected # {} => f.vlans = Vlan

\* A line that leaves the protected ports alone.
Spares(c, b) ==
    /\ c.do \in InterfaceCommands =>
         c.port \notin Protected \/ (c.do \in {"admin", "poe"} /\ c.on)
    /\ c.do = "remove" /\ b /\ Protected # {} => c.vlan = DefaultVlan

IsDetail(x) == x.says = "table" /\ x.of.do = "detail"

\* What has been printed ends with a page of a VLAN, unless it has been read.
PageLast ==
    \/ back = <<>> \/ back = <<Prompt>>
    \/ Len(back) >= 2 /\ back[Len(back)] = Prompt /\ IsDetail(back[Len(back) - 1])

\* The last line that was sent.
LastSent(what) ==
    IF wire # <<>> THEN wire[Len(wire)].do = what
    ELSE shell.asking = "nothing" /\ (what = "detail" => PageLast)

\* The pages of the VLANs follow each other.
PagesOnWire ==
    \A k \in 1..Len(wire) : wire[k].do = "detail" =>
      IF k = 1 THEN shell.asking = "nothing" /\ (wire[k].vlan # DefaultVlan => PageLast)
      ELSE wire[k - 1].do = (IF wire[k].vlan = DefaultVlan THEN "brief" ELSE "detail")

PagesInBack ==
    \A i \in 1..Len(back) : IsDetail(back[i]) /\ back[i].of.vlan # DefaultVlan =>
      \/ i = 1 \/ (i = 2 /\ back[1] = Prompt)
      \/ i > 2 /\ back[i - 1] = Prompt /\ IsDetail(back[i - 2])

Before(c) == IF c.vlan = DefaultVlan THEN "brief" ELSE "detail"

PagesToSend ==
    /\ \A k \in 2..Len(todo) : todo[k].do = "detail" =>
         todo[k - 1].do = "detail" /\ todo[k].vlan # DefaultVlan
    /\ \A k \in 1..Len(agenda) : agenda[k].do # "detail"
    /\ ~Idle /\ agenda = <<>> /\ ~Broken /\ ~shell.down /\ awaiting.do \in {"brief", "detail"} =>
         LastSent(awaiting.do)
    /\ todo # <<>> /\ todo[1].do = "detail" /\ ~Broken =>
         /\ driver # "none" /\ agenda = <<>>
         /\ Idle /\ ~shell.down => LastSent(Before(todo[1]))
         /\ ~Idle => awaiting.do = "detail" /\ todo[1].vlan # DefaultVlan

Pages == (~shell.down => PagesOnWire) /\ PagesInBack /\ PagesToSend

Spared(b) ==
    /\ \A k \in 1..Len(wire) : Spares(wire[k], b)
    /\ stage = "pvids" => call.kind = "pvid"
    /\ stage \in {"enter", "body"} /\ call.kind = "delete" /\ b /\ Protected # {} =>
         call.vlan = DefaultVlan

Pictures(b) ==
    /\ Pictured(shell.config, b)
    /\ \A i \in 1..Len(back) : back[i].says = "table" => Pictured(back[i].at, b)
    /\ \A i \in 1..Len(answer.texts) : answer.texts[i].says = "table" => Pictured(answer.texts[i].at, b)

\* What the call has read of a VLAN names the protected ports that are in it.
Noticed(b) ==
    b => \A i \in 1..Len(got.infos) :
           got.infos[i].vlan \in Vlan \ {DefaultVlan} => Protected \subseteq got.infos[i].member

ShowsThem(t) ==
    \A m \in 1..Len(t) : IsDetail(t[m]) /\ t[m].of.vlan # DefaultVlan =>
       m = 1 \/ IsDetail(t[m - 1])

KeepOf(b) == Spared(b) /\ Pictures(b) /\ Noticed(b)

KeepInv == Pages /\ ShowsThem(answer.texts) /\ \E b \in BOOLEAN : KeepOf(b)

\* No call is forced to touch a protected port.
Unforced == Forced \cap (PortKinds \cup {"delete"}) = {}

-----------------------------------------------------------------------------
(***************************************************************************)
(* The protected ports: what a line does to them.                          *)
(***************************************************************************)
\* What no step does to a protected port.
Unharmed(f, g) ==
    \A p \in Protected :
      /\ g.pvid[p] = f.pvid[p]
      /\ \A v \in Vlan :
           /\ p \in g.member[v] <=> p \in f.member[v]
           /\ p \in g.untagged[v] <=> p \in f.untagged[v]
      /\ \A s \in PortSettings \ {"admin"} : g.setting[s][p] = f.setting[s][p]
      /\ f.setting["admin"][p] => g.setting["admin"][p]
      /\ g.power[p] = "off" => f.power[p] = "off"
      /\ p \in g.reset => p \in f.reset

LeavesThem(f, g, b) == Pictured(g, b) /\ Unharmed(f, g)

LEMMA SameLeaves ==
    ASSUME NEW f, NEW g, NEW b, Pictured(f, b), g.pvid = f.pvid, g.member = f.member,
           g.untagged = f.untagged, g.setting = f.setting, g.power = f.power, g.reset = f.reset,
           g.vlans = f.vlans
    PROVE  LeavesThem(f, g, b)
BY DEF LeavesThem, Pictured, Unharmed

LEMMA DatabaseLeaves ==
    ASSUME NEW f \in Config, NEW b \in BOOLEAN, Pictured(f, b), NEW c \in Line,
           c.do \in DatabaseCommands, ~DatabaseRejects(f, c), Spares(c, b)
    PROVE  LeavesThem(f, DatabaseEffect(f, c), b)
<1>1. c.vlan \in Vlan /\ DefaultVlan \in Vlan /\ Protected \subseteq Port
  BY LineDos, FastpathShellAssumption, CliCallsAssumption
<1>2. CASE c.do = "create"
  <2> DEFINE g == [f EXCEPT !.vlans = f.vlans \cup {c.vlan}]
  <2>1. DatabaseEffect(f, c) = g
    BY <1>2 DEF DatabaseEffect
  <2>2. /\ g.vlans = f.vlans \cup {c.vlan} /\ g.pvid = f.pvid /\ g.member = f.member
        /\ g.untagged = f.untagged /\ g.setting = f.setting /\ g.power = f.power
        /\ g.reset = f.reset
    BY DEF Config
  <2> HIDE DEF g
  <2> QED BY <1>1, <2>1, <2>2 DEF LeavesThem, Pictured, Unharmed
<1>3. CASE c.do = "name"
  <2>1. DatabaseEffect(f, c) = f
    BY <1>3 DEF DatabaseEffect
  <2> QED BY <2>1, SameLeaves
<1>4. CASE c.do = "remove"
  <2> DEFINE g == DatabaseEffect(f, c)
             pvids == [p \in Port |-> IF f.pvid[p] = c.vlan THEN DefaultVlan ELSE f.pvid[p]]
  <2>1. g = [f EXCEPT !.vlans = @ \ {c.vlan}, !.member[c.vlan] = {}, !.untagged[c.vlan] = {},
                      !.pvid = pvids]
    BY <1>4 DEF DatabaseEffect
  <2>2. c.vlan # DefaultVlan /\ (b => Protected = {})
    BY <1>4 DEF DatabaseRejects, Spares
  <2>3. /\ g.vlans = f.vlans \ {c.vlan} /\ g.pvid = pvids
        /\ g.setting = f.setting /\ g.power = f.power /\ g.reset = f.reset
    BY <2>1 DEF Config
  <2>4. \A v \in Vlan : /\ g.member[v] = IF v = c.vlan THEN {} ELSE f.member[v]
                        /\ g.untagged[v] = IF v = c.vlan THEN {} ELSE f.untagged[v]
    BY <1>1, <2>1 DEF Config
  <2>5. \A p \in Protected : pvids[p] = f.pvid[p]
    BY <1>1, <2>2 DEF Pictured
  <2> HIDE DEF g, pvids
  <2>6. \A p \in Protected, v \in Vlan : /\ p \in g.member[v] <=> p \in f.member[v]
                                         /\ p \in g.untagged[v] <=> p \in f.untagged[v]
    BY <2>2, <2>4 DEF Pictured
  <2>7. DefaultVlan \in g.vlans /\ (b /\ Protected # {} => g.vlans = Vlan)
    BY <1>1, <2>2, <2>3 DEF Pictured
  <2>8. Unharmed(f, g)
    BY <2>3, <2>5, <2>6 DEF Unharmed
  <2>9. Pictured(g, b)
    BY <2>3, <2>5, <2>6, <2>7 DEF Pictured
  <2> QED BY <2>8, <2>9 DEF LeavesThem, g
<1> QED BY <1>2, <1>3, <1>4 DEF DatabaseCommands

LEMMA InterfaceLeaves ==
    ASSUME NEW f \in Config, NEW b \in BOOLEAN, Pictured(f, b), NEW c \in Line,
           c.do \in InterfaceCommands, Spares(c, b), NEW p \in Port, p = c.port
    PROVE  LeavesThem(f, InterfaceEffect(f, c, p), b)
<1>1. Protected \subseteq Port /\ c.on \in BOOLEAN /\ (c.do \in VlanCommands => c.vlan \in Vlan)
  BY LineDos, CliCallsAssumption
<1>2. p \notin Protected \/ (c.do \in {"admin", "poe"} /\ c.on)
  BY DEF Spares
<1>3. CASE c.do \in PortSettings
  <2> DEFINE g == [f EXCEPT !.setting[c.do][p] = c.on]
  <2>1. InterfaceEffect(f, c, p) = g
    BY <1>3 DEF InterfaceEffect, PortSettings, VlanCommands
  <2>2. /\ g.vlans = f.vlans /\ g.pvid = f.pvid /\ g.member = f.member
        /\ g.untagged = f.untagged /\ g.power = f.power /\ g.reset = f.reset
    BY DEF Config
  <2>3. \A s \in PortSettings, q \in Port :
          g.setting[s][q] = IF s = c.do /\ q = p THEN c.on ELSE f.setting[s][q]
    BY <1>3 DEF Config
  <2> HIDE DEF g
  <2>4. "admin" \in PortSettings
    BY DEF PortSettings
  <2>5. \A q \in Protected : /\ \A s \in PortSettings \ {"admin"} : g.setting[s][q] = f.setting[s][q]
                             /\ f.setting["admin"][q] => g.setting["admin"][q]
    BY <1>1, <1>2, <1>3, <2>3, <2>4 DEF PortSettings
  <2>6. Pictured(g, b)
    BY <2>2 DEF Pictured
  <2>7. Unharmed(f, g)
    BY <2>2, <2>5 DEF Unharmed
  <2> QED BY <2>1, <2>6, <2>7 DEF LeavesThem
<1>4. CASE c.do = "general"
  <2> DEFINE g == [f EXCEPT !.general = @ \cup {p}]
  <2>1. InterfaceEffect(f, c, p) = g
    BY <1>4 DEF InterfaceEffect, PortSettings, VlanCommands
  <2>2. /\ g.vlans = f.vlans /\ g.pvid = f.pvid /\ g.member = f.member /\ g.setting = f.setting
        /\ g.untagged = f.untagged /\ g.power = f.power /\ g.reset = f.reset
    BY DEF Config
  <2> HIDE DEF g
  <2> QED BY <2>1, <2>2, SameLeaves
<1>5. CASE c.do = "poe"
  <2> DEFINE lag == IF c.on /\ f.power[p] = "off" THEN f.lag \cup {p} ELSE f.lag
             pow == IF c.on THEN "delivering" ELSE "off"
             g == [f EXCEPT !.power[p] = pow, !.lag = lag]
  <2>1. InterfaceEffect(f, c, p) = g
    BY <1>5 DEF InterfaceEffect, PortSettings, VlanCommands, SwitchPower
  <2> HIDE DEF lag
  <2>2. /\ g.vlans = f.vlans /\ g.pvid = f.pvid /\ g.member = f.member /\ g.setting = f.setting
        /\ g.untagged = f.untagged /\ g.reset = f.reset
    BY DEF Config
  <2>3. \A q \in Port : g.power[q] = IF q = p THEN pow ELSE f.power[q]
    BY DEF Config
  <2> HIDE DEF g
  <2>4. \A q \in Protected : g.power[q] = "off" => f.power[q] = "off"
    BY <1>1, <1>2, <2>3
  <2>5. Pictured(g, b)
    BY <2>2 DEF Pictured
  <2>6. Unharmed(f, g)
    BY <2>2, <2>4 DEF Unharmed
  <2> QED BY <2>1, <2>5, <2>6 DEF LeavesThem
<1>6. CASE c.do = "poeReset"
  <2> DEFINE pow == IF p \in f.draws THEN "delivering" ELSE "searching"
             g == [f EXCEPT !.power[p] = pow, !.reset = @ \cup {p}]
  <2>1. InterfaceEffect(f, c, p) = g
    BY <1>6 DEF InterfaceEffect, PortSettings, VlanCommands, ResetPower
  <2> HIDE DEF pow
  <2>2. /\ g.vlans = f.vlans /\ g.pvid = f.pvid /\ g.member = f.member /\ g.setting = f.setting
        /\ g.untagged = f.untagged /\ g.reset = f.reset \cup {p}
    BY DEF Config
  <2>3. \A q \in Port : g.power[q] = IF q = p THEN pow ELSE f.power[q]
    BY DEF Config
  <2> HIDE DEF g
  <2>4. p \notin Protected
    BY <1>2, <1>6
  <2>5. \A q \in Protected : g.power[q] = f.power[q] /\ (q \in g.reset => q \in f.reset)
    BY <1>1, <2>2, <2>3, <2>4
  <2>6. Pictured(g, b)
    BY <2>2 DEF Pictured
  <2>7. Unharmed(f, g)
    BY <2>2, <2>5 DEF Unharmed
  <2> QED BY <2>1, <2>6, <2>7 DEF LeavesThem
<1>7. CASE c.do \in VlanCommands
  <2>1. InterfaceEffect(f, c, p) = VlanEffect(f, c, p)
    BY <1>7 DEF InterfaceEffect, PortSettings, VlanCommands
  <2>2. p \notin Protected
    BY <1>2, <1>7 DEF VlanCommands
  <2> DEFINE Only(g) == /\ g.vlans = f.vlans /\ g.setting = f.setting /\ g.power = f.power
                        /\ g.reset = f.reset
                        /\ \A q \in Port \ {p} :
                             /\ g.pvid[q] = f.pvid[q]
                             /\ \A v \in Vlan : /\ q \in g.member[v] <=> q \in f.member[v]
                                                /\ q \in g.untagged[v] <=> q \in f.untagged[v]
  <2>3. \A g : Only(g) => LeavesThem(f, g, b)
    <3> SUFFICES ASSUME NEW g, Only(g) PROVE LeavesThem(f, g, b)
      OBVIOUS
    <3>1. \A q \in Protected : /\ g.pvid[q] = f.pvid[q]
                               /\ \A v \in Vlan : /\ q \in g.member[v] <=> q \in f.member[v]
                                                  /\ q \in g.untagged[v] <=> q \in f.untagged[v]
      BY <1>1, <2>2
    <3>2. Pictured(g, b)
      BY <3>1 DEF Pictured
    <3>3. Unharmed(f, g)
      BY <3>1 DEF Unharmed
    <3> QED BY <3>2, <3>3 DEF LeavesThem
  <2>4. Only(f)
    OBVIOUS
  <2>5. Only([f EXCEPT !.member[c.vlan] = @ \cup {p}, !.untagged[c.vlan] = @ \cup {p}])
    BY <1>1, <1>7 DEF Config
  <2>6. Only([f EXCEPT !.member[c.vlan] = @ \ {p}, !.untagged[c.vlan] = @ \ {p}])
    BY <1>1, <1>7 DEF Config
  <2>7. /\ Only([f EXCEPT !.untagged[c.vlan] = @ \ {p}])
        /\ Only([f EXCEPT !.untagged[c.vlan] = @ \cup {p}])
    BY <1>1, <1>7 DEF Config
  <2>8. Only([f EXCEPT !.pvid[p] = c.vlan])
    BY <1>1, <1>7 DEF Config
  <2> HIDE DEF Only
  <2>9. Only(VlanEffect(f, c, p))
    BY <1>7, <2>4, <2>5, <2>6, <2>7, <2>8 DEF VlanEffect, VlanCommands
  <2> QED BY <2>1, <2>3, <2>9
<1> QED BY <1>3, <1>4, <1>5, <1>6, <1>7 DEF InterfaceCommands

LEMMA GlobalLeaves ==
    ASSUME NEW f \in Config, NEW b, Pictured(f, b), NEW c \in Line, c.do \in GlobalCommands
    PROVE  LeavesThem(f, GlobalEffect(f, c), b)
<1> DEFINE Only(g) == /\ g.pvid = f.pvid /\ g.member = f.member
                      /\ g.untagged = f.untagged /\ g.setting = f.setting /\ g.power = f.power
                      /\ g.reset = f.reset /\ g.vlans = f.vlans
<1>1. \A g : Only(g) => LeavesThem(f, g, b)
  BY SameLeaves
<1>2. /\ \A x : Only([f EXCEPT !.rows = x])
      /\ \A x, k : Only([f EXCEPT !.global[k] = x])
      /\ \A x, y : Only([f EXCEPT !.global["address"] = x, !.global["gateway"] = y])
  BY DEF Config
<1> HIDE DEF Only
<1>3. CASE c.do \in Globals
  BY <1>1, <1>2, <1>3 DEF GlobalEffect, Globals
<1>4. CASE c.do = "addHost"
  BY <1>1, <1>2, <1>4 DEF GlobalEffect, Globals
<1>5. CASE c.do = "removeHost"
  BY <1>1, <1>2, <1>5 DEF GlobalEffect, Globals
<1> QED BY <1>3, <1>4, <1>5 DEF GlobalCommands

\* Whatever a line does, and whatever the shell asks.
LEMMA OutcomeLeaves ==
    ASSUME NEW s \in Shell, NEW b \in BOOLEAN, Pictured(s.config, b), NEW c \in Line, Spares(c, b),
           NEW t, NEW out, Outcome(s, c, t, out), c.do \in InterfaceCommands => s.port = c.port
    PROVE  /\ LeavesThem(s.config, t.config, b)
           /\ \A i \in 1..Len(out) : out[i].says = "table" => Pictured(out[i].at, b)
<1> DEFINE f == s.config
<1>1. f \in Config
  BY DEF Shell
<1>2. LeavesThem(f, f, b)
  BY SameLeaves
<1>3. LeavesThem(f, t.config, b)
  <2>1. CASE Resolves(s, t, out)
    <3>1. PICK a \in BOOLEAN : t.config \in {f, [f EXCEPT !.certificate = a], [f EXCEPT !.saved = a]}
      BY <2>1 DEF Resolves
    <3>2. CASE t.config = [f EXCEPT !.certificate = a]
      BY <1>1, <3>2, SameLeaves DEF Config
    <3>3. CASE t.config = [f EXCEPT !.saved = a]
      BY <1>1, <3>3, SameLeaves DEF Config
    <3> QED BY <1>2, <3>1, <3>2, <3>3
  <2>2. CASE Looks(s, c, t, out)
    <3>1. CASE t.config = [f EXCEPT !.lag = {}]
      BY <1>1, <3>1, SameLeaves DEF Config
    <3> QED BY <1>2, <2>2, <3>1 DEF Looks
  <2>3. CASE Works(s, c, t, out)
    <3>1. CASE c.do \in DatabaseCommands
      BY <1>1, <2>3, <3>1, DatabaseLeaves DEF Works
    <3>2. CASE c.do \in InterfaceCommands
      <4>1. c.port \in Port
        BY <3>2, LineDos
      <4> QED BY <1>1, <2>3, <3>2, <4>1, InterfaceLeaves DEF Works
    <3>3. CASE c.do \in GlobalCommands
      BY <1>1, <2>3, <3>3, GlobalLeaves DEF Works
    <3> QED BY <2>3, <3>1, <3>2, <3>3 DEF Works, BodyDos
  <2>4. CASE Passes(s, c, t, out)
    <3>1. CASE c.do = "https"
      <4>1. t.config = [f EXCEPT !.https = c.on]
        BY <2>4, <3>1 DEF Passes
      <4> QED BY <1>1, <4>1, SameLeaves DEF Config
    <3> QED BY <1>2, <2>4, <3>1 DEF Passes
  <2>5. CASE t.config = f
    BY <1>2, <2>5
  <2> QED BY <2>1, <2>2, <2>3, <2>4, <2>5 DEF Outcome, Refuses, Queries, Descends, Climbs
<1>4. ASSUME NEW i \in 1..Len(out), out[i].says = "table" PROVE Pictured(out[i].at, b)
  <2>1. \A x, y : Len(<<>>) = 0 /\ Len(<<x>>) = 1 /\ <<x>>[1] = x /\ Len(<<x, y>>) = 2
                  /\ <<x, y>>[1] = x /\ <<x, y>>[2] = y
    OBVIOUS
  <2>2. Prompt.says = "prompt" /\ \A x, what : Says(x, what).says = what
    BY PromptSays DEF Says
  <2>3. CASE out = <<>>
    BY <1>4, <2>1, <2>3
  <2>4. CASE out = <<Prompt>>
    <3>1. i = 1 /\ out[1] = Prompt
      BY <2>1, <2>4
    <3> QED BY <1>4, <2>2, <3>1
  <2>5. CASE \E x, what : what # "table" /\ out = <<Says(x, what), Prompt>>
    <3>1. PICK x, what : what # "table" /\ out = <<Says(x, what), Prompt>>
      BY <2>5
    <3>2. out[1] = Says(x, what) /\ out[2] = Prompt /\ i \in {1, 2}
      BY <2>1, <3>1
    <3> QED BY <1>4, <2>2, <3>1, <3>2
  <2>6. CASE \E x, what : what # "table" /\ out = <<Says(x, what)>>
    <3>1. PICK x, what : what # "table" /\ out = <<Says(x, what)>>
      BY <2>6
    <3>2. out[1] = Says(x, what) /\ i = 1
      BY <2>1, <3>1
    <3> QED BY <1>4, <2>2, <3>1, <3>2
  <2>7. CASE out = <<Page(s, c), Prompt>>
    <3>1. out[1] = Page(s, c) /\ out[2] = Prompt /\ i \in {1, 2}
      BY <2>1, <2>7
    <3>2. Page(s, c).at = f
      BY DEF Page
    <3> QED BY <1>4, <2>2, <3>1, <3>2
  <2>8. "success" # "table" /\ "failure" # "table" /\ "error" # "table" /\ "nothing" # "table"
        /\ "question" # "table" /\ "password" # "table"
    OBVIOUS
  <2> QED BY <2>3, <2>4, <2>5, <2>6, <2>7, <2>8
          DEF Outcome, Resolves, Refuses, Queries, Descends, Climbs, Looks, Works, Passes, Quietly
<1> QED BY <1>3, <1>4

-----------------------------------------------------------------------------
(***************************************************************************)
(* The lines of a call leave the protected ports alone, unless the call is *)
(* forced.                                                                 *)
(***************************************************************************)
LEMMA PlainSpares ==
    ASSUME NEW c, NEW b, c.do \notin InterfaceCommands \cup {"remove"}
    PROVE  Spares(c, b)
BY DEF Spares

LEMMA HarmlessSpares ==
    ASSUME NEW c, NEW b, c.do \in Harmless \cup EnterDos \cup {"exit"}
    PROVE  Spares(c, b)
<1>1. c.do \notin InterfaceCommands \cup {"remove"}
  BY DEF Harmless, EnterDos, Shows, ExecCommands, SetupCommands, InterfaceCommands, VlanCommands,
         PortSettings
<1> QED BY <1>1, PlainSpares

LEMMA BodySpares ==
    ASSUME Unforced, NEW c \in Calls, ~GuardRaises(c), c.kind \notin {"reboot", "deploy"},
           NEW row \in Nat, NEW b, c.kind = "delete" /\ b /\ Protected # {} => c.vlan = DefaultVlan,
           NEW m \in 1..Len(BodyCommands(c, row)), NEW x, x = BodyCommands(c, row)[m]
    PROVE  Spares(x, b)
<1>1. c \in Call /\ c.force = (c.kind \in Forced)
  BY DEF Calls
<1>2. /\ x.do \in InterfaceCommands <=> c.kind \in PortKinds
      /\ x.do \in InterfaceCommands => x.port = c.port
      /\ x.do \in DatabaseCommands <=> c.kind \in {"create", "delete"}
  BY <1>1, BodyLine
<1>3. ASSUME x.do \in InterfaceCommands
      PROVE  x.port \notin Protected \/ (x.do \in {"admin", "poe"} /\ x.on)
  <2>1. c.kind \in PortKinds /\ x.port = c.port /\ ~c.force
    BY <1>1, <1>2, <1>3 DEF Unforced
  <2>2. CASE c.kind \in {"admin", "poe"}
    <3>1. c.port \notin Protected \/ c.on
      BY <2>1, <2>2 DEF GuardRaises
    <3>2. BodyCommands(c, row) = <<Set(c.kind, c.port, c.on)>>
      BY <2>2 DEF BodyCommands, PortSettings
    <3>3. x = Set(c.kind, c.port, c.on)
      <4>1. \A y : Len(<<y>>) = 1 /\ <<y>>[1] = y
        OBVIOUS
      <4>2. Len(BodyCommands(c, row)) = 1 /\ BodyCommands(c, row)[1] = Set(c.kind, c.port, c.on)
        BY <3>2, <4>1
      <4>3. m = 1
        BY <4>2
      <4> QED BY <4>2, <4>3
    <3>4. x.do = c.kind /\ x.on = c.on
      BY <3>3 DEF Set, Do
    <3> QED BY <2>1, <2>2, <3>1, <3>4
  <2>3. CASE c.kind \notin {"admin", "poe"}
    <3>1. c.port \notin Protected
      BY <2>1, <2>3 DEF GuardRaises
    <3> QED BY <2>1, <3>1
  <2> QED BY <2>2, <2>3
<1>4. ASSUME x.do = "remove", b, Protected # {}
      PROVE  x.vlan = DefaultVlan
  <2>1. c.kind \in {"create", "delete"}
    BY <1>2, <1>4 DEF DatabaseCommands
  <2>2. \A y, z : Len(<<y>>) = 1 /\ <<y>>[1] = y /\ Len(<<y, z>>) = 2 /\ <<y, z>>[1] = y
                  /\ <<y, z>>[2] = z
    OBVIOUS
  <2>3. CASE c.kind = "create"
    <3>1. BodyCommands(c, row) = <<OnVlan("create", c.vlan), OnVlan("name", c.vlan)>>
      BY <2>3 DEF BodyCommands, PortSettings
    <3>2. m \in {1, 2} /\ x \in {OnVlan("create", c.vlan), OnVlan("name", c.vlan)}
      BY <2>2, <3>1
    <3>3. x.do # "remove"
      BY <3>2 DEF OnVlan, Do
    <3> QED BY <1>4, <3>3
  <2>4. CASE c.kind = "delete"
    <3>1. BodyCommands(c, row) = <<OnVlan("remove", c.vlan)>>
      BY <2>4 DEF BodyCommands, PortSettings
    <3>2. Len(BodyCommands(c, row)) = 1 /\ BodyCommands(c, row)[1] = OnVlan("remove", c.vlan)
      BY <2>2, <3>1
    <3>3. m = 1
      BY <3>2
    <3>4. x.vlan = c.vlan
      BY <3>2, <3>3 DEF OnVlan, Do
    <3> QED BY <1>4, <2>4, <3>4
  <2> QED BY <2>1, <2>3, <2>4
<1> QED BY <1>3, <1>4 DEF Spares

\* What is still to be run.
LEMMA TodoSpares ==
    ASSUME Unforced, Typed, StageFits, Descent, NEW b, Spared(b), NEW k \in 1..Len(todo)
    PROVE  Spares(todo[k], b)
<1>1. stage \notin Resting
  <2>1. Len(<<>>) = 0
    OBVIOUS
  <2> QED BY <2>1 DEF StageFits
<1>2. CASE stage = "body"
  <2> DEFINE cmds == BodyCommands(call, victim)
             n == Len(cmds) - Len(todo)
  <2>1. n \in 0..Len(cmds) /\ todo[k] = cmds[n + k]
    BY <1>2 DEF Descent
  <2>2. call \in Calls /\ ~GuardRaises(call) /\ call.kind \notin {"reboot", "deploy"} /\ victim \in Nat
        /\ call \in Call
    BY <1>1, <1>2, DeepCall
  <2>3. Len(cmds) \in Nat /\ Len(todo) \in Nat
    BY <2>2, BodyIs DEF Typed
  <2> HIDE DEF cmds
  <2>4. n + k \in 1..Len(cmds)
    BY <2>1, <2>3
  <2>5. call.kind = "delete" /\ b /\ Protected # {} => call.vlan = DefaultVlan
    BY <1>2 DEF Spared
  <2> QED BY <2>1, <2>2, <2>4, <2>5, BodySpares DEF cmds
<1>3. CASE stage # "body"
  <2>1. todo[k].do \in Dos(stage) /\ stage \in Stage
    <3>1. Batch(todo, stage) /\ stage \in Stage
      BY DEF StageFits
    <3>2. todo[k] \in Range(todo)
      BY DEF Range, Typed
    <3> QED BY <3>1, <3>2 DEF Batch, Proper
  <2>2. todo[k].do \in Harmless \cup EnterDos \cup {"exit"}
    BY <1>1, <1>3, <2>1, DosOf DEF Stage, Harmless, EnterDos, ExecCommands
  <2> QED BY <2>2, HarmlessSpares
<1> QED BY <1>2, <1>3

-----------------------------------------------------------------------------
(***************************************************************************)
(* The pages of the VLANs, as the switch prints them.                      *)
(***************************************************************************)
LEMMA ExecTail ==
    ASSUME Executes
    PROVE  ~shell.down /\ (~shell'.down => wire' = Tail(wire)) /\ (shell'.down => wire' = <<>>)
BY DEF Executes

\* What a show command prints when nothing is asked.
LEMMA ShowPrints ==
    ASSUME NEW s, NEW c, c.do \in Shows, NEW t, NEW out, Outcome(s, c, t, out)
    PROVE  /\ t.asking = "nothing"
           /\ s.asking = "nothing" => out = <<Page(s, c), Prompt>>
<1>1. c.do \notin Questions \cup EnterDos \cup BodyDos
        \cup {"exit", "https", "paging", "enable", "password"}
  BY DEF Shows, Questions, ExecCommands, EnterDos, BodyDos, DatabaseCommands, InterfaceCommands,
         GlobalCommands, Globals, VlanCommands, PortSettings
<1>2. s.asking = "nothing" => ~Resolves(s, t, out)
  <2>1. "nothing" \notin Questions
    BY DEF Questions, ExecCommands
  <2> QED BY <2>1 DEF Resolves
<1>3. Resolves(s, t, out) \/ Looks(s, c, t, out)
  BY <1>1 DEF Outcome, Refuses, Queries, Descends, Climbs, Works, Passes
<1> QED BY <1>2, <1>3 DEF Resolves, Looks

\* A page that is printed is the picture of the present configuration.
LEMMA TablePrinted ==
    ASSUME NEW s, NEW c, NEW t, NEW out, Outcome(s, c, t, out), NEW i \in 1..Len(out),
           out[i].says = "table"
    PROVE  i = 1 /\ c.do \in Shows /\ s.asking = "nothing" /\ out = <<Page(s, c), Prompt>>
<1>1. \A x, y : Len(<<>>) = 0 /\ Len(<<x>>) = 1 /\ <<x>>[1] = x /\ Len(<<x, y>>) = 2
                /\ <<x, y>>[1] = x /\ <<x, y>>[2] = y
  OBVIOUS
<1>2. Prompt.says = "prompt" /\ \A x, what : Says(x, what).says = what
  BY PromptSays DEF Says
<1>3. out # <<>> /\ out # <<Prompt>>
  BY <1>1, <1>2
<1>4. ASSUME NEW x, NEW what, what # "table"
      PROVE  out # <<Says(x, what), Prompt>> /\ out # <<Says(x, what)>>
  <2>1. out # <<Says(x, what), Prompt>>
    <3> SUFFICES ASSUME out = <<Says(x, what), Prompt>> PROVE FALSE
      OBVIOUS
    <3>1. out[1] = Says(x, what) /\ out[2] = Prompt /\ i \in {1, 2}
      BY <1>1
    <3> QED BY <1>2, <1>4, <3>1
  <2>2. out # <<Says(x, what)>>
    <3> SUFFICES ASSUME out = <<Says(x, what)>> PROVE FALSE
      OBVIOUS
    <3>1. out[1] = Says(x, what) /\ i = 1
      BY <1>1
    <3> QED BY <1>2, <1>4, <3>1
  <2> QED BY <2>1, <2>2
<1>5. "success" # "table" /\ "failure" # "table" /\ "error" # "table" /\ "nothing" # "table"
      /\ "question" # "table" /\ "password" # "table"
  OBVIOUS
<1>6. Looks(s, c, t, out)
  BY <1>3, <1>4, <1>5
     DEF Outcome, Resolves, Refuses, Queries, Descends, Climbs, Works, Passes, Quietly
<1>7. out = <<Page(s, c), Prompt>> /\ c.do \in Shows /\ s.asking = "nothing"
  BY <1>6 DEF Looks
<1>8. i = 1
  <2>1. out[2] = Prompt /\ i \in {1, 2}
    BY <1>1, <1>7
  <2> QED BY <1>2, <2>1
<1> QED BY <1>7, <1>8

LEMMA PageIs ==
    ASSUME NEW s, NEW c
    PROVE  /\ c.do = "detail" => IsDetail(Page(s, c))
           /\ IsDetail(Page(s, c)) => c.do = "detail" /\ Page(s, c).of = c
           /\ Page(s, c).says = "table" /\ Page(s, c).at = s.config
           /\ ~IsDetail(Prompt) /\ Prompt.says # "table" /\ Page(s, c) # Prompt
<1>1. Prompt.says = "prompt"
  BY PromptSays
<1> QED BY <1>1 DEF Page, IsDetail

\* The end of what has been printed, after one more page.
LEMMA PageAdded ==
    ASSUME back \in Seq(Chunk), NEW s, NEW c, c.do = "detail",
           back' \in Seq(Chunk), back' = back \o <<Page(s, c), Prompt>>
    PROVE  PageLast'
<1> DEFINE out == <<Page(s, c), Prompt>>
           n == Len(back)
<1>1. Len(out) = 2 /\ out[1] = Page(s, c) /\ out[2] = Prompt /\ n \in Nat
  OBVIOUS
<1>2. back' = back \o out /\ out \in Seq({Page(s, c), Prompt}) /\ back \in Seq(Chunk)
  OBVIOUS
<1> HIDE DEF out
<1>3. Len(back') = n + 2 /\ back'[n + 1] = out[1] /\ back'[n + 2] = out[2]
  <2>1. Len(back') = n + Len(out) /\ \A i \in 1..Len(out) : back'[n + i] = out[i]
    BY <1>1, <1>2
  <2>2. 1 \in 1..Len(out) /\ 2 \in 1..Len(out)
    BY <1>1
  <2> QED BY <1>1, <2>1, <2>2
<1>4. IsDetail(Page(s, c))
  BY PageIs
<1> HIDE DEF n
<1>5. n + 2 >= 2 /\ (n + 2) - 1 = n + 1
  BY <1>1 DEF n
<1>6. Len(back') >= 2 /\ back'[Len(back')] = Prompt /\ IsDetail(back'[Len(back') - 1])
  BY <1>1, <1>3, <1>4, <1>5
<1> QED BY <1>6 DEF PageLast

LEMMA LastSentExecutes ==
    ASSUME Typed, Aimed, PagesOnWire, NEW what \in {"brief", "detail"}, LastSent(what),
           Executes, ~shell'.down
    PROVE  LastSent(what)'
<1>1. wire \in Seq(Line) /\ wire # <<>> /\ wire' = Tail(wire) /\ back \in Seq(Chunk)
  BY ExecTail, ExecOf DEF Typed
<1>2. /\ wire' \in Seq(Line) /\ Len(wire) \in Nat /\ Len(wire') \in Nat
      /\ Len(wire) >= 1 /\ Len(wire') = Len(wire) - 1
      /\ \A k \in 1..Len(wire') : wire'[k] = wire[k + 1]
  BY <1>1, Rest
<1>3. wire[Len(wire)].do = what
  BY <1>1 DEF LastSent
<1>4. CASE wire' # <<>>
  <2>1. Len(wire') >= 1
    BY <1>2, <1>4, EmptySeq
  <2>2. wire'[Len(wire')] = wire[Len(wire)]
    BY <1>2, <2>1
  <2> QED BY <1>3, <1>4, <2>2 DEF LastSent
<1>5. CASE wire' = <<>>
  <2>1. Len(wire) = 1
    BY <1>2, <1>5, EmptySeq
  <2>2. wire[1].do = what /\ what \in Shows
    BY <1>3, <2>1 DEF Shows
  <2>3. PICK out \in Seq(Chunk) : Outcome(shell, wire[1], shell', out) /\ back' = back \o out
    BY ExecOf
  <2>4. shell'.asking = "nothing"
    BY <2>2, <2>3, ShowPrints
  <2>5. ASSUME what = "detail" PROVE PageLast'
    <3>1. 1 \in 1..Len(wire)
      BY <2>1
    <3>2. shell.asking = "nothing"
      BY <2>2, <2>5, <3>1 DEF PagesOnWire
    <3>3. out = <<Page(shell, wire[1]), Prompt>>
      BY <2>2, <2>3, <3>2, ShowPrints
    <3>4. back' \in Seq(Chunk)
      BY <1>1, <2>3, Joined
    <3> QED BY <1>1, <2>2, <2>3, <2>5, <3>3, <3>4, PageAdded
  <2> QED BY <1>5, <2>4, <2>5 DEF LastSent
<1> QED BY <1>4, <1>5

LEMMA WireExecutes ==
    ASSUME Typed, Aimed, PagesOnWire, Executes, ~shell'.down
    PROVE  PagesOnWire'
<1>1. wire \in Seq(Line) /\ wire # <<>> /\ wire' = Tail(wire) /\ back \in Seq(Chunk)
  BY ExecTail, ExecOf DEF Typed
<1>2. /\ wire' \in Seq(Line) /\ Len(wire) \in Nat /\ Len(wire') \in Nat
      /\ Len(wire) >= 1 /\ Len(wire') = Len(wire) - 1
      /\ \A k \in 1..Len(wire') : wire'[k] = wire[k + 1] /\ k + 1 \in 1..Len(wire)
  BY <1>1, Rest
<1> SUFFICES ASSUME NEW k \in 1..Len(wire'), wire'[k].do = "detail"
             PROVE  IF k = 1
                    THEN shell'.asking = "nothing" /\ (wire'[k].vlan # DefaultVlan => PageLast')
                    ELSE wire'[k - 1].do = (IF wire'[k].vlan = DefaultVlan THEN "brief" ELSE "detail")
  BY DEF PagesOnWire
<1>3. /\ k + 1 \in 1..Len(wire) /\ wire'[k] = wire[k + 1] /\ k + 1 # 1 /\ (k + 1) - 1 = k
      /\ wire[k + 1].do = "detail"
  BY <1>2
<1>4. wire[k].do = (IF wire'[k].vlan = DefaultVlan THEN "brief" ELSE "detail")
  BY <1>3 DEF PagesOnWire
<1>5. CASE k # 1
  <2>1. k - 1 \in 1..Len(wire') /\ wire'[k - 1] = wire[k]
    BY <1>2, <1>5
  <2> QED BY <1>4, <1>5, <2>1
<1>6. CASE k = 1
  <2>1. wire[1].do \in {"brief", "detail"} /\ wire[1].do \in Shows /\ 1 \in 1..Len(wire)
    BY <1>2, <1>4, <1>6 DEF Shows
  <2>2. PICK out \in Seq(Chunk) : Outcome(shell, wire[1], shell', out) /\ back' = back \o out
    BY ExecOf
  <2>3. shell'.asking = "nothing"
    BY <2>1, <2>2, ShowPrints
  <2>4. ASSUME wire'[k].vlan # DefaultVlan PROVE PageLast'
    <3>1. wire[1].do = "detail"
      BY <1>4, <1>6, <2>4
    <3>2. shell.asking = "nothing"
      BY <2>1, <3>1 DEF PagesOnWire
    <3>3. out = <<Page(shell, wire[1]), Prompt>>
      BY <2>1, <2>2, <3>2, ShowPrints
    <3>4. back' \in Seq(Chunk)
      BY <1>1, <2>2, Joined
    <3> QED BY <1>1, <2>2, <3>1, <3>3, <3>4, PageAdded
  <2> QED BY <1>6, <2>3, <2>4
<1> QED BY <1>5, <1>6

LEMMA BackExecutes ==
    ASSUME Typed, Aimed, PagesOnWire, PagesInBack, Executes
    PROVE  PagesInBack'
<1>1. wire \in Seq(Line) /\ wire # <<>> /\ back \in Seq(Chunk) /\ Len(back) \in Nat
      /\ Len(wire) >= 1
  BY ExecOf, Rest DEF Typed
<1>2. PICK out \in Seq(Chunk) : Outcome(shell, wire[1], shell', out) /\ back' = back \o out
  BY ExecOf
<1>3. /\ Len(out) \in Nat /\ Len(back') = Len(back) + Len(out)
      /\ \A i \in 1..Len(back) : back'[i] = back[i]
      /\ \A i \in 1..Len(out) : back'[Len(back) + i] = out[i]
  BY <1>1, <1>2, Joined
<1> SUFFICES ASSUME NEW i \in 1..Len(back'), IsDetail(back'[i]), back'[i].of.vlan # DefaultVlan
             PROVE  \/ i = 1 \/ (i = 2 /\ back'[1] = Prompt)
                    \/ i > 2 /\ back'[i - 1] = Prompt /\ IsDetail(back'[i - 2])
  BY DEF PagesInBack
<1>4. CASE i \in 1..Len(back)
  <2>1. back'[i] = back[i]
    BY <1>3, <1>4
  <2>2. \/ i = 1 \/ (i = 2 /\ back[1] = Prompt)
        \/ i > 2 /\ back[i - 1] = Prompt /\ IsDetail(back[i - 2])
    BY <1>4, <2>1 DEF PagesInBack
  <2>3. i = 2 => 1 \in 1..Len(back)
    BY <1>1, <1>4
  <2>4. i > 2 => i - 1 \in 1..Len(back) /\ i - 2 \in 1..Len(back)
    BY <1>1, <1>4
  <2> QED BY <1>3, <2>2, <2>3, <2>4
<1>5. CASE i \notin 1..Len(back)
  <2>1. i - Len(back) \in 1..Len(out) /\ Len(back) + (i - Len(back)) = i
    BY <1>1, <1>3, <1>5
  <2>2. out[i - Len(back)] = back'[i]
    BY <1>3, <2>1
  <2>3. out[i - Len(back)].says = "table"
    BY <2>2 DEF IsDetail
  <2>4. i - Len(back) = 1 /\ shell.asking = "nothing" /\ out = <<Page(shell, wire[1]), Prompt>>
    BY <1>2, <2>1, <2>3, TablePrinted
  <2>5. back'[i] = Page(shell, wire[1])
    <3>1. out[1] = Page(shell, wire[1])
      BY <2>4
    <3> QED BY <2>2, <2>4, <3>1
  <2>6. wire[1].do = "detail" /\ wire[1].vlan # DefaultVlan
    BY <2>5, PageIs
  <2>7. PageLast
    <3>1. 1 \in 1..Len(wire)
      BY <1>1
    <3> QED BY <2>6, <3>1 DEF PagesOnWire
  <2>8. i = Len(back) + 1
    BY <1>1, <2>4
  <2>9. CASE back = <<>>
    BY <2>8, <2>9
  <2>10. CASE back = <<Prompt>>
    <3>1. Len(back) = 1 /\ back[1] = Prompt
      BY <2>10
    <3>2. back'[1] = Prompt /\ i = 2
      BY <1>3, <2>8, <3>1
    <3> QED BY <3>2
  <2>11. CASE Len(back) >= 2 /\ back[Len(back)] = Prompt /\ IsDetail(back[Len(back) - 1])
    <3>1. i > 2 /\ i - 1 = Len(back) /\ i - 2 = Len(back) - 1 /\ i - 1 \in 1..Len(back)
          /\ i - 2 \in 1..Len(back)
      BY <1>1, <2>8, <2>11
    <3> QED BY <1>3, <2>11, <3>1
  <2> QED BY <2>7, <2>9, <2>10, <2>11 DEF PageLast
<1> QED BY <1>4, <1>5

LEMMA PagesExecutes ==
    ASSUME Typed, Aimed, Pages, Executes, UNCHANGED writerVars
    PROVE  Pages'
<1>1. ~shell.down /\ UNCHANGED <<driver, agenda, awaiting, answer, todo>>
  BY ExecTail, ExecOf DEF writerVars
<1>2. PagesOnWire /\ PagesInBack /\ PagesToSend
  BY <1>1 DEF Pages
<1>3. ~shell'.down => PagesOnWire'
  BY <1>2, WireExecutes
<1>4. PagesInBack'
  BY <1>2, BackExecutes
<1>5. (Broken' <=> Broken) /\ (Idle' <=> Idle)
  BY <1>1 DEF Broken, Idle
<1>6. \A what \in {"brief", "detail"} : LastSent(what) /\ ~shell'.down => LastSent(what)'
  BY <1>2, LastSentExecutes
<1>7. PagesToSend'
  <2>1. ASSUME ~Idle', agenda' = <<>>, ~Broken', ~shell'.down, awaiting'.do \in {"brief", "detail"}
        PROVE  LastSent(awaiting.do)'
    BY <1>1, <1>2, <1>5, <1>6, <2>1 DEF PagesToSend
  <2>2. ASSUME todo' # <<>>, todo'[1].do = "detail", ~Broken'
        PROVE  /\ driver' # "none" /\ agenda' = <<>>
               /\ Idle' /\ ~shell'.down => LastSent(Before(todo[1]))'
               /\ ~Idle' => awaiting'.do = "detail" /\ todo'[1].vlan # DefaultVlan
    <3>1. Before(todo[1]) \in {"brief", "detail"} /\ Before(todo[1])' = Before(todo[1])
      BY <1>1 DEF Before
    <3> QED BY <1>1, <1>2, <1>5, <1>6, <2>2, <3>1 DEF PagesToSend
  <2> QED BY <1>1, <1>2, <2>1, <2>2 DEF PagesToSend, LastSent, Before
<1> QED BY <1>3, <1>4, <1>7 DEF Pages

LEMMA PageLastRead ==
    ASSUME Typed, NEW n, ReadOf(n), PageLast
    PROVE  PageLast'
<1>1. /\ back' \in Seq(Chunk) /\ Len(back') \in Nat /\ Len(back) \in Nat /\ n \in Nat
      /\ Len(back') = Len(back) - n
      /\ \A i \in 1..Len(back') : back'[i] = back[i + n] /\ i + n \in 1..Len(back)
  BY ReadEnds
<1>2. Len(back') = 0 => back' = <<>>
  BY <1>1, EmptySeq
<1>3. Len(back') = 1 /\ back'[1] = Prompt => back' = <<Prompt>>
  BY <1>1
<1>4. CASE back = <<>>
  <2>1. Len(back) = 0
    BY <1>4
  <2> QED BY <1>1, <1>2, <2>1 DEF PageLast
<1>5. CASE back = <<Prompt>>
  <2>1. Len(back) = 1 /\ back[1] = Prompt
    BY <1>5
  <2>2. CASE Len(back') = 0
    BY <1>2, <2>2 DEF PageLast
  <2>3. CASE Len(back') # 0
    <3>1. Len(back') = 1 /\ back'[1] = Prompt
      BY <1>1, <2>1, <2>3
    <3> QED BY <1>3, <3>1 DEF PageLast
  <2> QED BY <2>2, <2>3
<1>6. CASE Len(back) >= 2 /\ back[Len(back)] = Prompt /\ IsDetail(back[Len(back) - 1])
  <2>1. CASE Len(back') = 0
    BY <1>2, <2>1 DEF PageLast
  <2>2. CASE Len(back') = 1
    <3>0. 1 \in 1..Len(back')
      BY <2>2
    <3>2. back'[1] = back[1 + n]
      BY <1>1, <3>0
    <3>3. 1 + n = Len(back)
      <4>1. \A a, b, c \in Nat : a = b - c /\ a = 1 => 1 + c = b
        OBVIOUS
      <4> QED BY <1>1, <2>2, <4>1
    <3>1. 1 + n = Len(back) /\ back'[1] = back[1 + n]
      BY <3>2, <3>3
    <3> QED BY <1>3, <1>6, <2>2, <3>1 DEF PageLast
  <2>3. CASE Len(back') >= 2
    <3>1. /\ Len(back') + n = Len(back) /\ (Len(back') - 1) + n = Len(back) - 1
          /\ Len(back') \in 1..Len(back') /\ Len(back') - 1 \in 1..Len(back')
      BY <1>1, <2>3
    <3>2. back'[Len(back')] = back[Len(back)] /\ back'[Len(back') - 1] = back[Len(back) - 1]
      BY <1>1, <3>1
    <3> QED BY <1>6, <2>3, <3>2 DEF PageLast
  <2> QED BY <1>1, <2>1, <2>2, <2>3
<1> QED BY <1>4, <1>5, <1>6 DEF PageLast

LEMMA BackReads ==
    ASSUME Typed, PagesInBack, NEW n, ReadOf(n)
    PROVE  PagesInBack'
<1>1. /\ Len(back') \in Nat /\ Len(back) \in Nat /\ n \in Nat
      /\ Len(back') = Len(back) - n
      /\ \A i \in 1..Len(back') : back'[i] = back[i + n] /\ i + n \in 1..Len(back)
  BY ReadEnds
<1> SUFFICES ASSUME NEW i \in 1..Len(back'), IsDetail(back'[i]), back'[i].of.vlan # DefaultVlan
             PROVE  \/ i = 1 \/ (i = 2 /\ back'[1] = Prompt)
                    \/ i > 2 /\ back'[i - 1] = Prompt /\ IsDetail(back'[i - 2])
  BY DEF PagesInBack
<1>2. back'[i] = back[i + n] /\ i + n \in 1..Len(back)
  BY <1>1
<1>3. \/ i + n = 1 \/ (i + n = 2 /\ back[1] = Prompt)
      \/ i + n > 2 /\ back[(i + n) - 1] = Prompt /\ IsDetail(back[(i + n) - 2])
  BY <1>2 DEF PagesInBack
<1>4. CASE i = 1
  BY <1>4
<1>5. CASE i # 1 /\ i + n = 2 /\ back[1] = Prompt
  <2>1. i = 2 /\ n = 0
    BY <1>1, <1>5
  <2>2. 1 \in 1..Len(back')
    BY <1>1, <2>1
  <2>3. back'[1] = back[1 + n] /\ 1 + n = 1
    BY <1>1, <2>1, <2>2
  <2> QED BY <1>5, <2>1, <2>3
<1>6. CASE i # 1 /\ i + n > 2 /\ back[(i + n) - 1] = Prompt /\ IsDetail(back[(i + n) - 2])
  <2>1. i - 1 \in 1..Len(back') /\ (i - 1) + n = (i + n) - 1
    BY <1>1, <1>6
  <2>2. back'[i - 1] = Prompt
    BY <1>1, <1>6, <2>1
  <2>3. CASE i = 2
    BY <2>2, <2>3
  <2>4. CASE i > 2
    <3>1. i - 2 \in 1..Len(back') /\ (i - 2) + n = (i + n) - 2
      BY <1>1, <2>4
    <3>2. back'[i - 2] = back[(i + n) - 2]
      BY <1>1, <3>1
    <3> QED BY <1>6, <2>2, <2>4, <3>2
  <2> QED BY <1>6, <2>3, <2>4
<1> QED BY <1>1, <1>3, <1>4, <1>5, <1>6

\* A read sends no line for a VLAN's page.
LEMMA ReadWire ==
    ASSUME Typed, PagesToSend, ReadKeeps, NEW n, ReadOf(n)
    PROVE  /\ \A k \in 1..Len(wire') : k \notin 1..Len(wire) => wire'[k].do # "detail"
           /\ awaiting'.do \in {"brief", "detail"} /\ ~Broken' /\ agenda' = <<>> =>
                \/ UNCHANGED <<wire, awaiting, agenda>>
                \/ wire' # <<>> /\ wire'[Len(wire')].do = awaiting'.do
<1>1. \A k \in 1..Len(agenda) : agenda[k].do # "detail"
  BY DEF PagesToSend
<1>2. CASE GivesUp
  <2>1. Broken' /\ wire' = wire
    BY <1>2 DEF GivesUp, Broken, Raised, Ended
  <2> QED BY <2>1
<1>3. CASE ComesBack(n)
  <2>1. UNCHANGED <<wire, awaiting, agenda>>
    BY <1>3 DEF ComesBack
  <2> QED BY <2>1
<1>4. CASE \E more : GoesOn(more)
  <2>1. PICK more : GoesOn(more)
    BY <1>4
  <2>2. wire \in Seq(Line) /\ more \in Seq(Line) /\ wire' = wire \o more
    BY <2>1 DEF Typed, GoesOn
  <2>3. /\ Len(wire) \in Nat /\ Len(more) \in Nat /\ Len(wire') = Len(wire) + Len(more)
        /\ \A i \in 1..Len(more) : wire'[Len(wire) + i] = more[i]
    BY <2>2, Joined
  <2>4. \A k \in 1..Len(wire') : k \notin 1..Len(wire) =>
          \E j \in 1..Len(more) : wire'[k] = more[j]
    <3> SUFFICES ASSUME NEW k \in 1..Len(wire'), k \notin 1..Len(wire)
                 PROVE  \E j \in 1..Len(more) : wire'[k] = more[j]
      OBVIOUS
    <3>1. k - Len(wire) \in 1..Len(more) /\ Len(wire) + (k - Len(wire)) = k
      BY <2>3
    <3> QED BY <2>3, <3>1
  <2>5. CASE awaiting'.do \in Shows
    <3>1. more = <<awaiting'>> /\ Len(agenda) >= 1 /\ awaiting' = agenda[1]
      BY <2>1, <2>5 DEF GoesOn
    <3>2. Len(more) = 1 /\ more[1] = awaiting'
      BY <3>1
    <3>3. Len(agenda) \in Nat
      BY DEF Typed
    <3>4. awaiting'.do # "detail"
      BY <1>1, <3>1, <3>3
    <3>5. Len(wire') = Len(wire) + 1 /\ wire'[Len(wire) + 1] = awaiting'
      BY <2>3, <3>2
    <3>6. wire' # <<>>
      <4>1. Len(<<>>) = 0
        OBVIOUS
      <4> QED BY <2>3, <3>5, <4>1
    <3> QED BY <2>4, <3>2, <3>4, <3>5, <3>6
  <2>6. CASE awaiting'.do \notin Shows
    <3>1. \A k \in 1..Len(more) : more[k].do \notin Shows
      BY <2>1, <2>6 DEF GoesOn
    <3> QED BY <2>4, <2>6, <3>1 DEF Shows
  <2> QED BY <2>5, <2>6
<1> QED BY <1>2, <1>3, <1>4 DEF ReadOf

LEMMA PagesReads ==
    ASSUME Typed, Pages, ReadKeeps, NEW n, ReadOf(n)
    PROVE  Pages'
<1>1. /\ ~Idle /\ ~Broken /\ driver # "none" /\ UNCHANGED <<shell, todo>>
      /\ wire \in Seq(Line) /\ wire' \in Seq(Line)
  BY ReadEnds DEF ReadKeeps, writerVars, Typed
<1>2. PagesInBack /\ PagesToSend /\ (~shell.down => PagesOnWire)
  BY DEF Pages
<1>3. /\ \A k \in 1..Len(wire') : k \notin 1..Len(wire) => wire'[k].do # "detail"
      /\ awaiting'.do \in {"brief", "detail"} /\ ~Broken' /\ agenda' = <<>> =>
           \/ UNCHANGED <<wire, awaiting, agenda>>
           \/ wire' # <<>> /\ wire'[Len(wire')].do = awaiting'.do
  BY <1>2, ReadWire
<1>4. /\ Len(wire') \in Nat /\ Len(wire) \in Nat /\ Len(wire) <= Len(wire')
      /\ \A k \in 1..Len(wire) : wire'[k] = wire[k] /\ k \in 1..Len(wire')
  BY ReadEnds
<1>5. PageLast => PageLast'
  BY PageLastRead
<1>6. ~shell'.down => PagesOnWire'
  <2> SUFFICES ASSUME PagesOnWire, NEW k \in 1..Len(wire'), wire'[k].do = "detail"
               PROVE  IF k = 1
                      THEN shell'.asking = "nothing" /\ (wire'[k].vlan # DefaultVlan => PageLast')
                      ELSE wire'[k - 1].do =
                             (IF wire'[k].vlan = DefaultVlan THEN "brief" ELSE "detail")
    BY <1>1, <1>2 DEF PagesOnWire
  <2>1. k \in 1..Len(wire) /\ wire'[k] = wire[k] /\ wire[k].do = "detail"
    BY <1>3, <1>4
  <2>2. CASE k = 1
    BY <1>1, <1>5, <2>1, <2>2 DEF PagesOnWire
  <2>3. CASE k # 1
    <3>1. k - 1 \in 1..Len(wire) /\ wire'[k - 1] = wire[k - 1]
      BY <1>4, <2>1, <2>3
    <3> QED BY <2>1, <2>3, <3>1 DEF PagesOnWire
  <2> QED BY <2>2, <2>3
<1>7. PagesInBack'
  BY <1>2, BackReads
<1>8. PagesToSend'
  <2>1. \A k \in 1..Len(agenda') : agenda'[k].do # "detail"
    <3>1. \A k \in 1..Len(agenda) : agenda[k].do # "detail"
      BY <1>2 DEF PagesToSend
    <3>2. CASE GivesUp
      <4>1. Len(agenda') = 0
        BY <3>2 DEF GivesUp
      <4> QED BY <4>1
    <3>3. CASE ComesBack(n)
      BY <3>1, <3>3 DEF ComesBack
    <3>4. CASE \E more : GoesOn(more)
      BY <3>1, <3>4 DEF GoesOn
    <3> QED BY <3>2, <3>3, <3>4 DEF ReadOf
  <2>2. ASSUME ~Idle', agenda' = <<>>, ~Broken', ~shell'.down, awaiting'.do \in {"brief", "detail"}
        PROVE  LastSent(awaiting.do)'
    <3>1. CASE UNCHANGED <<wire, awaiting, agenda>>
      <4>1. LastSent(awaiting.do)
        BY <1>1, <1>2, <2>2, <3>1 DEF PagesToSend
      <4> QED BY <1>1, <1>5, <3>1, <4>1 DEF LastSent
    <3>2. CASE wire' # <<>> /\ wire'[Len(wire')].do = awaiting'.do
      BY <3>2 DEF LastSent
    <3> QED BY <1>3, <2>2, <3>1, <3>2
  <2>3. ASSUME todo' # <<>>, todo'[1].do = "detail", ~Broken'
        PROVE  /\ driver' # "none" /\ agenda' = <<>> /\ ~Idle'
               /\ awaiting'.do = "detail" /\ todo'[1].vlan # DefaultVlan
    <3>1. agenda = <<>> /\ awaiting.do = "detail" /\ todo[1].vlan # DefaultVlan
      BY <1>1, <1>2, <2>3 DEF PagesToSend
    <3>2. ~GivesUp
      BY <2>3 DEF GivesUp, Broken, Raised, Ended
    <3>3. ~\E more : GoesOn(more)
      BY <3>1 DEF GoesOn, Shows
    <3>4. UNCHANGED <<driver, agenda, awaiting>>
      BY <3>2, <3>3 DEF ReadOf, ComesBack
    <3> QED BY <1>1, <3>1, <3>4 DEF Idle
  <2> QED BY <1>1, <1>2, <2>1, <2>2, <2>3 DEF PagesToSend
<1> QED BY <1>6, <1>7, <1>8 DEF Pages

LEMMA PagesIssues ==
    ASSUME Typed, Pages, NEW c, IssueOf(c)
    PROVE  Pages'
<1>0. /\ c = todo[1] /\ c \in Line /\ todo # <<>> /\ Idle /\ ~Broken /\ UNCHANGED shell
      /\ agenda = <<>> /\ Len(todo') \in Nat /\ ~Idle'
      /\ \A k \in 1..Len(todo') : todo'[k] = todo[k + 1] /\ k + 1 \in 1..Len(todo)
  BY DEF IssueOf
<1>1. PagesInBack /\ PagesToSend /\ (~shell.down => PagesOnWire)
  BY DEF Pages
<1>2. \A k \in 2..Len(todo') : todo'[k].do = "detail" =>
        todo'[k - 1].do = "detail" /\ todo'[k].vlan # DefaultVlan
  <2> SUFFICES ASSUME NEW k \in 2..Len(todo'), todo'[k].do = "detail"
               PROVE  todo'[k - 1].do = "detail" /\ todo'[k].vlan # DefaultVlan
    OBVIOUS
  <2>1. k \in 1..Len(todo') /\ k - 1 \in 1..Len(todo') /\ (k - 1) + 1 = k /\ (k + 1) - 1 = k
    BY <1>0
  <2>2. k + 1 \in 2..Len(todo) /\ todo'[k] = todo[k + 1] /\ todo'[k - 1] = todo[k]
    BY <1>0, <2>1
  <2> QED BY <1>1, <2>1, <2>2 DEF PagesToSend
<1>3. todo' # <<>> /\ todo'[1].do = "detail" =>
        c.do = "detail" /\ todo'[1].vlan # DefaultVlan
  <2> SUFFICES ASSUME todo' # <<>>, todo'[1].do = "detail"
               PROVE  c.do = "detail" /\ todo'[1].vlan # DefaultVlan
    OBVIOUS
  <2>1. todo' \in Seq(Line)
    BY DEF IssueOf
  <2>2. Len(todo') >= 1
    BY <1>0, <2>1, EmptySeq
  <2>3. todo'[1] = todo[2] /\ 2 \in 2..Len(todo) /\ 2 - 1 = 1
    BY <1>0, <2>2
  <2> QED BY <1>0, <1>1, <2>3 DEF PagesToSend
<1>4. c.do = "detail" => /\ driver # "none"
                         /\ ~shell.down => LastSent(Before(c))
  BY <1>0, <1>1 DEF PagesToSend
<1>5. CASE Connects(c)
  <2>1. driver = "none" /\ wire = <<>> /\ wire' = <<>> /\ back = <<>> /\ shell.asking = "nothing"
    BY <1>5 DEF Connects
  <2>2. c.do # "detail"
    BY <1>4, <2>1
  <2>3. Len(<<>>) = 0 /\ Len(<<Prompt>>) = 1 /\ <<Prompt>>[1] = Prompt
    OBVIOUS
  <2>4. PagesOnWire'
    BY <2>1, <2>3 DEF PagesOnWire
  <2>5. PagesInBack'
    <3>1. back' = <<>> \/ back' = <<Prompt>>
      BY <1>5, <2>1 DEF Connects
    <3> QED BY <2>3, <3>1 DEF PagesInBack
  <2>6. (Broken' \/ awaiting'.do = "banner")
        /\ \A k \in 1..Len(agenda') : agenda'[k].do # "detail"
    <3>1. CASE agenda' = <<Do("enable"), Do("paging"), c>> /\ awaiting' = Banner
      <4>1. Len(agenda') = 3 /\ agenda'[1] = Do("enable") /\ agenda'[2] = Do("paging")
            /\ agenda'[3] = c
        BY <3>1
      <4>2. Banner.do = "banner" /\ Do("enable").do = "enable" /\ Do("paging").do = "paging"
        BY DoIs DEF Banner
      <4> QED BY <2>2, <3>1, <4>1, <4>2
    <3>2. CASE UNCHANGED agenda /\ answer' = Raised
      <4>1. Broken'
        BY <3>2 DEF Broken, Raised
      <4> QED BY <1>0, <2>3, <3>2, <4>1
    <3> QED BY <1>5, <3>1, <3>2 DEF Connects
  <2>7. PagesToSend'
    BY <1>0, <1>2, <1>3, <2>2, <2>6 DEF PagesToSend
  <2> QED BY <2>4, <2>5, <2>7 DEF Pages
<1>6. CASE Sends(c)
  <2>1. /\ wire' \in Seq(Line) /\ Len(wire) \in Nat /\ Len(wire') \in Nat
        /\ Len(wire) + 1 <= Len(wire')
        /\ \A k \in 1..Len(wire) : wire'[k] = wire[k] /\ k \in 1..Len(wire')
        /\ wire'[Len(wire) + 1] = c
        /\ \A k \in 1..Len(wire') : k \in 1..Len(wire) \/ k = Len(wire) + 1 \/ wire'[k].do = "yes"
        /\ c.do \notin {"reload", "save"} => Len(wire') = Len(wire) + 1
    BY <1>6, SendsWire
  <2>2. driver # "none" /\ awaiting' = c /\ UNCHANGED <<back, driver, agenda, answer>>
    BY <1>6 DEF Sends
  <2>3. PageLast' <=> PageLast
    BY <2>2 DEF PageLast
  <2>4. ~shell'.down => PagesOnWire'
    <3> SUFFICES ASSUME ~shell.down, PagesOnWire, NEW k \in 1..Len(wire'), wire'[k].do = "detail"
                 PROVE  IF k = 1
                        THEN shell'.asking = "nothing" /\ (wire'[k].vlan # DefaultVlan => PageLast')
                        ELSE wire'[k - 1].do =
                               (IF wire'[k].vlan = DefaultVlan THEN "brief" ELSE "detail")
      BY <1>0, <1>1 DEF PagesOnWire
    <3>1. CASE k \in 1..Len(wire)
      <4>1. wire'[k] = wire[k] /\ wire[k].do = "detail"
        BY <2>1, <3>1
      <4>2. CASE k = 1
        BY <1>0, <2>3, <3>1, <4>1, <4>2 DEF PagesOnWire
      <4>3. CASE k # 1
        <5>1. k - 1 \in 1..Len(wire) /\ wire'[k - 1] = wire[k - 1]
          BY <2>1, <3>1, <4>3
        <5> QED BY <3>1, <4>1, <4>3, <5>1 DEF PagesOnWire
      <4> QED BY <4>2, <4>3
    <3>2. CASE k \notin 1..Len(wire)
      <4>1. k = Len(wire) + 1 /\ wire'[k] = c /\ c.do = "detail"
        BY <2>1, <3>2
      <4>2. LastSent(Before(c))
        BY <1>4, <4>1
      <4>3. CASE wire = <<>>
        <5>1. k = 1
          BY <4>1, <4>3
        <5> QED BY <1>0, <2>3, <4>1, <4>2, <4>3, <5>1 DEF LastSent, Before
      <4>4. CASE wire # <<>>
        <5>1. Len(wire) >= 1
          BY <2>1, <4>4, EmptySeq DEF Typed
        <5>2. k # 1 /\ k - 1 = Len(wire) /\ wire'[k - 1] = wire[Len(wire)]
          BY <2>1, <4>1, <5>1
        <5> QED BY <4>1, <4>2, <4>4, <5>2 DEF LastSent, Before
      <4> QED BY <4>3, <4>4
    <3> QED BY <3>1, <3>2
  <2>5. PagesInBack'
    BY <1>1, <2>2 DEF PagesInBack
  <2>6. c.do \in {"brief", "detail"} => LastSent(c.do)'
    <3> SUFFICES ASSUME c.do \in {"brief", "detail"} PROVE LastSent(c.do)'
      OBVIOUS
    <3>1. Len(wire') = Len(wire) + 1 /\ wire'[Len(wire')] = c
      BY <2>1
    <3>2. wire' # <<>>
      <4>1. Len(<<>>) = 0
        OBVIOUS
      <4> QED BY <2>1, <3>1, <4>1
    <3> QED BY <3>1, <3>2 DEF LastSent
  <2>7. PagesToSend'
    <3>1. c' = c
      BY <2>2, <1>6, <1>0
    <3> QED BY <1>0, <1>1, <1>2, <1>3, <2>2, <2>6 DEF PagesToSend
  <2> QED BY <2>4, <2>5, <2>7 DEF Pages
<1> QED BY <1>5, <1>6 DEF IssueOf

-----------------------------------------------------------------------------
(***************************************************************************)
(* The pages that a call asks for after the brief page.                    *)
(***************************************************************************)
LEMMA DetailsAre ==
    ASSUME NEW vlans, DefaultVlan \in vlans \/ vlans = {}
    PROVE  /\ \A k \in 2..Len(Details(vlans)) :
                Details(vlans)[k].do = "detail" /\ Details(vlans)[k].vlan # DefaultVlan
           /\ Details(vlans) # <<>> =>
                Details(vlans)[1].do = "detail" /\ Details(vlans)[1].vlan = DefaultVlan
<1> DEFINE S     == {v \in Vlan \ {DefaultVlan} : v \in vlans}
           first == IF DefaultVlan \in vlans THEN <<DefaultVlan>> ELSE <<>>
           rest  == SetToSeq(S)
           list  == first \o rest
           T     == Vlan \ {DefaultVlan}
<1>1. rest \in Seq(S) /\ S \subseteq T
  BY FastpathShellAssumption, FS_Subset, SeqOfSet
<1>2. Len(rest) \in Nat /\ \A i \in 1..Len(rest) : rest[i] \in T
  <2> HIDE DEF rest, S, T
  <2>1. Len(rest) \in Nat /\ \A i \in 1..Len(rest) : rest[i] \in S
    BY <1>1
  <2> QED BY <1>1, <2>1
<1>3. vlans = {} => Len(rest) = 0
  <2> SUFFICES ASSUME vlans = {} PROVE Len(rest) = 0
    OBVIOUS
  <2>1. S = {}
    OBVIOUS
  <2> HIDE DEF S
  <2>2. rest \in Seq({})
    BY <1>1, <2>1
  <2> HIDE DEF rest
  <2> QED BY <2>2, EmptySeq
<1>4. first = (IF DefaultVlan \in vlans THEN <<DefaultVlan>> ELSE <<>>)
  OBVIOUS
<1>5. rest \in Seq(Vlan)
  <2>1. S \subseteq Vlan
    OBVIOUS
  <2> HIDE DEF S
  <2>2. rest = [i \in 1..Len(rest) |-> rest[i]] /\ \A i \in 1..Len(rest) : rest[i] \in Vlan
    BY <1>1, <1>2, <2>1
  <2> HIDE DEF rest
  <2>3. [i \in 1..Len(rest) |-> rest[i]] \in Seq(Vlan)
    BY <1>2, <2>2
  <2> QED BY <2>2, <2>3
<1>6. first \in Seq(Vlan)
  BY FastpathShellAssumption
<1>7. Details(vlans) = [i \in 1..Len(list) |-> OnVlan("detail", list[i])]
  BY DEF Details
<1> HIDE DEF S, first, rest
<1>8. /\ list \in Seq(Vlan) /\ Len(list) = Len(first) + Len(rest)
      /\ \A i \in 1..Len(first) : list[i] = first[i]
      /\ \A i \in 1..Len(rest) : list[Len(first) + i] = rest[i]
  BY <1>5, <1>6, Joined
<1> HIDE DEF list
<1>9. \A v \in Vlan : OnVlan("detail", v).do = "detail" /\ OnVlan("detail", v).vlan = v
  BY LineVlan DEF Shows
<1>10. Len(list) \in Nat /\ Len(Details(vlans)) = Len(list)
       /\ \A i \in 1..Len(list) : Details(vlans)[i].do = "detail" /\ Details(vlans)[i].vlan = list[i]
  BY <1>7, <1>8, <1>9
<1>11. CASE vlans = {}
  <2>1. first = <<>> /\ Len(<<>>) = 0
    BY <1>4, <1>11
  <2>2. Len(Details(vlans)) = 0
    BY <1>3, <1>8, <1>10, <1>11, <2>1
  <2>3. Details(vlans) = <<>>
    BY <2>2, DetailsTyped, EmptySeq
  <2> QED BY <2>2, <2>3
<1>12. CASE DefaultVlan \in vlans
  <2>1. Len(first) = 1 /\ first[1] = DefaultVlan
    BY <1>4, <1>12
  <2>2. list[1] = DefaultVlan /\ Len(list) = 1 + Len(rest) /\ 1 \in 1..Len(list)
    BY <1>2, <1>8, <2>1
  <2>3. \A k \in 2..Len(list) : list[k] # DefaultVlan
    <3> SUFFICES ASSUME NEW k \in 2..Len(list) PROVE list[k] # DefaultVlan
      OBVIOUS
    <3>1. k - 1 \in 1..Len(rest) /\ 1 + (k - 1) = k
      BY <1>2, <2>2
    <3>2. list[1 + (k - 1)] = rest[k - 1]
      BY <1>8, <2>1, <3>1
    <3> QED BY <1>2, <3>1, <3>2
  <2>4. \A k \in 2..Len(list) : k \in 1..Len(list)
    BY <1>10
  <2> QED BY <1>10, <2>2, <2>3, <2>4
<1> QED BY <1>11, <1>12

NoPages(s) == \A k \in 1..Len(s) : s[k].do # "detail"

LEMMA EndOfWire ==
    ASSUME UNCHANGED <<shell, wire, back>>, NEW what
    PROVE  LastSent(what)' <=> LastSent(what')
BY DEF LastSent, PageLast

\* Nothing is awaited and no page of a VLAN is to be sent.
LEMMA PagesAtRest ==
    ASSUME Pages, UNCHANGED <<shell, wire, back, agenda>>, Idle', todo' \in Seq(Line), NoPages(todo')
    PROVE  Pages'
<1>1. (~shell'.down => PagesOnWire') /\ PagesInBack'
  BY DEF Pages, PagesOnWire, PagesInBack, PageLast
<1>2. \A k \in 2..Len(todo') : todo'[k].do # "detail"
  BY DEF NoPages
<1>3. todo' # <<>> => todo'[1].do # "detail"
  <2> SUFFICES ASSUME todo' # <<>> PROVE todo'[1].do # "detail"
    OBVIOUS
  <2>1. Len(todo') \in Nat /\ Len(todo') >= 1
    BY EmptySeq
  <2>2. 1 \in 1..Len(todo')
    BY <2>1
  <2> QED BY <2>2 DEF NoPages
<1>4. \A k \in 1..Len(agenda') : agenda'[k].do # "detail"
  BY DEF Pages, PagesToSend
<1>5. PagesToSend'
  BY <1>2, <1>3, <1>4 DEF PagesToSend
<1> QED BY <1>1, <1>5 DEF Pages

LEMMA BatchPages ==
    ASSUME NEW s, NEW at \in Stage \ Reading, Batch(s, at)
    PROVE  NoPages(s)
<1>1. s \in Seq(Range(s)) /\ \A c \in Range(s) : Proper(c, at)
  BY DEF Batch
<1>2. "detail" \notin Dos(at)
  BY DosOf DEF Stage, EnterDos, BodyDos, DatabaseCommands, InterfaceCommands, GlobalCommands,
               Globals, VlanCommands, PortSettings
<1>3. \A k \in 1..Len(s) : s[k] \in Range(s)
  BY <1>1
<1> QED BY <1>1, <1>2, <1>3 DEF Proper, NoPages

\* The tables of an answer are among its texts.
LEMMA TablesIn ==
    ASSUME NEW texts \in Seq(Text)
    PROVE  /\ Tables(texts) \in Seq(Text) /\ Len(Tables(texts)) \in Nat
           /\ \A i \in 1..Len(Tables(texts)) :
                /\ Tables(texts)[i].says = "table" /\ Tables(texts)[i] \in Text
                /\ \E j \in 1..Len(texts) : Tables(texts)[i] = texts[j]
           /\ Tables(texts) # <<>> => 1 \in 1..Len(Tables(texts))
<1> DEFINE s == Saying(texts, {"table"})
<1>1. s \in Seq(Text) /\ \E h : Places(texts, {"table"}, Len(texts), s, h)
  BY SayingOf
<1>2. s = Tables(texts)
  BY DEF Tables
<1> HIDE DEF s
<1>3. Len(s) \in Nat /\ \A i \in 1..Len(s) : s[i] \in Text
  BY <1>1
<1>4. \A i \in 1..Len(s) : s[i].says = "table" /\ \E j \in 1..Len(texts) : s[i] = texts[j]
  BY <1>1 DEF Places
<1>5. s # <<>> => 1 \in 1..Len(s)
  <2>1. s # <<>> => Len(s) >= 1
    BY <1>1, EmptySeq
  <2> QED BY <1>3, <2>1
<1> QED BY <1>1, <1>2, <1>3, <1>4, <1>5

LEMMA BriefIs ==
    ASSUME NEW texts \in Seq(Text), NEW b,
           \A i \in 1..Len(texts) : texts[i].says = "table" => Pictured(texts[i].at, b)
    PROVE  DefaultVlan \in ParseBrief(texts) \/ ParseBrief(texts) = {}
<1>1. CASE FirstIs(texts, "brief")
  <2>1. PICK j \in 1..Len(texts) : Tables(texts)[1] = texts[j] /\ texts[j].says = "table"
    BY <1>1, TablesIn DEF FirstIs
  <2>2. DefaultVlan \in Tables(texts)[1].at.vlans
    BY <2>1 DEF Pictured
  <2> QED BY <1>1, <2>2 DEF ParseBrief
<1>2. CASE ~FirstIs(texts, "brief")
  BY <1>2 DEF ParseBrief
<1> QED BY <1>1, <1>2

LEMMA PagesUses ==
    ASSUME IInv, Typed, Pages, NEW b, Pictures(b), Takes, UseOf
    PROVE  Pages'
<1>1. /\ UNCHANGED <<shell, wire, back, driver, agenda>> /\ Idle' /\ ~Idle /\ agenda = <<>>
      /\ answer # Pending /\ answer' = Pending /\ entered \in Nat
  BY DEF Takes
<1>2. /\ Len(<<>>) = 0 /\ <<>> \in Seq(Line) /\ NoPages(<<>>)
  BY DEF NoPages
<1>3. todo \in Seq(Line) /\ answer.texts \in Seq(Text)
  BY DEF Typed
<1>4. StageFits /\ SessionFits
  BY DEF IInv
<1>5. CASE stage \in {"enter", "body", "unwind", "script"} /\ UNCHANGED todo
  <2>1. NoPages(todo)
    <3>1. stage \in Stage \ Reading /\ Batch(todo, stage)
      BY <1>4, <1>5 DEF StageFits, Reading
    <3> QED BY <3>1, BatchPages
  <2> QED BY <1>1, <1>3, <1>5, <2>1, PagesAtRest
<1>6. CASE Unwind(TRUE)
  <2>1. todo' \in Seq(Line) /\ Len(todo') = entered /\ \A i \in 1..entered : todo'[i] = Do("exit")
    BY <1>1, <1>6, ExitsOwed
  <2>2. NoPages(todo')
    BY <2>1, DoIs DEF NoPages
  <2> QED BY <1>1, <2>1, <2>2, PagesAtRest
<1>7. CASE Escapes(answer)
  <2>1. todo' = <<>>
    BY <1>7 DEF Escapes, End, GoTo
  <2> QED BY <1>1, <1>2, <2>1, PagesAtRest
<1>8. CASE stage \in Reading /\ ~Broken /\ Note(answer.texts)
  <2>1. answer.is = "returned" /\ driver # "none"
    <3>1. Raised.is = "raised" /\ Ended.is = "ended"
      BY DEF Raised, Ended
    <3> QED BY <1>1, <1>4, <1>8, <3>1 DEF Typed, Broken, SessionFits
  <2>2. (~shell'.down => PagesOnWire') /\ PagesInBack'
    BY <1>1 DEF Pages, PagesOnWire, PagesInBack, PageLast
  <2>3. PagesToSend /\ \A k \in 1..Len(agenda') : agenda'[k].do # "detail"
    BY <1>1 DEF Pages, PagesToSend
  <2>4. ~shell.down /\ awaiting.do \in {"brief", "detail"} => LastSent(awaiting.do)
    BY <1>1, <1>8, <2>3 DEF PagesToSend
  <2>5. CASE awaiting.do = "brief"
    <3> DEFINE vlans == ParseBrief(answer.texts)
    <3>1. todo' = Details(vlans)
      BY <1>8, <2>5 DEF Note
    <3>2. DefaultVlan \in vlans \/ vlans = {}
      BY <1>3, BriefIs DEF Pictures
    <3> HIDE DEF vlans
    <3>3. /\ \A k \in 2..Len(todo') : todo'[k].do = "detail" /\ todo'[k].vlan # DefaultVlan
          /\ todo' # <<>> => todo'[1].do = "detail" /\ todo'[1].vlan = DefaultVlan
          /\ todo' \in Seq(Line)
      BY <3>1, <3>2, DetailsAre, DetailsTyped
    <3>4. \A k \in 2..Len(todo') : todo'[k - 1].do = "detail"
      <4> SUFFICES ASSUME NEW k \in 2..Len(todo') PROVE todo'[k - 1].do = "detail"
        OBVIOUS
      <4>1. Len(todo') \in Nat /\ Len(todo') >= 2
        BY <3>3
      <4>2. todo' # <<>>
        BY <1>2, <4>1
      <4>3. k - 1 = 1 \/ k - 1 \in 2..Len(todo')
        BY <4>1
      <4> QED BY <3>3, <4>2, <4>3
    <3>5. todo' # <<>> => Before(todo[1])' = "brief"
      BY <3>3 DEF Before
    <3>6. ~shell.down => LastSent("brief")
      BY <2>4, <2>5
    <3>7. ~shell.down => LastSent("brief")'
      BY <1>1, <3>6, EndOfWire
    <3>8. todo' # <<>> /\ ~shell'.down => LastSent(Before(todo[1]))'
      BY <1>1, <3>5, <3>7
    <3>9. PagesToSend'
      BY <1>1, <2>1, <2>3, <3>3, <3>4, <3>8 DEF PagesToSend
    <3> QED BY <2>2, <3>9 DEF Pages
  <2>6. CASE awaiting.do # "brief"
    <3>1. todo' = todo
      BY <1>8, <2>6 DEF Note
    <3>2. todo # <<>> /\ todo[1].do = "detail" =>
            awaiting.do = "detail" /\ todo[1].vlan # DefaultVlan
      BY <1>1, <1>8, <2>3 DEF PagesToSend
    <3>3. todo' # <<>> /\ todo'[1].do = "detail" => Before(todo[1])' = "detail"
      BY <3>1, <3>2 DEF Before
    <3>4. todo' # <<>> /\ todo'[1].do = "detail" /\ ~shell.down => LastSent("detail")
      BY <2>4, <3>1, <3>2
    <3>5. todo' # <<>> /\ todo'[1].do = "detail" /\ ~shell.down => LastSent("detail")'
      BY <1>1, <3>4, EndOfWire
    <3>6. todo' # <<>> /\ todo'[1].do = "detail" /\ ~shell'.down => LastSent(Before(todo[1]))'
      BY <1>1, <3>3, <3>5
    <3>7. \A k \in 2..Len(todo') : todo'[k].do = "detail" =>
            todo'[k - 1].do = "detail" /\ todo'[k].vlan # DefaultVlan
      BY <2>3, <3>1 DEF PagesToSend
    <3>8. PagesToSend'
      BY <1>1, <2>1, <2>3, <3>6, <3>7 DEF PagesToSend
    <3> QED BY <2>2, <3>8 DEF Pages
  <2> QED BY <2>5, <2>6
<1> QED BY <1>5, <1>6, <1>7, <1>8 DEF UseOf, Keeps

LEMMA PagesPlain ==
    ASSUME NEW c \in Call, c.kind \notin {"reboot", "deploy"}
    PROVE  NoPages(PagesBefore(c)) /\ NoPages(PagesAfter(c)) /\ NoPages(<<Do("pvids")>>)
<1>1. \A x : x.do # "detail" => NoPages(<<x>>)
  <2>1. \A x : Len(<<x>>) = 1 /\ <<x>>[1] = x
    OBVIOUS
  <2> QED BY <2>1 DEF NoPages
<1>2. \A x, y : x.do # "detail" /\ y.do # "detail" => NoPages(<<x, y>>)
  <2>1. \A x, y : Len(<<x, y>>) = 2 /\ <<x, y>>[1] = x /\ <<x, y>>[2] = y
    OBVIOUS
  <2> QED BY <2>1 DEF NoPages
<1>3. \A k \in Shows \ {"detail"} : NoPages(<<Do(k)>>)
  BY <1>1, DoIs
<1>4. NoPages(<<Do("logs"), Do("collectors")>>)
  BY <1>2, DoIs
<1>5. NoPages(<<OnPort("label", NoVlan, c.port)>>)
  <2>1. OnPort("label", NoVlan, c.port).do = "label"
    BY DEF OnPort, Do
  <2> QED BY <1>1, <2>1
<1>9. NoPages(PagesBefore(c))
  <2>1. c.kind \in VlanKinds \cup PortSettings \cup PowerKinds \cup GlobalKinds \cup HostKinds
    BY CallKind DEF Kinds, PortKinds, VlanKinds
  <2> USE DEF PagesBefore, Shows, VlanKinds, PortSettings, PowerKinds, GlobalKinds, HostKinds
  <2>2. CASE c.kind \in VlanKinds
    BY <2>2, <1>3
  <2>3. CASE c.kind = "description"
    BY <2>3, <1>5
  <2>4. CASE c.kind \in PortSettings \ {"description"}
    BY <2>4, <1>3
  <2>5. CASE c.kind \in PowerKinds
    BY <2>5, <1>3
  <2>6. CASE c.kind = "hostname"
    BY <2>6, <1>3
  <2>7. CASE c.kind = "address"
    BY <2>7, <1>3
  <2>8. CASE c.kind \in HostKinds \cup {"logging"}
    BY <2>8, <1>4
  <2> QED BY <2>1, <2>2, <2>3, <2>4, <2>5, <2>6, <2>7, <2>8
<1>10. NoPages(<<Do("pvids")>>)
  BY <1>3 DEF Shows
<1> QED BY <1>9, <1>10 DEF PagesAfter

LEMMA PagesTurns ==
    ASSUME IInv, Typed, Typed', StageFits', Pages, TurnOf
    PROVE  Pages'
<1>1. /\ UNCHANGED <<shell, wire, back, agenda>> /\ Idle' /\ stage \notin Resting
      /\ todo' \in Seq(Line)
  BY DEF TurnOf, Typed
<1>2. NoPages(todo')
  <2>1. CASE stage' \notin Reading
    BY <2>1, BatchPages DEF StageFits
  <2>2. CASE stage' \in Reading
    <3>1. ReadsPages
      BY <2>2 DEF TurnOf, CallEnds, Enters, Bodies, Leaves, Unwind, GoTo, Resting, Reading
    <3>2. stage # "script" /\ todo' \in {<<Do("pvids")>>, PagesAfter(call)}
      BY <3>1 DEF ReadsPages
    <3>3. call \in Call /\ call.kind \notin {"reboot", "deploy"}
      BY <1>1, <3>2, DeepCall DEF IInv
    <3> QED BY <3>2, <3>3, PagesPlain
  <2> QED BY <2>1, <2>2
<1> QED BY <1>1, <1>2, PagesAtRest

LEMMA PagesCalls ==
    ASSUME IInv, Pages, StageFits', BetweenCalls
    PROVE  Pages'
<1>1. /\ Idle' /\ UNCHANGED agenda /\ todo' \in Seq(Line)
  BY DEF BetweenCalls
<1>2. NoPages(todo')
  <2>1. CASE stage' \notin Reading
    BY <2>1, BatchPages DEF StageFits
  <2>2. CASE stage' \in Reading
    <3>1. stage' = "before"
      BY <2>2 DEF BetweenCalls, Resting, Reading
    <3> QED BY <3>1, PagesPlain DEF BetweenCalls
  <2> QED BY <2>1, <2>2
<1>3. CASE UNCHANGED <<shell, wire, back, driver>>
  BY <1>1, <1>2, <1>3, PagesAtRest
<1>4. CASE wire' = <<>> /\ back' = <<>>
  <2>1. Len(wire') = 0 /\ Len(back') = 0
    BY <1>4
  <2>2. PagesOnWire' /\ PagesInBack'
    BY <2>1 DEF PagesOnWire, PagesInBack
  <2>3. \A k \in 2..Len(todo') : todo'[k].do # "detail"
    BY <1>2 DEF NoPages
  <2>4. todo' # <<>> => todo'[1].do # "detail"
    <3>1. todo' # <<>> => Len(todo') >= 1 /\ Len(todo') \in Nat
      BY <1>1, EmptySeq
    <3> QED BY <1>2, <3>1 DEF NoPages
  <2>5. \A k \in 1..Len(agenda') : agenda'[k].do # "detail"
    BY <1>1 DEF Pages, PagesToSend
  <2>6. PagesToSend'
    BY <1>1, <2>3, <2>4, <2>5 DEF PagesToSend
  <2> QED BY <2>2, <2>6 DEF Pages
<1> QED BY <1>3, <1>4 DEF BetweenCalls

-----------------------------------------------------------------------------
(***************************************************************************)
(* What the answers show of the protected ports.                           *)
(***************************************************************************)
\* The pages of the VLANs that have been read.
LEMMA ShowsReads ==
    ASSUME Typed, Typed', PagesInBack, NEW n, ReadOf(n), ComesBack(n)
    PROVE  ShowsThem(answer.texts)'
<1> DEFINE t == answer'.texts
<1>1. PICK h : Picked(t, n, h)
  BY ReturnedTexts
<1>2. /\ t \in Seq(Text) /\ Len(t) \in Nat /\ h \in [1..Len(t) -> 1..n]
      /\ \A i \in 1..Len(t) : t[i] = back[h[i]]
      /\ \A i, k \in 1..Len(t) : i < k => h[i] < h[k]
      /\ \A j \in 1..n : back[j] # Prompt => \E i \in 1..Len(t) : h[i] = j
  BY <1>1 DEF Picked
<1>3. n \in Nat /\ Len(back) \in Nat /\ n <= Len(back)
  BY DEF ReadOf, Typed
<1> SUFFICES ASSUME NEW m \in 1..Len(t), IsDetail(t[m]), t[m].of.vlan # DefaultVlan, m # 1
             PROVE  IsDetail(t[m - 1])
  BY DEF ShowsThem
<1>a. \A i \in 1..Len(t) : t[i] # Prompt
  <2>1. \A i \in 1..Len(t) : t[i] \in Text
    BY <1>2
  <2> QED BY <2>1, ChunkSays
<1> HIDE DEF t
<1>4. /\ m - 1 \in 1..Len(t) /\ m - 1 < m /\ h[m] \in 1..n /\ h[m - 1] \in 1..n
      /\ h[m] \in Nat /\ h[m - 1] \in Nat
  BY <1>2, <1>3
<1>5. h[m - 1] < h[m] /\ h[m] \in 1..Len(back)
  <2>1. \A i, k \in 1..Len(t) : i < k => h[i] < h[k]
    BY <1>2
  <2>2. h[m - 1] < h[m]
    BY <1>4, <2>1
  <2>3. h[m] \in 1..Len(back)
    BY <1>3, <1>4
  <2> QED BY <2>2, <2>3
<1>6. \/ h[m] = 1 \/ (h[m] = 2 /\ back[1] = Prompt)
      \/ h[m] > 2 /\ back[h[m] - 1] = Prompt /\ IsDetail(back[h[m] - 2])
  BY <1>2, <1>5 DEF PagesInBack
<1>7. h[m] # 1
  BY <1>3, <1>4, <1>5
<1>8. \A i \in 1..Len(t) : back[h[i]] # Prompt
  BY <1>2, <1>a
<1>9. h[m] # 2 \/ back[1] # Prompt
  <2> SUFFICES ASSUME h[m] = 2 PROVE back[1] # Prompt
    OBVIOUS
  <2>1. h[m - 1] = 1
    BY <1>3, <1>4, <1>5
  <2> QED BY <1>4, <1>8, <2>1
<1>10. h[m] > 2 /\ back[h[m] - 1] = Prompt /\ IsDetail(back[h[m] - 2])
  BY <1>6, <1>7, <1>9
<1>11. h[m] - 2 \in 1..n
  BY <1>3, <1>4, <1>10
<1>12. back[h[m] - 2] # Prompt
  BY <1>10, PromptSays DEF IsDetail
<1>13. PICK i \in 1..Len(t) : h[i] = h[m] - 2
  BY <1>2, <1>11, <1>12
<1>14. i = m - 1
  <2>1. CASE i < m - 1
    <3>1. h[i] < h[m - 1]
      BY <1>2, <1>4, <2>1
    <3>2. h[m - 1] = h[m] - 1
      BY <1>3, <1>4, <1>5, <1>13, <3>1
    <3> QED BY <1>4, <1>8, <1>10, <3>2
  <2>2. CASE i > m - 1
    <3>1. i = m \/ m < i
      BY <1>2, <2>2
    <3>2. h[m] <= h[i]
      <4>1. CASE i = m
        BY <1>4, <4>1
      <4>2. CASE m < i
        <5>1. h[m] < h[i] /\ h[i] \in 1..n
          BY <1>2, <4>2
        <5> QED BY <1>3, <1>4, <5>1
      <4> QED BY <3>1, <4>1, <4>2
    <3> QED BY <1>3, <1>4, <1>13, <3>2
  <2> QED BY <1>2, <2>1, <2>2
<1>15. t[m - 1] = back[h[m] - 2]
  BY <1>2, <1>13, <1>14
<1> QED BY <1>10, <1>15

LEMMA PicturesReads ==
    ASSUME Typed, Typed', NEW b, Pictures(b), NEW n, ReadOf(n), ReadKeeps
    PROVE  Pictures(b)'
<1>1. UNCHANGED shell
  BY DEF ReadKeeps
<1>2. \A i \in 1..Len(back') : back'[i] = back[i + n] /\ i + n \in 1..Len(back)
  BY ReadEnds
<1>3. \A i \in 1..Len(back') : back'[i].says = "table" => Pictured(back'[i].at, b)
  BY <1>2 DEF Pictures
<1>4. \A i \in 1..Len(answer'.texts) : answer'.texts[i].says = "table" =>
        Pictured(answer'.texts[i].at, b)
  <2>1. CASE ComesBack(n)
    <3>1. PICK h : Picked(answer'.texts, n, h)
      BY <2>1, ReturnedTexts
    <3>2. n \in Nat /\ Len(back) \in Nat /\ n <= Len(back)
      BY DEF ReadOf, Typed
    <3>3. \A i \in 1..Len(answer'.texts) : h[i] \in 1..Len(back) /\ answer'.texts[i] = back[h[i]]
      BY <3>1, <3>2 DEF Picked
    <3> QED BY <3>3 DEF Pictures
  <2>2. CASE ~ComesBack(n)
    <3>1. answer' \in {Pending, Raised, Ended}
      BY <2>2 DEF ReadOf, GivesUp, GoesOn
    <3>2. Pending.texts = <<>> /\ Raised.texts = <<>> /\ Ended.texts = <<>> /\ Len(<<>>) = 0
      BY DEF Pending, Raised, Ended
    <3>3. Len(answer'.texts) = 0
      BY <3>1, <3>2
    <3> QED BY <3>3
  <2> QED BY <2>1, <2>2
<1> QED BY <1>1, <1>3, <1>4 DEF Pictures

LEMMA PicturesExecutes ==
    ASSUME Typed, Aimed, NEW b \in BOOLEAN, Spared(b), Pictures(b), Executes
    PROVE  Pictures(b)' /\ LeavesThem(shell.config, shell'.config, b)
<1>1. /\ wire # <<>> /\ wire[1] \in Line /\ back \in Seq(Chunk) /\ shell \in Shell
      /\ wire[1].do \in InterfaceCommands => shell.port = wire[1].port
      /\ UNCHANGED answer
  BY ExecOf DEF Typed
<1>2. PICK out \in Seq(Chunk) : Outcome(shell, wire[1], shell', out) /\ back' = back \o out
  BY ExecOf
<1>3. Spares(wire[1], b)
  <2>1. wire \in Seq(Line)
    BY DEF Typed
  <2>2. 1 \in 1..Len(wire)
    BY <1>1, <2>1, Rest
  <2> QED BY <2>2 DEF Spared
<1>4. /\ LeavesThem(shell.config, shell'.config, b)
      /\ \A i \in 1..Len(out) : out[i].says = "table" => Pictured(out[i].at, b)
  BY <1>1, <1>2, <1>3, OutcomeLeaves DEF Pictures
<1>5. /\ Len(back') = Len(back) + Len(out) /\ Len(back) \in Nat /\ Len(out) \in Nat
      /\ \A i \in 1..Len(back) : back'[i] = back[i]
      /\ \A i \in 1..Len(out) : back'[Len(back) + i] = out[i]
  BY <1>1, <1>2, Joined
<1>6. \A i \in 1..Len(back') : back'[i].says = "table" => Pictured(back'[i].at, b)
  <2> SUFFICES ASSUME NEW i \in 1..Len(back'), back'[i].says = "table"
               PROVE  Pictured(back'[i].at, b)
    OBVIOUS
  <2>1. CASE i \in 1..Len(back)
    BY <1>5, <2>1 DEF Pictures
  <2>2. CASE i \notin 1..Len(back)
    <3>1. i - Len(back) \in 1..Len(out) /\ Len(back) + (i - Len(back)) = i
      BY <1>5, <2>2
    <3>2. out[i - Len(back)] = back'[i]
      BY <1>5, <3>1
    <3> QED BY <1>4, <3>1, <3>2
  <2> QED BY <2>1, <2>2
<1> QED BY <1>1, <1>4, <1>6 DEF Pictures, LeavesThem

\* Nothing is printed, and what has been answered stays or goes.
LEMMA PicturesStay ==
    ASSUME NEW b, Pictures(b), shell'.config = shell.config, back' \in {back, <<>>, <<Prompt>>},
           answer' = answer \/ answer'.texts = <<>>
    PROVE  Pictures(b)'
<1>1. Len(<<>>) = 0 /\ Len(<<Prompt>>) = 1 /\ <<Prompt>>[1] = Prompt /\ Prompt.says # "table"
  <2>1. Prompt.says = "prompt"
    BY PromptSays
  <2> QED BY <2>1
<1>2. \A i \in 1..Len(back') : back'[i].says = "table" => Pictured(back'[i].at, b)
  <2>1. CASE back' = back
    BY <2>1 DEF Pictures
  <2>2. CASE back' = <<>>
    BY <1>1, <2>2
  <2>3. CASE back' = <<Prompt>>
    <3>1. Len(back') = 1 /\ back'[1] = Prompt
      BY <1>1, <2>3
    <3> QED BY <1>1, <3>1
  <2> QED BY <2>1, <2>2, <2>3
<1>3. \A i \in 1..Len(answer'.texts) : answer'.texts[i].says = "table" =>
        Pictured(answer'.texts[i].at, b)
  <2>1. CASE answer' = answer
    BY <2>1 DEF Pictures
  <2>2. CASE answer'.texts = <<>>
    <3>1. Len(answer'.texts) = 0
      BY <1>1, <2>2
    <3> QED BY <3>1
  <2> QED BY <2>1, <2>2
<1> QED BY <1>2, <1>3 DEF Pictures

-----------------------------------------------------------------------------
(***************************************************************************)
(* The lines under way spare the protected ports.                          *)
(***************************************************************************)
LEMMA SparedExecutes ==
    ASSUME Typed, Aimed, NEW b, Spared(b), Executes, UNCHANGED writerVars
    PROVE  Spared(b)'
<1>1. wire \in Seq(Line) /\ wire # <<>> /\ (wire' = <<>> \/ wire' = Tail(wire))
  BY ExecOf DEF Typed
<1>2. \A k \in 1..Len(wire') : wire'[k] = wire[k + 1] /\ k + 1 \in 1..Len(wire)
  BY <1>1, ExecWire
<1> QED BY <1>2 DEF Spared, writerVars

LEMMA SparedReads ==
    ASSUME Typed, NEW b, Spared(b), ReadKeeps, NEW n, ReadOf(n)
    PROVE  Spared(b)'
<1>1. UNCHANGED writerVars
  BY DEF ReadKeeps
<1>2. /\ \A k \in 1..Len(wire) : wire'[k] = wire[k]
      /\ \A k \in 1..Len(wire') : k \notin 1..Len(wire) => wire'[k].do \in Harmless
  BY ReadEnds
<1>3. \A k \in 1..Len(wire') : Spares(wire'[k], b)
  <2> SUFFICES ASSUME NEW k \in 1..Len(wire') PROVE Spares(wire'[k], b)
    OBVIOUS
  <2>1. CASE k \in 1..Len(wire)
    BY <1>2, <2>1 DEF Spared
  <2>2. CASE k \notin 1..Len(wire)
    BY <1>2, <2>2, HarmlessSpares
  <2> QED BY <2>1, <2>2
<1> QED BY <1>1, <1>3 DEF Spared, writerVars

LEMMA SparedIssues ==
    ASSUME Unforced, Typed, StageFits, Descent, NEW b, Spared(b), NEW c, IssueOf(c)
    PROVE  Spared(b)'
<1>1. /\ UNCHANGED <<call, stage>> /\ c = todo[1] /\ Len(todo) \in Nat /\ Len(todo) >= 1
  BY DEF IssueOf
<1>2. Spares(c, b)
  <2>1. 1 \in 1..Len(todo)
    BY <1>1
  <2> QED BY <1>1, <2>1, TodoSpares
<1>3. \A k \in 1..Len(wire') : Spares(wire'[k], b)
  <2>1. CASE Connects(c)
    <3>1. wire' = wire
      BY <2>1 DEF Connects
    <3> QED BY <3>1 DEF Spared
  <2>2. CASE Sends(c)
    <3>1. /\ \A k \in 1..Len(wire) : wire'[k] = wire[k]
          /\ wire'[Len(wire) + 1] = c
          /\ \A k \in 1..Len(wire') :
               k \in 1..Len(wire) \/ k = Len(wire) + 1 \/ wire'[k].do = "yes"
      BY <2>2, SendsWire
    <3>2. \A x : x.do = "yes" => Spares(x, b)
      BY HarmlessSpares DEF Harmless
    <3> QED BY <1>2, <3>1, <3>2 DEF Spared
  <2> QED BY <2>1, <2>2 DEF IssueOf
<1> QED BY <1>1, <1>3 DEF Spared

LEMMA SparedUses ==
    ASSUME NEW b, Spared(b), Takes, UseOf
    PROVE  Spared(b)'
<1>1. UNCHANGED <<wire, call>>
  BY DEF Takes
<1>2. stage' \in {stage, "unwind"} \cup Resting
  BY DEF UseOf, Keeps, Escapes, End, GoTo, Unwind, Resting
<1> QED BY <1>1, <1>2 DEF Spared, Resting

\* delete_vlan refuses when a protected port is in the VLAN.
LEMMA ClashSeen ==
    ASSUME Unforced, Typed, NEW b, Noticed(b), stage \notin Resting, call.kind = "delete",
           ~PreconditionFails(call, got), b, Protected # {}
    PROVE  call.vlan = DefaultVlan
<1>1. /\ call \in Calls /\ call \in Call /\ call.vlan \in Vlan
      /\ call.force = (call.kind \in Forced)
  BY CallTyped DEF Calls
<1>2. ~call.force
  BY <1>1 DEF Unforced
<1>3. /\ Exists(got, call.vlan) /\ Info(got, call.vlan).member \cap Protected = {}
  BY <1>2 DEF PreconditionFails
<1> DEFINE S == InfosOf(got, call.vlan)
<1>4. got.infos \in Seq(Entry)
  BY DEF Typed, GotFits
<1>5. S \subseteq Nat /\ S # {}
  BY <1>3, <1>4 DEF InfosOf, Exists
<1>6. Min(S) \in S
  <2> HIDE DEF S
  <2> QED BY <1>5, LeastOf
<1>7. Min(S) \in 1..Len(got.infos) /\ got.infos[Min(S)].vlan = call.vlan
  BY <1>6 DEF InfosOf
<1>8. Info(got, call.vlan) = got.infos[Min(S)]
  BY DEF Info
<1> HIDE DEF S
<1> QED BY <1>1, <1>3, <1>7, <1>8 DEF Noticed

LEMMA SparedTurns ==
    ASSUME Unforced, Typed, NEW b, Spared(b), Noticed(b), Turn
    PROVE  Spared(b)'
<1>1. stage \notin Resting /\ UNCHANGED <<wire, call>>
  BY DEF Turn, sessionVars
<1>2. CASE stage = "before"
  <2>1. Prepare
    BY <1>2 DEF Turn
  <2>2. CASE PreconditionFails(call, got)
    <3>1. stage' = "refused"
      BY <2>1, <2>2 DEF Prepare, End, GoTo
    <3> QED BY <1>1, <3>1 DEF Spared
  <2>3. CASE ~PreconditionFails(call, got)
    <3>1. stage' = IF call.kind = "pvid" THEN "pvids" ELSE "enter"
      BY <2>1, <2>3 DEF Prepare, GoTo
    <3>2. call.kind = "delete" /\ b /\ Protected # {} => call.vlan = DefaultVlan
      BY <1>1, <2>3, ClashSeen
    <3> QED BY <1>1, <3>1, <3>2 DEF Spared
  <2> QED BY <2>2, <2>3
<1>3. CASE stage = "pvids"
  <2>1. stage' = "enter"
    BY <1>3 DEF Turn, GoTo
  <2> QED BY <1>1, <1>3, <2>1 DEF Spared
<1>4. CASE stage = "enter"
  <2>1. stage' = "body"
    BY <1>4 DEF Turn, GoTo
  <2> QED BY <1>1, <1>4, <2>1 DEF Spared
<1>5. CASE stage \notin {"before", "pvids", "enter"}
  <2>1. stage' \notin {"pvids", "enter", "body"}
    BY <1>5 DEF Turn, Judge, Unwound, Unwind, End, GoTo
  <2> QED BY <1>1, <2>1 DEF Spared
<1> QED BY <1>2, <1>3, <1>4, <1>5

LEMMA SparedCalls ==
    ASSUME NEW b, Spared(b), BetweenCalls
    PROVE  Spared(b)'
<1>1. stage' \notin {"pvids", "enter", "body"}
  BY DEF BetweenCalls
<1>2. wire' = wire \/ wire' = <<>>
  BY DEF BetweenCalls
<1>3. \A k \in 1..Len(wire') : Spares(wire'[k], b)
  <2>1. CASE wire' = wire
    BY <2>1 DEF Spared
  <2>2. CASE wire' = <<>>
    <3>1. Len(wire') = 0
      BY <2>2
    <3> QED BY <3>1
  <2> QED BY <1>2, <2>1, <2>2
<1> QED BY <1>1, <1>3 DEF Spared

-----------------------------------------------------------------------------
(***************************************************************************)
(* What a call has read of a VLAN names its protected ports.               *)
(***************************************************************************)
LEMMA FirstPage ==
    ASSUME NEW texts \in Seq(Text), ShowsThem(texts),
           NEW pages, pages = {i \in 1..Len(Tables(texts)) : Tables(texts)[i].of.do = "detail"},
           pages # {}, Tables(texts)[Min(pages)].of.vlan # DefaultVlan
    PROVE  FirstIs(texts, "detail")
<1> DEFINE s == Tables(texts)
           m == Min(pages)
<1>1. s \in Seq(Text) /\ Len(s) \in Nat
  BY TablesIn
<1>2. PICK h : Places(texts, {"table"}, Len(texts), s, h)
  BY SayingOf DEF Tables
<1>3. pages \subseteq Nat
  BY <1>1
<1>4. m \in pages /\ \A i \in pages : m <= i
  BY <1>3, LeastOf
<1>5. pages = {i \in 1..Len(s) : s[i].of.do = "detail"}
  OBVIOUS
<1>6. s[m].of.vlan # DefaultVlan /\ (s # <<>> /\ s[1].of.do = "detail" => FirstIs(texts, "detail"))
  BY DEF FirstIs
<1> HIDE DEF s, m
<1>7. m \in 1..Len(s) /\ s[m].of.do = "detail"
  BY <1>4, <1>5
<1>8. /\ h \in [1..Len(s) -> 1..Len(texts)]
      /\ \A i \in 1..Len(s) : s[i] = texts[h[i]] /\ texts[h[i]].says \in {"table"}
      /\ \A i, k \in 1..Len(s) : i < k => h[i] < h[k]
      /\ \A j \in 1..Len(texts) : texts[j].says \in {"table"} => \E i \in 1..Len(s) : h[i] = j
  BY <1>2 DEF Places
<1>9. Len(texts) \in Nat
  OBVIOUS
<1>10. h[m] \in 1..Len(texts) /\ IsDetail(texts[h[m]]) /\ texts[h[m]].of.vlan # DefaultVlan
  BY <1>6, <1>7, <1>8 DEF IsDetail
<1>11. h[m] = 1 \/ IsDetail(texts[h[m] - 1])
  BY <1>10 DEF ShowsThem
<1>12. CASE m = 1
  <2>1. s # <<>>
    <3>1. Len(<<>>) = 0
      OBVIOUS
    <3> QED BY <1>1, <1>7, <3>1
  <2> QED BY <1>6, <1>7, <1>12, <2>1
<1>13. CASE m # 1
  <2>1. 1 \in 1..Len(s) /\ 1 < m
    BY <1>1, <1>7, <1>13
  <2>2. h[1] < h[m] /\ h[1] \in 1..Len(texts)
    BY <1>7, <1>8, <2>1
  <2>3. h[m] # 1
    BY <1>9, <1>10, <2>2
  <2>4. h[m] - 1 \in 1..Len(texts) /\ texts[h[m] - 1].says \in {"table"}
    BY <1>9, <1>10, <1>11, <2>3 DEF IsDetail
  <2>5. PICK i \in 1..Len(s) : h[i] = h[m] - 1
    BY <1>8, <2>4
  <2>6. s[i].of.do = "detail"
    BY <1>8, <1>11, <2>3, <2>5 DEF IsDetail
  <2>7. m <= i
    BY <1>4, <1>5, <2>6
  <2>8. h[m] <= h[i]
    <3>1. CASE m = i
      BY <1>9, <1>10, <3>1
    <3>2. CASE m < i
      <4>1. h[m] < h[i] /\ h[i] \in 1..Len(texts)
        BY <1>7, <1>8, <3>2
      <4> QED BY <1>9, <1>10, <4>1
    <3> QED BY <1>1, <1>7, <2>7, <3>1, <3>2
  <2> QED BY <1>9, <1>10, <2>5, <2>8
<1> QED BY <1>12, <1>13

\* What a page of one VLAN is read as.
LEMMA DetailSays ==
    ASSUME NEW texts, NEW pages, NEW page,
           pages = {i \in 1..Len(Tables(texts)) : Tables(texts)[i].of.do = "detail"},
           page = Tables(texts)[Min(pages)]
    PROVE  /\ pages = {} => ParseDetail(texts).vlan = NoVlan
           /\ pages # {} =>
                /\ ParseDetail(texts).vlan = page.of.vlan
                /\ ParseDetail(texts).member =
                     IF FirstIs(texts, "detail") /\ page.of.vlan \in page.at.vlans
                     THEN page.at.member[page.of.vlan] ELSE {}
BY DEF ParseDetail

LEMMA ParseNoticed ==
    ASSUME NEW texts \in Seq(Text), ShowsThem(texts), NEW b, b,
           \A i \in 1..Len(texts) : texts[i].says = "table" => Pictured(texts[i].at, b),
           ParseDetail(texts).vlan \in Vlan \ {DefaultVlan}
    PROVE  Protected \subseteq ParseDetail(texts).member
<1> DEFINE pages == {i \in 1..Len(Tables(texts)) : Tables(texts)[i].of.do = "detail"}
           page  == Tables(texts)[Min(pages)]
<1>1. /\ pages = {i \in 1..Len(Tables(texts)) : Tables(texts)[i].of.do = "detail"}
      /\ page = Tables(texts)[Min(pages)]
  OBVIOUS
<1> HIDE DEF pages, page
<1>2. pages # {}
  <2> SUFFICES ASSUME pages = {} PROVE FALSE
    OBVIOUS
  <2>1. ParseDetail(texts).vlan = NoVlan
    BY <1>1, DetailSays
  <2> QED BY <2>1, FastpathShellAssumption
<1>3. /\ ParseDetail(texts).vlan = page.of.vlan
      /\ ParseDetail(texts).member =
           IF FirstIs(texts, "detail") /\ page.of.vlan \in page.at.vlans
           THEN page.at.member[page.of.vlan] ELSE {}
  BY <1>1, <1>2, DetailSays
<1>4. Min(pages) \in 1..Len(Tables(texts))
  <2>1. pages \subseteq 1..Len(Tables(texts)) /\ pages \subseteq Nat
    BY <1>1, TablesIn
  <2> QED BY <1>2, <2>1, LeastOf
<1>5. PICK j \in 1..Len(texts) : page = texts[j] /\ page.says = "table"
  BY <1>1, <1>4, TablesIn
<1>6. Pictured(page.at, b)
  BY <1>5
<1>7. page.of.vlan \in Vlan \ {DefaultVlan}
  BY <1>3
<1>8. FirstIs(texts, "detail")
  BY <1>1, <1>2, <1>7, FirstPage
<1> SUFFICES ASSUME NEW p \in Protected PROVE p \in ParseDetail(texts).member
  OBVIOUS
<1>9. page.of.vlan \in page.at.vlans
  BY <1>6, <1>7 DEF Pictured
<1>10. p \in page.at.member[page.of.vlan]
  BY <1>6, <1>7 DEF Pictured
<1> QED BY <1>3, <1>8, <1>9, <1>10

LEMMA NoticedUses ==
    ASSUME Typed, NEW b, Pictures(b), Noticed(b), ShowsThem(answer.texts), Takes, UseOf
    PROVE  Noticed(b)'
<1>1. got.infos \in Seq(Entry) /\ answer.texts \in Seq(Text)
  BY DEF Typed, GotFits
<1>2. CASE got'.infos = got.infos
  BY <1>2 DEF Noticed
<1>3. CASE got' = Nothing
  <2>1. got'.infos = <<>> /\ Len(<<>>) = 0
    BY <1>3 DEF Nothing
  <2> QED BY <2>1 DEF Noticed
<1>4. CASE Note(answer.texts) /\ got'.infos # got.infos
  <2> DEFINE x == ParseDetail(answer.texts)
  <2>1. got' = Noted(answer.texts)
    BY <1>4 DEF Note
  <2>2. awaiting.do = "detail"
    <3>0. GotFits(got)
      BY DEF Typed
    <3>1. /\ \A y : [got EXCEPT !.pvid = y].infos = got.infos
          /\ \A y : [got EXCEPT !.power = y].infos = got.infos
          /\ \A y : [got EXCEPT !.value = y].infos = got.infos
          /\ \A y : [got EXCEPT !.rows = y].infos = got.infos
      BY <3>0 DEF GotFits
    <3>2. awaiting.do # "detail" => Noted(answer.texts).infos = got.infos
      <4> DEFINE show == awaiting.do
      <4> SUFFICES ASSUME show # "detail" PROVE Noted(answer.texts).infos = got.infos
        OBVIOUS
      <4>1. CASE show = "pvids"
        BY <3>1, <4>1 DEF Noted
      <4>2. CASE show = "power"
        BY <3>1, <4>2 DEF Noted
      <4>3. CASE show = "collectors"
        BY <3>1, <4>3 DEF Noted
      <4>4. CASE show = "label" /\ FirstIs(answer.texts, show)
        BY <3>1, <4>4 DEF Noted
      <4>5. CASE show \in {"ports", "names", "network", "logs"}
        BY <3>1, <4>5 DEF Noted
      <4>6. CASE /\ show \notin {"pvids", "power", "collectors", "ports", "names", "network", "logs"}
                 /\ ~(show = "label" /\ FirstIs(answer.texts, show))
        BY <4>6 DEF Noted
      <4> QED BY <4>1, <4>2, <4>3, <4>4, <4>5, <4>6
    <3> QED BY <1>4, <2>1, <3>2
  <2>3. got' = [got EXCEPT !.infos = Append(got.infos, x)]
    BY <2>1, <2>2 DEF Noted
  <2>4. got'.infos = Append(got.infos, x)
    BY <2>3 DEF Typed, GotFits
  <2>5. x \in Entry
    BY <1>1, DetailTyped
  <2>6. b /\ x.vlan \in Vlan \ {DefaultVlan} => Protected \subseteq x.member
    BY <1>1, ParseNoticed DEF Pictures
  <2> HIDE DEF x
  <2>7. /\ Len(got'.infos) = Len(got.infos) + 1 /\ got'.infos[Len(got.infos) + 1] = x
        /\ \A i \in 1..Len(got.infos) : got'.infos[i] = got.infos[i]
        /\ Len(got.infos) \in Nat
    BY <1>1, <2>4, <2>5, AppendProperties
  <2>8. \A i \in 1..Len(got'.infos) : i \in 1..Len(got.infos) \/ i = Len(got.infos) + 1
    BY <2>7
  <2> QED BY <2>6, <2>7, <2>8 DEF Noticed
<1>5. got' = got \/ got' = Nothing \/ Note(answer.texts)
  BY DEF UseOf, Keeps, Escapes, End, GoTo, Unwind
<1> QED BY <1>2, <1>3, <1>4, <1>5

-----------------------------------------------------------------------------
(***************************************************************************)
(* No call takes anything from a protected port.                           *)
(***************************************************************************)
LEMMA StartPictured == Pictured(Factory, FALSE) /\ Pictured(InUse, TRUE)
<1>1. Protected \subseteq Port
  BY CliCallsAssumption
<1>2. Pictured(Factory, FALSE)
  BY <1>1 DEF Pictured, Factory
<1>3. /\ InUse.pvid = [p \in Port |-> DefaultVlan] /\ InUse.vlans = Vlan
      /\ InUse.member = [v \in Vlan |-> IF v = DefaultVlan THEN {} ELSE Port]
      /\ InUse.untagged = [v \in Vlan |-> IF v = DefaultVlan THEN {} ELSE Port]
  BY DEF InUse, Factory
<1>4. Pictured(InUse, TRUE)
  <2> DEFINE f == InUse
  <2>1. DefaultVlan \in f.vlans /\ f.vlans = Vlan
    BY <1>3, FastpathShellAssumption
  <2>2. ASSUME NEW p \in Protected, NEW v \in Vlan
        PROVE  /\ f.pvid[p] = DefaultVlan
               /\ p \in f.member[v] <=> (v = DefaultVlan) # TRUE
               /\ p \in f.untagged[v] <=> (v = DefaultVlan) # TRUE
    <3>1. p \in Port /\ f.pvid[p] = DefaultVlan
      BY <1>1, <1>3
    <3>2. /\ f.member[v] = IF v = DefaultVlan THEN {} ELSE Port
          /\ f.untagged[v] = IF v = DefaultVlan THEN {} ELSE Port
      BY <1>3
    <3> HIDE DEF f
    <3>3. CASE v = DefaultVlan
      BY <3>1, <3>2, <3>3
    <3>4. CASE v # DefaultVlan
      BY <3>1, <3>2, <3>4
    <3> QED BY <3>3, <3>4
  <2> HIDE DEF f
  <2>3. Pictured(f, TRUE)
    BY <2>1, <2>2, FastpathShellAssumption DEF Pictured
  <2> QED BY <2>3 DEF f
<1> QED BY <1>2, <1>4

LEMMA KeepInit == Init => KeepInv
<1> SUFFICES ASSUME Init PROVE KeepInv
  OBVIOUS
<1>1. PICK f \in {Factory, InUse} : shell = FreshShell(f)
  BY DEF Init, SessionInit
<1>2. shell.config = f
  BY <1>1 DEF FreshShell
<1>3. PICK b \in BOOLEAN : Pictured(f, b)
  BY StartPictured
<1>4. /\ wire = <<>> /\ back = <<>> /\ agenda = <<>> /\ todo = <<>> /\ answer.texts = <<>>
      /\ stage = "idle" /\ got.infos = <<>> /\ Idle /\ Len(<<>>) = 0
  BY DEF Init, SessionInit, Idle, Pending, Nothing
<1>5. Pages
  BY <1>4 DEF Pages, PagesOnWire, PagesInBack, PagesToSend
<1>6. ShowsThem(answer.texts)
  BY <1>4 DEF ShowsThem
<1>7. Spared(b) /\ Noticed(b)
  BY <1>4 DEF Spared, Noticed
<1>8. Pictures(b)
  BY <1>2, <1>3, <1>4 DEF Pictures
<1> QED BY <1>5, <1>6, <1>7, <1>8 DEF KeepInv, KeepOf

LEMMA KeepExecutes ==
    ASSUME LateInv, KeepInv, Executes, UNCHANGED writerVars
    PROVE  KeepInv' /\ Unharmed(shell.config, shell'.config)
<1>1. Typed /\ Aimed
  BY DEF LateInv
<1>2. PICK b \in BOOLEAN : KeepOf(b)
  BY DEF KeepInv
<1>3. Pages'
  BY <1>1, PagesExecutes DEF KeepInv
<1>4. UNCHANGED answer
  BY <1>1, ExecOf
<1>5. ShowsThem(answer.texts)'
  BY <1>4 DEF KeepInv, ShowsThem
<1>6. Spared(b)' /\ Pictures(b)' /\ LeavesThem(shell.config, shell'.config, b)
  BY <1>1, <1>2, SparedExecutes, PicturesExecutes DEF KeepOf
<1>7. Noticed(b)'
  BY <1>2 DEF KeepOf, Noticed, writerVars
<1> QED BY <1>3, <1>5, <1>6, <1>7 DEF KeepInv, KeepOf, LeavesThem

LEMMA KeepReads ==
    ASSUME IInv, LateInv, LateInv', KeepInv, Reads, UNCHANGED writerVars
    PROVE  KeepInv' /\ UNCHANGED shell
<1>0. Typed /\ Attached /\ Typed'
  BY DEF LateInv
<1>1. ReadKeeps
  BY <1>0, ReadsOf DEF ReadKeeps
<1>2. PICK n : ReadOf(n)
  BY <1>0, ReadsOf
<1>3. PICK b \in BOOLEAN : KeepOf(b)
  BY DEF KeepInv
<1>4. Pages' /\ PagesInBack
  BY <1>0, <1>1, <1>2, PagesReads DEF KeepInv, Pages
<1>5. Spared(b)' /\ Pictures(b)'
  BY <1>0, <1>1, <1>2, <1>3, SparedReads, PicturesReads DEF KeepOf
<1>6. ShowsThem(answer.texts)'
  <2>1. CASE ComesBack(n)
    BY <1>0, <1>2, <1>4, <2>1, ShowsReads
  <2>2. CASE ~ComesBack(n)
    <3>1. answer' \in {Pending, Raised, Ended}
      BY <1>2, <2>2 DEF ReadOf, GivesUp, GoesOn
    <3>2. answer'.texts = <<>> /\ Len(<<>>) = 0
      BY <3>1 DEF Pending, Raised, Ended
    <3> QED BY <3>2 DEF ShowsThem
  <2> QED BY <2>1, <2>2
<1>7. Noticed(b)'
  BY <1>3 DEF KeepOf, Noticed, writerVars
<1> QED BY <1>1, <1>4, <1>5, <1>6, <1>7 DEF KeepInv, KeepOf, ReadKeeps

LEMMA KeepIssues ==
    ASSUME Unforced, IInv, LateInv, KeepInv, Issue
    PROVE  KeepInv' /\ UNCHANGED shell
<1>0. Typed /\ Attached /\ Descent /\ StageFits
  BY DEF LateInv, IInv
<1>1. PICK c : IssueOf(c)
  BY <1>0, IssuesOf
<1>2. PICK b \in BOOLEAN : KeepOf(b)
  BY DEF KeepInv
<1>3. /\ UNCHANGED <<shell, got>> /\ back' \in {back, <<>>, <<Prompt>>} /\ answer'.texts = <<>>
      /\ Len(<<>>) = 0
  <2>1. answer' \in {Raised, Pending}
    BY <1>1 DEF IssueOf, Connects, Sends
  <2>2. answer'.texts = <<>>
    BY <2>1 DEF Raised, Pending
  <2> QED BY <1>1, <2>2 DEF IssueOf, Connects, Sends
<1>4. Pages'
  BY <1>0, <1>1, PagesIssues DEF KeepInv
<1>5. ShowsThem(answer.texts)'
  BY <1>3 DEF ShowsThem
<1>6. Spared(b)'
  BY <1>0, <1>1, <1>2, SparedIssues DEF KeepOf
<1>7. Pictures(b)'
  BY <1>2, <1>3, PicturesStay DEF KeepOf
<1>8. Noticed(b)'
  BY <1>2, <1>3 DEF KeepOf, Noticed
<1> QED BY <1>3, <1>4, <1>5, <1>6, <1>7, <1>8 DEF KeepInv, KeepOf

LEMMA KeepUses ==
    ASSUME IInv, LateInv, KeepInv, Use
    PROVE  KeepInv' /\ UNCHANGED shell
<1>0. Typed
  BY DEF LateInv
<1>1. Takes /\ UseOf
  BY UsesOf
<1>2. PICK b \in BOOLEAN : KeepOf(b)
  BY DEF KeepInv
<1>3. /\ UNCHANGED <<shell, wire, back>> /\ answer'.texts = <<>> /\ Len(<<>>) = 0
  BY <1>1 DEF Takes, Pending
<1>4. Pages'
  BY <1>0, <1>1, <1>2, PagesUses DEF KeepInv, KeepOf
<1>5. ShowsThem(answer.texts)'
  BY <1>3 DEF ShowsThem
<1>6. Spared(b)'
  BY <1>1, <1>2, SparedUses DEF KeepOf
<1>7. Pictures(b)'
  BY <1>2, <1>3, PicturesStay DEF KeepOf
<1>8. Noticed(b)'
  BY <1>0, <1>1, <1>2, NoticedUses DEF KeepInv, KeepOf
<1> QED BY <1>3, <1>4, <1>5, <1>6, <1>7, <1>8 DEF KeepInv, KeepOf

LEMMA KeepTurns ==
    ASSUME Unforced, IInv, IInv', LateInv, LateInv', KeepInv, Turn
    PROVE  KeepInv' /\ UNCHANGED shell
<1>0. Typed /\ Typed' /\ StageFits'
  BY DEF LateInv, IInv
<1>1. TurnOf
  BY <1>0, TurnsOf
<1>2. PICK b \in BOOLEAN : KeepOf(b)
  BY DEF KeepInv
<1>3. UNCHANGED <<shell, wire, back, answer>> /\ got'.infos = <<>> /\ Len(<<>>) = 0
  BY <1>1 DEF TurnOf, Nothing
<1>4. Pages'
  BY <1>0, <1>1, PagesTurns DEF KeepInv
<1>5. ShowsThem(answer.texts)'
  BY <1>3 DEF KeepInv, ShowsThem
<1>6. Spared(b)'
  BY <1>0, <1>2, SparedTurns DEF KeepOf
<1>7. Pictures(b)'
  BY <1>2, <1>3, PicturesStay DEF KeepOf
<1>8. Noticed(b)'
  BY <1>3 DEF Noticed
<1> QED BY <1>3, <1>4, <1>5, <1>6, <1>7, <1>8 DEF KeepInv, KeepOf

LEMMA KeepCalls ==
    ASSUME IInv, IInv', LateInv, KeepInv, BetweenCalls
    PROVE  KeepInv' /\ shell'.config = shell.config
<1>0. StageFits'
  BY DEF IInv
<1>1. PICK b \in BOOLEAN : KeepOf(b)
  BY DEF KeepInv
<1>2. /\ UNCHANGED answer /\ (got' = got \/ got'.infos = <<>>) /\ Len(<<>>) = 0
      /\ shell'.config = shell.config /\ back' \in {back, <<>>, <<Prompt>>}
  BY DEF BetweenCalls, FreshShell, Nothing
<1>3. Pages'
  BY <1>0, PagesCalls DEF KeepInv
<1>4. ShowsThem(answer.texts)'
  BY <1>2 DEF KeepInv, ShowsThem
<1>5. Spared(b)'
  BY <1>1, SparedCalls DEF KeepOf
<1>6. Pictures(b)'
  BY <1>1, <1>2, PicturesStay DEF KeepOf
<1>7. Noticed(b)'
  BY <1>1, <1>2 DEF KeepOf, Noticed
<1> QED BY <1>2, <1>3, <1>4, <1>5, <1>6, <1>7 DEF KeepInv, KeepOf

LEMMA KeepStep ==
    ASSUME Unforced, IInv, IInv', LateInv, LateInv', KeepInv, [Next]_vars
    PROVE  KeepInv' /\ (Unharmed(shell.config, shell'.config) \/ shell'.config = shell.config)
<1>0. Typed
  BY DEF LateInv
<1>1. CASE Invoke
  BY <1>0, <1>1, CallsInvoke, KeepCalls
<1>2. CASE Issue
  BY <1>2, KeepIssues
<1>3. CASE Use
  BY <1>3, KeepUses
<1>4. CASE Turn
  BY <1>4, KeepTurns
<1>5. CASE Session
  <2>1. UNCHANGED writerVars
    BY <1>5 DEF Session
  <2>2. CASE Executes
    BY <2>1, <2>2, KeepExecutes
  <2>3. CASE Receive \/ TimesOut \/ StreamEnds
    BY <2>1, <2>3, KeepReads DEF Reads
  <2>4. CASE stage \in Resting /\ Close
    BY <1>0, <2>1, <2>4, CallsClose, KeepCalls
  <2> QED BY <1>5, <2>2, <2>3, <2>4 DEF Session
<1>6. CASE UNCHANGED vars
  <2>1. /\ UNCHANGED <<shell, wire, back, driver, agenda, awaiting, answer>>
        /\ UNCHANGED <<call, stage, todo, got>>
    BY <1>6 DEF vars, sessionVars, writerVars
  <2>2. Pages' /\ ShowsThem(answer.texts)'
    BY <2>1 DEF KeepInv, Pages, PagesOnWire, PagesInBack, PagesToSend, PageLast, LastSent, Before,
                Idle, Broken, ShowsThem
  <2>3. PICK b \in BOOLEAN : KeepOf(b)
    BY DEF KeepInv
  <2>4. KeepOf(b)'
    BY <2>1, <2>3 DEF KeepOf, Spared, Pictures, Noticed
  <2> QED BY <2>1, <2>2, <2>4 DEF KeepInv
<1> QED BY <1>1, <1>2, <1>3, <1>4, <1>5, <1>6 DEF Next

(***************************************************************************)
(* A protected port keeps its VLANs, its PVID, its settings, its link and  *)
(* its power whatever is called, in step or not, by callers that force no  *)
(* call for a port and no deletion of a VLAN (_guard, delete_vlan).        *)
(***************************************************************************)
THEOREM ProtectedProved == Unforced => (Spec => ProtectedKept)
<1> SUFFICES ASSUME Unforced PROVE Spec => ProtectedKept
  OBVIOUS
<1>1. Init => KeepInv
  BY KeepInit
<1>2. IInv /\ IInv' /\ LateInv /\ LateInv' /\ KeepInv /\ [Next]_vars => KeepInv'
  BY KeepStep
<1> DEFINE Kept ==
      \A p \in Protected :
         /\ shell.config'.pvid[p] = shell.config.pvid[p]
         /\ \A v \in Vlan :
              /\ p \in shell.config'.member[v] <=> p \in shell.config.member[v]
              /\ p \in shell.config'.untagged[v] <=> p \in shell.config.untagged[v]
         /\ \A s \in PortSettings \ {"admin"} :
              shell.config'.setting[s][p] = shell.config.setting[s][p]
         /\ shell.config.setting["admin"][p] => shell.config'.setting["admin"][p]
         /\ shell.config'.power[p] = "off" => shell.config.power[p] = "off"
         /\ p \in shell.config'.reset => p \in shell.config.reset
<1>3. IInv /\ IInv' /\ LateInv /\ LateInv' /\ KeepInv /\ [Next]_vars => [Kept]_vars
  <2> SUFFICES ASSUME IInv, IInv', LateInv, LateInv', KeepInv, [Next]_vars PROVE Kept
    OBVIOUS
  <2>1. Unharmed(shell.config, shell'.config) \/ shell'.config = shell.config
    BY KeepStep
  <2> QED BY <2>1 DEF Unharmed
<1>4. ProtectedKept <=> [][Kept]_vars
  BY DEF ProtectedKept
<1> HIDE DEF Kept
<1> QED BY <1>1, <1>2, <1>3, <1>4, LateInvariant, PTL DEF Spec
=============================================================================
