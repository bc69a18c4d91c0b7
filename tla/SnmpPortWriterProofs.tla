------------------------ MODULE SnmpPortWriterProofs ------------------------
(***************************************************************************)
(* What TLAPS proves of SnmpPortWriter: its safety properties, for any     *)
(* number of clients, ports, collector rows, calls, losses and events.     *)
(* And, at the end, of SnmpFace, the agent that its SETs go to.            *)
(***************************************************************************)
EXTENDS SnmpPortWriter, SnmpFace, WellFoundedInduction, TLAPS

-----------------------------------------------------------------------------
(***************************************************************************)
(* The operators of the agent.                                             *)
(***************************************************************************)
LEMMA WritesTyped ==
    ASSUME NEW s \in DeviceState, NEW p \in Port, NEW on \in BOOLEAN, NEW i \in Index
    PROVE  /\ WritePoeAdmin(s, p, on) \in DeviceState
           /\ WritePortEnabled(s, p, on) \in DeviceState
           /\ WriteLabel(s, p, on) \in DeviceState
           /\ WriteLogging(s, on) \in DeviceState
           /\ WriteName(s, on) \in DeviceState
           /\ DestroyCollector(s, i) \in DeviceState
           /\ WriteMgmt(s) \in DeviceState
<1>1. WritePoeAdmin(s, p, on) \in DeviceState
  BY DEF WritePoeAdmin, DeviceState
<1>2. WritePortEnabled(s, p, on) \in DeviceState
  BY DEF WritePortEnabled, DeviceState
<1>3. WriteLabel(s, p, on) \in DeviceState
  BY DEF WriteLabel, DeviceState
<1>4. WriteLogging(s, on) \in DeviceState
  BY DEF WriteLogging, DeviceState
<1>5. WriteName(s, on) \in DeviceState
  BY DEF WriteName, DeviceState
<1>6. DestroyCollector(s, i) \in DeviceState
  BY DEF DestroyCollector, DeviceState
<1>7. WriteMgmt(s) \in DeviceState
  BY DEF WriteMgmt, DeviceState
<1> QED BY <1>1, <1>2, <1>3, <1>4, <1>5, <1>6, <1>7

\* A set of row indexes that is not empty has a first one.
LEMMA FirstIndex ==
    ASSUME NEW S, S \subseteq Nat, S # {}
    PROVE  \E i \in S : \A j \in S : i <= j
<1> DEFINE Less == OpToRel(<, Nat)
<1>1. IsWellFoundedOn(Less, Nat)
  BY NatLessThanWellFounded
<1>2. PICK i \in S : \A j \in S : <<j, i>> \notin Less
  BY <1>1, WFMin
<1>3. Less = {ss \in Nat \X Nat : ss[1] < ss[2]}
  BY DEF OpToRel
<1> HIDE DEF Less
<1>4. \A j \in S : ~(j < i)
  <2> SUFFICES ASSUME NEW j \in S, j < i PROVE <<j, i>> \in Less
    BY <1>2
  <2>1. <<j, i>> \in Nat \X Nat /\ <<j, i>>[1] = j /\ <<j, i>>[2] = i
    BY <1>2
  <2> QED BY <1>3, <2>1
<1> QED BY <1>2, <1>4

LEMMA RowTyped ==
    ASSUME TypeOK, NEW h, IndexesOf(dev, h) # {}
    PROVE  RowOf(h) \in Index /\ dev.rows[RowOf(h)] = h
<1>1. IndexesOf(dev, h) \subseteq Nat
  BY PortAgentAssumption DEF IndexesOf
<1>2. \E i \in IndexesOf(dev, h) : \A j \in IndexesOf(dev, h) : i <= j
  BY <1>1, FirstIndex
<1>3. FirstRow(h) \in IndexesOf(dev, h)
  BY <1>2 DEF FirstRow
<1> QED BY <1>3 DEF RowOf, IndexesOf

-----------------------------------------------------------------------------
(***************************************************************************)
(* Types.                                                                  *)
(***************************************************************************)
Pc == Resting \cup Reads \cup Sets

LEMMA NothingTyped == Nothing \in Saw /\ NoCall \in Operation
<1>1. \E i \in Index : TRUE
  BY PortAgentAssumption
<1>2. PICK p \in Port, h \in Host : TRUE
  BY PortAgentAssumption
<1>3. [kind |-> "poe", port |-> p, on |-> TRUE, host |-> h, force |-> TRUE] \in Operation
  BY DEF Operation, Kinds, OneSet
<1> QED BY <1>1, <1>3 DEF Nothing, Saw, NoCall

LEMMA CallsTyped ==
    ASSUME NEW w \in Writer
    PROVE  Calls(w) \subseteq Operation
<1>1. (CHOOSE x \in Port : TRUE) \in Port /\ (CHOOSE x \in Host : TRUE) \in Host
  BY PortAgentAssumption
<1>2. \A k : {k} \cap Kind[w] \subseteq Kinds
  BY SnmpPortWriterAssumption
<1>3. \A k : {FALSE} \cup {k \in Forced} \subseteq BOOLEAN
  OBVIOUS
<1> DEFINE p == {CHOOSE x \in Port : TRUE}
           h == {CHOOSE x \in Host : TRUE}
           Call(kind, ports, ons, hosts) ==
             [kind : {kind} \cap Kind[w], port : ports, on : ons, host : hosts,
              force : {FALSE} \cup {kind \in Forced}]
<1>4. ASSUME NEW k, NEW ports, ports \subseteq Port, NEW ons, ons \subseteq BOOLEAN,
             NEW hosts, hosts \subseteq Host
      PROVE  Call(k, ports, ons, hosts) \subseteq Operation
  BY <1>2, <1>3, <1>4 DEF Operation
<1>5. p \subseteq Port /\ h \subseteq Host /\ {TRUE} \subseteq BOOLEAN
  BY <1>1
<1>6. Calls(w) =
        UNION {Call("poe", Port, BOOLEAN, h), Call("enable", Port, BOOLEAN, h),
               Call("describe", Port, BOOLEAN, h), Call("cycle", Port, {TRUE}, h),
               Call("clear", Port, {TRUE}, h), Call("logging", p, BOOLEAN, h),
               Call("rename", p, BOOLEAN, h), Call("address", p, {TRUE}, h),
               Call("collector", p, {TRUE}, Host)}
  BY DEF Calls
<1> HIDE DEF Call, p, h
<1> QED
  <2>1. /\ Call("poe", Port, BOOLEAN, h) \subseteq Operation
        /\ Call("enable", Port, BOOLEAN, h) \subseteq Operation
        /\ Call("describe", Port, BOOLEAN, h) \subseteq Operation
        /\ Call("cycle", Port, {TRUE}, h) \subseteq Operation
        /\ Call("clear", Port, {TRUE}, h) \subseteq Operation
        /\ Call("logging", p, BOOLEAN, h) \subseteq Operation
        /\ Call("rename", p, BOOLEAN, h) \subseteq Operation
        /\ Call("address", p, {TRUE}, h) \subseteq Operation
        /\ Call("collector", p, {TRUE}, Host) \subseteq Operation
    BY <1>4, <1>5
  <2> QED BY <1>6, <2>1

LEMMA GotoTyped ==
    ASSUME TypeOK, NEW w \in Writer, NEW to \in Pc, Goto(w, to)
    PROVE  pc' \in [Writer -> Pc] /\ tries' \in [Writer -> 0..Retries]
BY SnmpPortWriterAssumption DEF TypeOK, Goto, Pc

LEMMA EndTyped ==
    ASSUME TypeOK, NEW w \in Writer, NEW how \in Resting, End(w, how)
    PROVE  /\ pc' \in [Writer -> Pc] /\ tries' \in [Writer -> 0..Retries]
           /\ saw' \in [Writer -> Saw] /\ polls' \in [Writer -> 0..MaxPolls]
           /\ told' \subseteq Port
<1>1. pc' \in [Writer -> Pc] /\ tries' \in [Writer -> 0..Retries]
  BY GotoTyped DEF End, Pc
<1>2. saw' \in [Writer -> Saw] /\ polls' \in [Writer -> 0..MaxPolls]
  BY NothingTyped, SnmpPortWriterAssumption DEF End, TypeOK
<1>3. op[w].port \in Port
  BY DEF TypeOK, Operation
<1> QED BY <1>1, <1>2, <1>3 DEF End, TypeOK

LEMMA BecomesTyped ==
    ASSUME TypeOK, NEW s \in DeviceState, Becomes(s)
    PROVE  dev' \in DeviceState /\ cut' \in [Writer -> BOOLEAN]
BY DEF TypeOK, Becomes, Rearming

LEMMA RetryTyped ==
    ASSUME TypeOK, NEW w \in Writer, Retry(w)
    PROVE  /\ pc' \in [Writer -> Pc] /\ tries' \in [Writer -> 0..Retries]
           /\ saw' \in [Writer -> Saw] /\ polls' \in [Writer -> 0..MaxPolls]
           /\ told' \subseteq Port
<1>1. CASE End(w, "failed")
  BY <1>1, EndTyped DEF Resting, Ended
<1>2. CASE /\ tries[w] < Retries
           /\ tries' = [tries EXCEPT ![w] = @ + 1]
           /\ UNCHANGED <<pc, saw, polls, told>>
  <2>1. tries[w] + 1 \in 0..Retries
    BY <1>2, SnmpPortWriterAssumption DEF TypeOK
  <2> QED BY <1>2, <2>1 DEF TypeOK, Pc
<1> QED BY <1>1, <1>2 DEF Retry

LEMMA LosesTyped ==
    ASSUME TypeOK, Loses
    PROVE  lost' \in 0..MaxLoss
BY SnmpPortWriterAssumption DEF TypeOK, Loses

LEMMA ExpiresTyped ==
    ASSUME TypeOK, NEW w \in Writer, NEW again \in Pc, Expires(w, again)
    PROVE  /\ pc' \in [Writer -> Pc] /\ tries' \in [Writer -> 0..Retries]
           /\ polls' \in [Writer -> 0..MaxPolls]
<1>1. CASE Goto(w, "lastLook") /\ UNCHANGED polls
  BY <1>1, GotoTyped DEF TypeOK, Pc, Reads
<1>2. CASE /\ polls[w] < MaxPolls
           /\ polls' = [polls EXCEPT ![w] = @ + 1]
           /\ Goto(w, again)
  <2>1. polls[w] + 1 \in 0..MaxPolls
    BY <1>2, SnmpPortWriterAssumption DEF TypeOK
  <2> QED BY <1>2, <2>1, GotoTyped DEF TypeOK
<1> QED BY <1>1, <1>2 DEF Expires

LEMMA TransmitTyped ==
    ASSUME TypeOK, NEW w \in Writer, NEW at, NEW accepted \in BOOLEAN, NEW s,
           accepted => s \in DeviceState, NEW next \in Pc,
           Transmit(w, at, accepted, s, next)
    PROVE  TypeOK'
<1>1. UNCHANGED <<op, started, events, fresh>>
  BY DEF Transmit
<1>2. CASE accepted /\ Becomes(s) /\ Goto(w, next) /\ polls' = [polls EXCEPT ![w] = 0]
           /\ UNCHANGED <<saw, told, lost>>
  BY <1>1, <1>2, BecomesTyped, GotoTyped, SnmpPortWriterAssumption DEF TypeOK, Pc
<1>3. CASE End(w, "failed") /\ UNCHANGED <<dev, cut, lost>>
  BY <1>1, <1>3, EndTyped DEF TypeOK, Pc, Resting, Ended
<1>4. CASE Loses /\ (UNCHANGED <<dev, cut>> \/ (accepted /\ Becomes(s))) /\ Retry(w)
  <2>1. dev' \in DeviceState /\ cut' \in [Writer -> BOOLEAN]
    BY <1>4, BecomesTyped DEF TypeOK
  <2> QED BY <1>1, <1>4, <2>1, LosesTyped, RetryTyped DEF TypeOK, Pc
<1> QED BY <1>2, <1>3, <1>4 DEF Transmit

LEMMA ReadTypes ==
    ASSUME TypeOK, NEW w \in Writer,
           \/ ReadBefore(w) \/ ReadAfter(w) \/ PollDetect(w) \/ PollLink(w)
           \/ PollBack(w) \/ LastLook(w) \/ LoseRead(w)
    PROVE  TypeOK'
<1> USE DEF Pc, Resting, Ended, Reads, Sets
<1>1. CASE ReadBefore(w)
  <2>1. CASE End(w, "failed")
    BY <1>1, <2>1, EndTyped DEF TypeOK, ReadBefore
  <2>2. CASE ~(op[w].kind = "collector" /\ IndexesOf(dev, op[w].host) = {})
    <3> DEFINE i == IF op[w].kind = "collector" THEN RowOf(op[w].host) ELSE saw[w].index
               b == op[w].kind = "cycle" /\ dev.detect[op[w].port] = "delivering"
    <3>1. i \in Index /\ saw[w] \in Saw
      BY <2>2, RowTyped DEF TypeOK, Saw
    <3>2. b \in BOOLEAN
      OBVIOUS
    <3>3. saw' = [saw EXCEPT ![w].delivering = b, ![w].index = i]
      BY <1>1, <2>2 DEF ReadBefore
    <3> HIDE DEF i, b
    <3>4. saw' \in [Writer -> Saw]
      BY <3>1, <3>2, <3>3 DEF TypeOK, Saw
    <3>5. PICK to \in Pc : Goto(w, to)
      BY <1>1, <2>2 DEF ReadBefore
    <3>6. UNCHANGED <<polls, told, dev, op, lost, started, events, cut, fresh>>
      BY <1>1, <2>2 DEF ReadBefore
    <3> QED BY <3>4, <3>5, <3>6, GotoTyped DEF TypeOK
  <2> QED BY <1>1, <2>1, <2>2 DEF ReadBefore
<1>2. CASE ReadAfter(w)
  BY <1>2, EndTyped DEF TypeOK, ReadAfter
<1>3. CASE PollDetect(w)
  <2>1. saw' \in [Writer -> Saw]
    <3> DEFINE b == LooksOff(dev.detect[op[w].port])
    <3>1. b \in BOOLEAN
      BY DEF LooksOff
    <3>2. saw' = [saw EXCEPT ![w].off = b]
      BY <1>3 DEF PollDetect
    <3> HIDE DEF b
    <3> QED BY <3>1, <3>2 DEF TypeOK, Saw
  <2>2. /\ Goto(w, "pollLink")
        /\ UNCHANGED <<dev, op, polls, lost, started, events, cut, told, fresh>>
    BY <1>3 DEF PollDetect, history
  <2> QED BY <2>1, <2>2, GotoTyped DEF TypeOK
<1>4. CASE PollLink(w)
  <2>1. saw' \in [Writer -> Saw]
    BY <1>4 DEF PollLink, TypeOK, Saw
  <2>2. CASE Goto(w, "setOn") /\ UNCHANGED polls
    BY <1>4, <2>1, <2>2, GotoTyped DEF TypeOK, PollLink, history
  <2>3. CASE Expires(w, "pollDetect")
    BY <1>4, <2>1, <2>3, ExpiresTyped DEF TypeOK, PollLink, history
  <2> QED BY <1>4, <2>2, <2>3 DEF PollLink
<1>5. CASE PollBack(w)
  <2>1. CASE End(w, "ok")
    BY <1>5, <2>1, EndTyped DEF TypeOK, PollBack
  <2>2. CASE Expires(w, "pollBack") /\ UNCHANGED <<saw, told>>
    BY <1>5, <2>2, ExpiresTyped DEF TypeOK, PollBack
  <2> QED BY <1>5, <2>1, <2>2 DEF PollBack
<1>6. CASE LastLook(w)
  BY <1>6, EndTyped DEF TypeOK, LastLook
<1>7. CASE LoseRead(w)
  BY <1>7, RetryTyped, LosesTyped DEF TypeOK, LoseRead
<1> QED BY <1>1, <1>2, <1>3, <1>4, <1>5, <1>6, <1>7

LEMMA SetTypes ==
    ASSUME TypeOK, NEW w \in Writer,
           SetColumn(w) \/ SetMgmt(w) \/ SetDestroy(w) \/ SetOff(w) \/ SetOn(w)
    PROVE  TypeOK'
<1> USE DEF Pc, Resting, Ended, Reads, Sets
<1>1. dev \in DeviceState /\ op[w].port \in Port /\ op[w].on \in BOOLEAN /\ saw[w].index \in Index
  BY DEF TypeOK, Operation, Saw
<1>2. CASE SetColumn(w)
  <2>1. PICK s \in DeviceState : Transmit(w, "set", TRUE, s, "after")
    <3>1. /\ op[w].kind = "poe" => Transmit(w, "set", TRUE, WritePoeAdmin(dev, op[w].port, op[w].on), "after")
          /\ op[w].kind = "enable" => Transmit(w, "set", TRUE, WritePortEnabled(dev, op[w].port, op[w].on), "after")
          /\ op[w].kind = "describe" => Transmit(w, "set", TRUE, WriteLabel(dev, op[w].port, op[w].on), "after")
          /\ op[w].kind = "logging" => Transmit(w, "set", TRUE, WriteLogging(dev, op[w].on), "after")
          /\ op[w].kind = "rename" => Transmit(w, "set", TRUE, WriteName(dev, op[w].on), "after")
      BY <1>2 DEF SetColumn
    <3>2. op[w].kind \in OneSet
      BY <1>2 DEF SetColumn
    <3> QED BY <1>1, <3>1, <3>2, WritesTyped DEF OneSet
  <2> QED BY <2>1, TransmitTyped
<1>3. CASE SetMgmt(w)
  <2>1. PICK accepted \in BOOLEAN : Transmit(w, "set", accepted, WriteMgmt(dev), "after")
    BY <1>3 DEF SetMgmt
  <2> QED BY <1>1, <2>1, WritesTyped, TransmitTyped
<1>4. CASE SetDestroy(w)
  <2>1. DestroyAccepted(dev, saw[w].index) \in BOOLEAN
    BY DEF DestroyAccepted
  <2> QED BY <1>1, <1>4, <2>1, WritesTyped, TransmitTyped DEF SetDestroy
<1>5. CASE SetOff(w)
  BY <1>1, <1>5, WritesTyped, TransmitTyped DEF SetOff
<1>6. CASE SetOn(w)
  BY <1>1, <1>6, WritesTyped, TransmitTyped DEF SetOn
<1> QED BY <1>2, <1>3, <1>4, <1>5, <1>6

LEMMA OtherTypes ==
    ASSUME TypeOK,
           \/ \E w \in Writer : Invoke(w)
           \/ \E p \in Port : DetectSettles(p) \/ LinkSettles(p)
           \/ SomethingHappens
    PROVE  TypeOK'
<1>1. ASSUME NEW w \in Writer, Invoke(w) PROVE TypeOK'
  <2>1. PICK o \in Operation :
          /\ op' = [op EXCEPT ![w] = o]
          /\ pc' = [pc EXCEPT ![w] = IF GuardRaises(o) THEN "refused" ELSE "before"]
          /\ cut' = [cut EXCEPT ![w] = o.kind \in Rearms /\ dev.detect[o.port] # "delivering"]
          /\ told' = IF o.kind = "poe" /\ ~o.on THEN told \cup {o.port} ELSE told
    BY <1>1, CallsTyped DEF Invoke
  <2>2. op' \in [Writer -> Operation]
    BY <2>1 DEF TypeOK
  <2>3. pc' \in [Writer -> Resting \cup Reads \cup Sets]
    BY <2>1 DEF TypeOK, Resting, Ended, Reads
  <2>4. told' \subseteq Port
    BY <2>1 DEF TypeOK, Operation
  <2>5. cut' \in [Writer -> BOOLEAN]
    BY <2>1 DEF TypeOK
  <2>6. started[w] + 1 \in 0..MaxOps
    BY <1>1, SnmpPortWriterAssumption DEF Invoke, TypeOK
  <2>7. started' \in [Writer -> 0..MaxOps]
    BY <1>1, <2>6 DEF Invoke, TypeOK
  <2>8. UNCHANGED <<dev, saw, polls, tries, lost, events, fresh>>
    BY <1>1 DEF Invoke
  <2> QED BY <2>2, <2>3, <2>4, <2>5, <2>7, <2>8 DEF TypeOK
<1>2. ASSUME NEW p \in Port, DetectSettles(p) PROVE TypeOK'
  <2>1. Detected(dev, p) \in Detect
    BY DEF Detected, Detect
  <2>2. [dev EXCEPT !.detect[p] = Detected(dev, p)] \in DeviceState
    BY <2>1 DEF TypeOK, DeviceState
  <2> QED BY <1>2, <2>2, BecomesTyped DEF DetectSettles, TypeOK
<1>3. ASSUME NEW p \in Port, LinkSettles(p) PROVE TypeOK'
  <2>1. LinkFollows(dev, p) \in BOOLEAN
    BY DEF LinkFollows, TypeOK, DeviceState
  <2>2. [dev EXCEPT !.link[p] = LinkFollows(dev, p)] \in DeviceState
    BY <2>1 DEF TypeOK, DeviceState
  <2> QED BY <1>3, <2>2 DEF LinkSettles, TypeOK, history
<1>4. CASE SomethingHappens
  <2>1. events' \in 0..MaxEvents
    BY <1>4, SnmpPortWriterAssumption DEF SomethingHappens, TypeOK
  <2>2. UNCHANGED <<pc, op, saw, polls, tries, lost, started, cut, told>>
    BY <1>4 DEF SomethingHappens
  <2>3. dev' \in DeviceState /\ fresh' \subseteq Index
    <3>1. ASSUME NEW p \in Socket, NEW x \in Plug
          PROVE  [dev EXCEPT !.plugged[p] = x] \in DeviceState
      BY SnmpPortWriterAssumption DEF TypeOK, DeviceState
    <3>2. ASSUME NEW i \in Index, NEW h \in Host
          PROVE  [dev EXCEPT !.rows[i] = h] \in DeviceState
      BY DEF TypeOK, DeviceState
    <3> QED BY <1>4, <3>1, <3>2 DEF SomethingHappens, TypeOK
  <2> QED BY <2>1, <2>2, <2>3 DEF TypeOK
<1> QED BY <1>1, <1>2, <1>3, <1>4

LEMMA InitTypes == Init => TypeOK
<1> SUFFICES ASSUME Init PROVE TypeOK
  OBVIOUS
<1>1. dev \in DeviceState /\ told \subseteq Port
  BY PortAgentAssumption DEF Init
<1> QED BY <1>1, NothingTyped, SnmpPortWriterAssumption DEF Init, TypeOK, Resting

LEMMA TypeKept ==
    ASSUME TypeOK, [Next]_vars
    PROVE  TypeOK'
<1>1. CASE Next
  BY <1>1, ReadTypes, SetTypes, OtherTypes DEF Next, Step
<1>2. CASE UNCHANGED vars
  BY <1>2 DEF TypeOK, vars, history
<1> QED BY <1>1, <1>2

(***************************************************************************)
(* Types are kept, whatever clients, hardware and other managers do: in    *)
(* particular the row that remove_syslog_collector destroys is always one  *)
(* of the table.                                                           *)
(***************************************************************************)
THEOREM TypeCorrect == Spec => []TypeOK
BY InitTypes, TypeKept, PTL DEF Spec

-----------------------------------------------------------------------------
(***************************************************************************)
(* What a step of a client's call amounts to: where the call goes, whom it *)
(* tells, and which columns of the switch it touches.                      *)
(***************************************************************************)
Flows(w) ==
    \/ pc'[w] = pc[w]
    \/ pc'[w] \in {"failed", "diverged"}
    \/ pc[w] = "before" /\ pc'[w] = (IF op[w].kind \in Rearms THEN "setOff" ELSE "set")
    \/ pc[w] = "set" /\ op[w].kind \notin Rearms /\ pc'[w] = "after"
    \/ pc[w] = "after" /\ pc'[w] = "ok" /\ Verified(dev, op[w]) /\ dev' = dev
    \/ pc[w] = "setOff" /\ pc'[w] = "pollDetect"
    \/ pc[w] = "pollDetect" /\ pc'[w] = "pollLink"
    \/ pc[w] = "pollLink" /\ pc'[w] = "setOn" /\ saw[w].off
    \/ pc[w] = "pollLink" /\ pc'[w] \in {"pollDetect", "lastLook"}
    \/ pc[w] = "setOn" /\ pc'[w] = "pollBack" /\ dev'.admin[op[w].port]
    \/ pc[w] = "pollBack" /\ pc'[w] \in {"ok", "lastLook"}

Tells(w) ==
    /\ told \subseteq told'
    /\ pc'[w] \in Resting => saw'[w] = Nothing
    /\ pc'[w] \in {"failed", "diverged"} /\ op[w].kind \in Rearms => op[w].port \in told'

Sees(w) ==
    \/ pc'[w] \in Resting /\ saw'[w] = Nothing
    \/ saw'[w] = saw[w] /\ (pc'[w] = pc[w] \/ pc[w] \notin {"before", "pollLink"})
    \/ /\ pc[w] = "before" /\ saw'[w].off = saw[w].off
       /\ op[w].kind = "collector" => dev.rows[saw'[w].index] = op[w].host
    \/ /\ pc[w] = "pollDetect" /\ pc'[w] = "pollLink"
       /\ saw'[w].off => dev.detect[op[w].port] # "delivering"
    \/ pc[w] = "pollLink" /\ ~saw'[w].off

Touches(w) ==
    /\ dev'.detect = dev.detect
    /\ \/ dev'.admin = dev.admin
       \/ /\ pc[w] = "set" /\ op[w].kind = "poe"
          /\ dev'.admin = [dev.admin EXCEPT ![op[w].port] = op[w].on]
       \/ /\ pc[w] = "setOff"
          /\ dev'.admin = [dev.admin EXCEPT ![op[w].port] = FALSE]
       \/ /\ pc[w] = "setOn"
          /\ dev'.admin = [dev.admin EXCEPT ![op[w].port] = TRUE]
    /\ \/ dev'.rows = dev.rows
       \/ /\ pc[w] = "set" /\ op[w].kind = "collector"
          /\ dev'.rows = [dev.rows EXCEPT ![saw[w].index] = NoHost]

Advances(w) ==
    /\ pc[w] \notin Resting
    /\ op' = op /\ fresh' = fresh
    /\ \A v \in Writer : cut[v] => cut'[v]
    /\ \A v \in Writer \ {w} : pc'[v] = pc[v] /\ saw'[v] = saw[v]
    /\ Flows(w) /\ Tells(w) /\ Sees(w) /\ Touches(w)

LEMMA WritesTouch ==
    ASSUME NEW s \in DeviceState, NEW p \in Port, NEW on \in BOOLEAN, NEW i \in Index
    PROVE  /\ WritePoeAdmin(s, p, on).admin = [s.admin EXCEPT ![p] = on]
           /\ WritePoeAdmin(s, p, on).rows = s.rows
           /\ WritePoeAdmin(s, p, on).detect = s.detect
           /\ WritePortEnabled(s, p, on).admin = s.admin
           /\ WritePortEnabled(s, p, on).rows = s.rows
           /\ WritePortEnabled(s, p, on).detect = s.detect
           /\ WriteLabel(s, p, on).admin = s.admin
           /\ WriteLabel(s, p, on).rows = s.rows
           /\ WriteLabel(s, p, on).detect = s.detect
           /\ WriteLogging(s, on).admin = s.admin
           /\ WriteLogging(s, on).rows = s.rows
           /\ WriteLogging(s, on).detect = s.detect
           /\ WriteName(s, on).admin = s.admin
           /\ WriteName(s, on).rows = s.rows
           /\ WriteName(s, on).detect = s.detect
           /\ DestroyCollector(s, i).admin = s.admin
           /\ DestroyCollector(s, i).rows = [s.rows EXCEPT ![i] = NoHost]
           /\ DestroyCollector(s, i).detect = s.detect
           /\ WriteMgmt(s).admin = s.admin
           /\ WriteMgmt(s).rows = s.rows
           /\ WriteMgmt(s).detect = s.detect
<1> USE DEF DeviceState
<1>1. /\ WritePoeAdmin(s, p, on).admin = [s.admin EXCEPT ![p] = on]
     /\ WritePoeAdmin(s, p, on).rows = s.rows
     /\ WritePoeAdmin(s, p, on).detect = s.detect
  BY DEF WritePoeAdmin
<1>2. /\ WritePortEnabled(s, p, on).admin = s.admin
     /\ WritePortEnabled(s, p, on).rows = s.rows
     /\ WritePortEnabled(s, p, on).detect = s.detect
  BY DEF WritePortEnabled
<1>3. /\ WriteLabel(s, p, on).admin = s.admin
     /\ WriteLabel(s, p, on).rows = s.rows
     /\ WriteLabel(s, p, on).detect = s.detect
  BY DEF WriteLabel
<1>4. /\ WriteLogging(s, on).admin = s.admin
     /\ WriteLogging(s, on).rows = s.rows
     /\ WriteLogging(s, on).detect = s.detect
  BY DEF WriteLogging
<1>5. /\ WriteName(s, on).admin = s.admin
     /\ WriteName(s, on).rows = s.rows
     /\ WriteName(s, on).detect = s.detect
  BY DEF WriteName
<1>6. /\ DestroyCollector(s, i).admin = s.admin
     /\ DestroyCollector(s, i).rows = [s.rows EXCEPT ![i] = NoHost]
     /\ DestroyCollector(s, i).detect = s.detect
  BY DEF DestroyCollector
<1>7. /\ WriteMgmt(s).admin = s.admin
     /\ WriteMgmt(s).rows = s.rows
     /\ WriteMgmt(s).detect = s.detect
  BY DEF WriteMgmt
<1> QED BY <1>1, <1>2, <1>3, <1>4, <1>5, <1>6, <1>7

LEMMA EndTells ==
    ASSUME TypeOK, NEW w \in Writer, NEW how \in Resting, End(w, how)
    PROVE  /\ pc'[w] = how /\ saw'[w] = Nothing
           /\ \A v \in Writer \ {w} : pc'[v] = pc[v] /\ saw'[v] = saw[v]
           /\ Tells(w)
<1>1. pc' = [pc EXCEPT ![w] = how] /\ saw' = [saw EXCEPT ![w] = Nothing]
  BY DEF End, Goto
<1>2. told' = IF op[w].kind \in Rearms /\ how # "ok" THEN told \cup {op[w].port} ELSE told
  BY DEF End
<1>3. /\ pc'[w] = how /\ saw'[w] = Nothing
      /\ \A v \in Writer \ {w} : pc'[v] = pc[v] /\ saw'[v] = saw[v]
  BY <1>1 DEF TypeOK
<1> QED BY <1>2, <1>3 DEF Tells

LEMMA RetryTells ==
    ASSUME TypeOK, NEW w \in Writer, pc[w] \notin Resting, Retry(w)
    PROVE  /\ pc'[w] = pc[w] \/ pc'[w] = "failed"
           /\ \A v \in Writer \ {w} : pc'[v] = pc[v] /\ saw'[v] = saw[v]
           /\ Tells(w) /\ Sees(w)
<1>1. CASE End(w, "failed")
  BY <1>1, EndTells DEF Resting, Ended, Sees
<1>2. CASE UNCHANGED <<pc, saw, polls, told>>
  BY <1>2 DEF Tells, Sees, Resting, Ended
<1> QED BY <1>1, <1>2 DEF Retry

LEMMA GotoMoves ==
    ASSUME TypeOK, NEW w \in Writer, NEW to, Goto(w, to)
    PROVE  pc'[w] = to /\ \A v \in Writer \ {w} : pc'[v] = pc[v]
BY DEF TypeOK, Goto

LEMMA BecomesKeepsCut ==
    ASSUME TypeOK, NEW s, Becomes(s)
    PROVE  dev' = s /\ \A v \in Writer : cut[v] => cut'[v]
BY DEF Becomes

LEMMA TransmitAdvances ==
    ASSUME TypeOK, NEW w \in Writer, NEW at \in Sets, NEW accepted \in BOOLEAN,
           NEW s, NEW next, next \notin Resting \cup Sets, Transmit(w, at, accepted, s, next)
    PROVE  /\ pc[w] = at /\ op' = op /\ fresh' = fresh
           /\ dev' = dev \/ (accepted /\ dev' = s)
           /\ pc'[w] = next => dev' = s
           /\ pc'[w] \in {at, "failed", next}
           /\ \A v \in Writer : cut[v] => cut'[v]
           /\ \A v \in Writer \ {w} : pc'[v] = pc[v] /\ saw'[v] = saw[v]
           /\ Tells(w) /\ Sees(w)
<1> USE DEF Resting, Ended, Sets
<1>1. pc[w] = at /\ op' = op /\ fresh' = fresh /\ pc[w] \notin Resting
  BY DEF Transmit
<1>2. CASE accepted /\ Becomes(s) /\ Goto(w, next) /\ UNCHANGED <<saw, told, lost>>
  <2>1. dev' = s /\ \A v \in Writer : cut[v] => cut'[v]
    BY <1>2, BecomesKeepsCut
  <2>2. pc'[w] = next /\ \A v \in Writer \ {w} : pc'[v] = pc[v]
    BY <1>2, GotoMoves
  <2>3. Tells(w) /\ Sees(w)
    BY <1>1, <1>2, <2>2 DEF Tells, Sees
  <2> QED BY <1>1, <1>2, <2>1, <2>2, <2>3
<1>3. CASE End(w, "failed") /\ UNCHANGED <<dev, cut, lost>>
  <2>1. /\ pc'[w] = "failed" /\ saw'[w] = Nothing /\ Tells(w)
        /\ \A v \in Writer \ {w} : pc'[v] = pc[v] /\ saw'[v] = saw[v]
    BY <1>3, EndTells
  <2> QED BY <1>1, <1>3, <2>1 DEF Sees
<1>4. CASE (UNCHANGED <<dev, cut>> \/ (accepted /\ Becomes(s))) /\ Retry(w)
  BY <1>1, <1>4, RetryTells, BecomesKeepsCut
<1> QED BY <1>2, <1>3, <1>4 DEF Transmit

LEMMA ReadsAdvance ==
    ASSUME TypeOK, NEW w \in Writer,
           \/ ReadBefore(w) \/ ReadAfter(w) \/ PollDetect(w) \/ PollLink(w)
           \/ PollBack(w) \/ LastLook(w) \/ LoseRead(w)
    PROVE  Advances(w)
<1> USE DEF Resting, Ended, Reads
<1>1. dev' = dev /\ op' = op /\ fresh' = fresh /\ cut' = cut
  BY DEF ReadBefore, ReadAfter, PollDetect, PollLink, PollBack, LastLook, LoseRead, history
<1>2. Touches(w) /\ pc[w] \notin Resting
  BY <1>1 DEF Touches, ReadBefore, ReadAfter, PollDetect, PollLink, PollBack, LastLook, LoseRead
<1>3. SUFFICES /\ \A v \in Writer \ {w} : pc'[v] = pc[v] /\ saw'[v] = saw[v]
               /\ Flows(w) /\ Tells(w) /\ Sees(w)
  BY <1>1, <1>2 DEF Advances
<1>4. CASE ReadBefore(w)
  <2>1. CASE End(w, "failed")
    BY <1>4, <2>1, EndTells DEF Flows, Sees
  <2>2. CASE ~(op[w].kind = "collector" /\ IndexesOf(dev, op[w].host) = {})
    <3> DEFINE i == IF op[w].kind = "collector" THEN RowOf(op[w].host) ELSE saw[w].index
               b == op[w].kind = "cycle" /\ dev.detect[op[w].port] = "delivering"
               to == IF op[w].kind \in Rearms THEN "setOff" ELSE "set"
    <3>1. op[w].kind = "collector" => dev.rows[i] = op[w].host
      BY <2>2, RowTyped
    <3>2. saw' = [saw EXCEPT ![w].delivering = b, ![w].index = i]
      BY <1>4, <2>2 DEF ReadBefore
    <3>3. pc[w] = "before" /\ Goto(w, to) /\ told' = told
      BY <1>4, <2>2 DEF ReadBefore
    <3> HIDE DEF i, b
    <3>4. saw'[w].index = i /\ saw'[w].off = saw[w].off /\ \A v \in Writer \ {w} : saw'[v] = saw[v]
      BY <3>2 DEF TypeOK, Saw
    <3>5. pc'[w] = to /\ \A v \in Writer \ {w} : pc'[v] = pc[v]
      BY <3>3, GotoMoves
    <3> QED BY <3>1, <3>3, <3>4, <3>5 DEF Flows, Tells, Sees
  <2> QED BY <1>4, <2>1, <2>2 DEF ReadBefore
<1>5. CASE ReadAfter(w)
  <2>1. CASE Verified(dev, op[w]) /\ End(w, "ok")
    BY <1>1, <1>5, <2>1, EndTells DEF ReadAfter, Flows, Sees
  <2>2. CASE End(w, "diverged")
    BY <1>5, <2>2, EndTells DEF Flows, Sees
  <2> QED BY <1>5, <2>1, <2>2 DEF ReadAfter
<1>6. CASE PollDetect(w)
  <2> DEFINE b == LooksOff(dev.detect[op[w].port])
  <2>1. b => dev.detect[op[w].port] # "delivering"
    BY DEF LooksOff
  <2>2. saw' = [saw EXCEPT ![w].off = b]
    BY <1>6 DEF PollDetect
  <2> HIDE DEF b
  <2>3. saw'[w].off = b /\ \A v \in Writer \ {w} : saw'[v] = saw[v]
    BY <2>2 DEF TypeOK, Saw
  <2>4. pc[w] = "pollDetect" /\ Goto(w, "pollLink") /\ told' = told
    BY <1>6 DEF PollDetect, history
  <2> QED BY <2>1, <2>3, <2>4, GotoMoves DEF Flows, Tells, Sees
<1>7. CASE PollLink(w)
  <2>1. ~saw'[w].off /\ \A v \in Writer \ {w} : saw'[v] = saw[v]
    BY <1>7 DEF PollLink, TypeOK, Saw
  <2>2. pc[w] = "pollLink" /\ told' = told
    BY <1>7 DEF PollLink, history
  <2>3. \/ Goto(w, "setOn") /\ saw[w].off
        \/ Goto(w, "pollDetect") \/ Goto(w, "lastLook")
    BY <1>7 DEF PollLink, Expires
  <2> QED BY <2>1, <2>2, <2>3, GotoMoves DEF Flows, Tells, Sees
<1>8. CASE PollBack(w)
  <2>1. CASE End(w, "ok")
    BY <1>8, <2>1, EndTells DEF PollBack, Flows, Sees
  <2>2. CASE Expires(w, "pollBack") /\ UNCHANGED <<saw, told>>
    <3>1. pc[w] = "pollBack" /\ (Goto(w, "pollBack") \/ Goto(w, "lastLook"))
      BY <1>8, <2>2 DEF PollBack, Expires
    <3> QED BY <2>2, <3>1, GotoMoves DEF Flows, Tells, Sees
  <2> QED BY <1>8, <2>1, <2>2 DEF PollBack
<1>9. CASE LastLook(w)
  BY <1>9, EndTells DEF LastLook, Flows, Sees
<1>10. CASE LoseRead(w)
  BY <1>2, <1>10, RetryTells DEF LoseRead, Flows
<1> QED BY <1>4, <1>5, <1>6, <1>7, <1>8, <1>9, <1>10

LEMMA SetsAdvance ==
    ASSUME TypeOK, NEW w \in Writer,
           SetColumn(w) \/ SetMgmt(w) \/ SetDestroy(w) \/ SetOff(w) \/ SetOn(w)
    PROVE  Advances(w)
<1> USE DEF Resting, Ended, Sets, Reads
<1>1. dev \in DeviceState /\ op[w].port \in Port /\ op[w].on \in BOOLEAN /\ saw[w].index \in Index
  BY DEF TypeOK, Operation, Saw
<1>2. dev.admin \in [Port -> BOOLEAN]
  BY <1>1 DEF DeviceState
<1>3. CASE SetColumn(w)
  <2>1. op[w].kind \in OneSet /\ op[w].kind \notin Rearms
    BY <1>3 DEF SetColumn, OneSet, Rearms
  <2>2. PICK s : /\ Transmit(w, "set", TRUE, s, "after")
                 /\ s.detect = dev.detect /\ s.rows = dev.rows
                 /\ \/ s.admin = dev.admin
                    \/ op[w].kind = "poe" /\ s.admin = [dev.admin EXCEPT ![op[w].port] = op[w].on]
    <3>1. /\ op[w].kind = "poe" => Transmit(w, "set", TRUE, WritePoeAdmin(dev, op[w].port, op[w].on), "after")
          /\ op[w].kind = "enable" => Transmit(w, "set", TRUE, WritePortEnabled(dev, op[w].port, op[w].on), "after")
          /\ op[w].kind = "describe" => Transmit(w, "set", TRUE, WriteLabel(dev, op[w].port, op[w].on), "after")
          /\ op[w].kind = "logging" => Transmit(w, "set", TRUE, WriteLogging(dev, op[w].on), "after")
          /\ op[w].kind = "rename" => Transmit(w, "set", TRUE, WriteName(dev, op[w].on), "after")
      BY <1>3 DEF SetColumn
    <3> DEFINE o == op[w]
               Fits(s) == /\ s.detect = dev.detect /\ s.rows = dev.rows
                          /\ \/ s.admin = dev.admin
                             \/ o.kind = "poe" /\ s.admin = [dev.admin EXCEPT ![o.port] = o.on]
    <3>2. Fits(WritePortEnabled(dev, o.port, o.on))
      BY <1>1 DEF WritePortEnabled, DeviceState
    <3>3. Fits(WriteLabel(dev, o.port, o.on))
      BY <1>1 DEF WriteLabel, DeviceState
    <3>4. Fits(WriteLogging(dev, o.on))
      BY <1>1 DEF WriteLogging, DeviceState
    <3>5. Fits(WriteName(dev, o.on))
      BY <1>1 DEF WriteName, DeviceState
    <3>6. o.kind = "poe" => Fits(WritePoeAdmin(dev, o.port, o.on))
      BY <1>1 DEF WritePoeAdmin, DeviceState
    <3>7. \E s : Transmit(w, "set", TRUE, s, "after") /\ Fits(s)
      <4> HIDE DEF Fits
      <4> QED BY <2>1, <3>1, <3>2, <3>3, <3>4, <3>5, <3>6 DEF OneSet
    <3> QED BY <3>7
  <2>3. pc[w] = "set" /\ (dev' = dev \/ dev' = s)
    BY <2>2, TransmitAdvances
  <2>4. Touches(w)
    <3>1. CASE dev' = dev
      BY <3>1 DEF Touches
    <3>2. CASE dev' = s
      BY <2>2, <2>3, <3>2 DEF Touches
    <3> QED BY <2>3, <3>1, <3>2
  <2>5. /\ op' = op /\ fresh' = fresh /\ pc'[w] \in {"set", "failed", "after"}
        /\ \A v \in Writer : cut[v] => cut'[v]
        /\ \A v \in Writer \ {w} : pc'[v] = pc[v] /\ saw'[v] = saw[v]
        /\ Tells(w) /\ Sees(w)
    BY <2>2, TransmitAdvances
  <2> QED BY <2>1, <2>3, <2>4, <2>5 DEF Advances, Flows
<1>4. CASE SetMgmt(w)
  <2>1. op[w].kind = "address" /\ op[w].kind \notin Rearms
    BY <1>4 DEF SetMgmt, Rearms
  <2>2. PICK accepted \in BOOLEAN : Transmit(w, "set", accepted, WriteMgmt(dev), "after")
    BY <1>4 DEF SetMgmt
  <2>3. dev' = dev \/ dev' = WriteMgmt(dev)
    BY <2>2, TransmitAdvances
  <2>4. LET s == WriteMgmt(dev) IN
        s.detect = dev.detect /\ s.admin = dev.admin /\ s.rows = dev.rows
    BY <1>1, WritesTouch
  <2>5. Touches(w)
    BY <2>3, <2>4 DEF Touches
  <2> QED BY <2>1, <2>2, <2>5, TransmitAdvances DEF Advances, Flows
<1>5. CASE SetDestroy(w)
  <2>1. op[w].kind = "collector" /\ op[w].kind \notin Rearms
    BY <1>5 DEF SetDestroy, Rearms
  <2>2. DestroyAccepted(dev, saw[w].index) \in BOOLEAN
    BY DEF DestroyAccepted
  <2>3. Transmit(w, "set", DestroyAccepted(dev, saw[w].index),
                 DestroyCollector(dev, saw[w].index), "after")
    BY <1>5 DEF SetDestroy
  <2>5. pc[w] = "set" /\ (dev' = dev \/ dev' = DestroyCollector(dev, saw[w].index))
    BY <2>2, <2>3, TransmitAdvances
  <2>6. LET s == DestroyCollector(dev, saw[w].index) IN
        /\ s.detect = dev.detect /\ s.admin = dev.admin
        /\ s.rows = [dev.rows EXCEPT ![saw[w].index] = NoHost]
    BY <1>1, WritesTouch
  <2>4. Touches(w)
    BY <2>1, <2>5, <2>6 DEF Touches
  <2> QED BY <2>1, <2>2, <2>3, <2>4, TransmitAdvances DEF Advances, Flows
<1>6. CASE SetOff(w)
  <2>1. Transmit(w, "setOff", TRUE, WritePoeAdmin(dev, op[w].port, FALSE), "pollDetect")
    BY <1>6 DEF SetOff
  <2>4. pc[w] = "setOff" /\ (dev' = dev \/ dev' = WritePoeAdmin(dev, op[w].port, FALSE))
    BY <2>1, TransmitAdvances
  <2>5. LET s == WritePoeAdmin(dev, op[w].port, FALSE) IN
        /\ s.detect = dev.detect /\ s.rows = dev.rows
        /\ s.admin = [dev.admin EXCEPT ![op[w].port] = FALSE]
    BY <1>1, WritesTouch
  <2>2. Touches(w)
    BY <2>4, <2>5 DEF Touches
  <2> QED BY <2>1, <2>2, TransmitAdvances DEF Advances, Flows
<1>7. CASE SetOn(w)
  <2>1. Transmit(w, "setOn", TRUE, WritePoeAdmin(dev, op[w].port, TRUE), "pollBack")
    BY <1>7 DEF SetOn
  <2>4. pc[w] = "setOn" /\ (dev' = dev \/ dev' = WritePoeAdmin(dev, op[w].port, TRUE))
    BY <2>1, TransmitAdvances
  <2>5. LET s == WritePoeAdmin(dev, op[w].port, TRUE) IN
        /\ s.detect = dev.detect /\ s.rows = dev.rows
        /\ s.admin = [dev.admin EXCEPT ![op[w].port] = TRUE]
    BY <1>1, WritesTouch
  <2>2. Touches(w)
    BY <2>4, <2>5 DEF Touches
  <2>3. pc'[w] = "pollBack" => dev'.admin[op[w].port]
    <3>1. pc'[w] = "pollBack" => dev' = WritePoeAdmin(dev, op[w].port, TRUE)
      BY <2>1, TransmitAdvances
    <3> QED BY <1>1, <1>2, <2>5, <3>1
  <2> QED BY <2>1, <2>2, <2>3, TransmitAdvances DEF Advances, Flows
<1> QED BY <1>3, <1>4, <1>5, <1>6, <1>7

LEMMA StepAdvances ==
    ASSUME TypeOK, NEW w \in Writer, Step(w)
    PROVE  Advances(w)
BY ReadsAdvance, SetsAdvance DEF Step

(***************************************************************************)
(* What the hardware and the other manager do.                             *)
(***************************************************************************)
WorldMoves ==
    /\ pc' = pc /\ op' = op /\ saw' = saw /\ told' = told
    /\ dev'.admin = dev.admin
    /\ fresh \subseteq fresh'
    /\ \A i \in Index : dev'.rows[i] # dev.rows[i] => dev.rows[i] = NoHost /\ i \in fresh'
    /\ \A v \in Writer :
         /\ cut[v] => cut'[v]
         /\ Rearming(v) /\ dev'.detect[op[v].port] # "delivering" =>
              cut'[v] \/ dev'.detect = dev.detect

LEMMA OthersMoveTheWorld ==
    ASSUME TypeOK,
           \/ \E p \in Port : DetectSettles(p) \/ LinkSettles(p)
           \/ SomethingHappens
    PROVE  WorldMoves
<1>1. ASSUME NEW p \in Port, DetectSettles(p) PROVE WorldMoves
  <2>1. LET s == [dev EXCEPT !.detect[p] = Detected(dev, p)] IN
        /\ Becomes(s) /\ s.admin = dev.admin /\ s.rows = dev.rows
    BY <1>1 DEF DetectSettles, TypeOK, DeviceState
  <2>2. /\ dev'.admin = dev.admin /\ dev'.rows = dev.rows
        /\ \A v \in Writer :
             cut'[v] = (cut[v] \/ (Rearming(v) /\ dev'.detect[op[v].port] # "delivering"))
    BY <2>1 DEF Becomes
  <2>3. pc' = pc /\ op' = op /\ saw' = saw /\ told' = told /\ fresh' = fresh
    BY <1>1 DEF DetectSettles
  <2> QED BY <2>2, <2>3 DEF WorldMoves
<1>2. ASSUME NEW p \in Port, LinkSettles(p) PROVE WorldMoves
  <2>1. /\ dev'.admin = dev.admin /\ dev'.rows = dev.rows
        /\ dev'.detect = dev.detect
    BY <1>2 DEF LinkSettles, TypeOK, DeviceState
  <2>2. pc' = pc /\ op' = op /\ saw' = saw /\ told' = told /\ fresh' = fresh /\ cut' = cut
    BY <1>2 DEF LinkSettles, history
  <2> QED BY <2>1, <2>2 DEF WorldMoves
<1>3. CASE SomethingHappens
  <2>1. pc' = pc /\ op' = op /\ saw' = saw /\ told' = told /\ cut' = cut
    BY <1>3 DEF SomethingHappens
  <2>2. ASSUME NEW p \in Socket, NEW x \in Plug,
               dev' = [dev EXCEPT !.plugged[p] = x], UNCHANGED fresh
        PROVE  WorldMoves
    <3>1. /\ dev'.admin = dev.admin /\ dev'.rows = dev.rows
          /\ dev'.detect = dev.detect
      BY <2>2 DEF TypeOK, DeviceState
    <3> QED BY <2>1, <2>2, <3>1 DEF WorldMoves
  <2>3. ASSUME NEW i \in Index, NEW h \in Host, dev.rows[i] = NoHost,
               dev' = [dev EXCEPT !.rows[i] = h], fresh' = fresh \cup {i}
        PROVE  WorldMoves
    <3>1. /\ dev'.admin = dev.admin
          /\ dev'.rows = [dev.rows EXCEPT ![i] = h] /\ dev'.detect = dev.detect
      BY <2>3 DEF TypeOK, DeviceState
    <3>2. dev.rows \in [Index -> Host \cup {NoHost}]
      BY DEF TypeOK, DeviceState
    <3>3. \A j \in Index : dev'.rows[j] # dev.rows[j] => j = i
      BY <3>1, <3>2
    <3> QED BY <2>1, <2>3, <3>1, <3>3 DEF WorldMoves
  <2> QED BY <1>3, <2>2, <2>3 DEF SomethingHappens
<1> QED BY <1>1, <1>2, <1>3

(***************************************************************************)
(* A call that starts.                                                     *)
(***************************************************************************)
Starts(w) ==
    /\ pc[w] \in Resting /\ pc'[w] \in {"refused", "before"}
    /\ \A v \in Writer \ {w} : pc'[v] = pc[v] /\ op'[v] = op[v] /\ cut'[v] = cut[v]
    /\ dev' = dev /\ saw' = saw /\ fresh' = fresh /\ told \subseteq told'
    /\ op'[w].kind = "poe" /\ ~op'[w].on => op'[w].port \in told'
    /\ cut'[w] = (op'[w].kind \in Rearms /\ dev.detect[op'[w].port] # "delivering")

LEMMA InvokeStarts ==
    ASSUME TypeOK, NEW w \in Writer, Invoke(w)
    PROVE  Starts(w)
<1>1. PICK o \in Calls(w) :
        /\ op' = [op EXCEPT ![w] = o]
        /\ pc' = [pc EXCEPT ![w] = IF GuardRaises(o) THEN "refused" ELSE "before"]
        /\ cut' = [cut EXCEPT ![w] = o.kind \in Rearms /\ dev.detect[o.port] # "delivering"]
        /\ told' = IF o.kind = "poe" /\ ~o.on THEN told \cup {o.port} ELSE told
  BY DEF Invoke
<1>2. op'[w] = o /\ \A v \in Writer \ {w} : op'[v] = op[v]
  BY <1>1 DEF TypeOK
<1>3. pc'[w] \in {"refused", "before"} /\ \A v \in Writer \ {w} : pc'[v] = pc[v]
  BY <1>1 DEF TypeOK
<1>4. /\ cut'[w] = (o.kind \in Rearms /\ dev.detect[o.port] # "delivering")
      /\ \A v \in Writer \ {w} : cut'[v] = cut[v]
  BY <1>1 DEF TypeOK
<1>5. pc[w] \in Resting /\ dev' = dev /\ saw' = saw /\ fresh' = fresh
  BY DEF Invoke
<1> QED BY <1>1, <1>2, <1>3, <1>4, <1>5 DEF Starts

LEMMA NextMoves ==
    ASSUME TypeOK, [Next]_vars
    PROVE  \/ \E w \in Writer : Starts(w) \/ Advances(w)
           \/ WorldMoves
<1>1. CASE UNCHANGED vars
  BY <1>1 DEF vars, history, WorldMoves
<1>2. CASE Next
  BY <1>2, StepAdvances, InvokeStarts, OthersMoveTheWorld DEF Next
<1> QED BY <1>1, <1>2

-----------------------------------------------------------------------------
(***************************************************************************)
(* The power cycle.                                                        *)
(***************************************************************************)
Off     == {"setOff", "pollDetect", "pollLink", "setOn", "lastLook"}
Cycling == Off \cup {"pollBack"}

\* Only a power cycle is in the phases of one, and it is in no others.
KindFits ==
    \A w \in Writer :
        /\ pc[w] \in Cycling => op[w].kind \in Rearms
        /\ pc[w] \in {"set", "after"} => op[w].kind \notin Rearms

LEMMA KindKept ==
    ASSUME TypeOK, KindFits, [Next]_vars
    PROVE  KindFits'
<1> USE DEF Resting, Ended, Cycling, Off
<1>1. ASSUME NEW w \in Writer, Starts(w) PROVE KindFits'
  BY <1>1 DEF KindFits, Starts
<1>2. ASSUME NEW w \in Writer, Advances(w) PROVE KindFits'
  BY <1>2 DEF KindFits, Advances, Flows
<1>3. CASE WorldMoves
  BY <1>3 DEF KindFits, WorldMoves
<1> QED BY <1>1, <1>2, <1>3, NextMoves

\* A port seen off, or delivering no power now, has been cut.
CutInv ==
    \A w \in Writer :
        /\ Rearming(w) /\ dev.detect[op[w].port] # "delivering" => cut[w]
        /\ saw[w].off => pc[w] = "pollLink" /\ cut[w]
        /\ pc[w] \in {"setOn", "pollBack"} => cut[w]
        /\ pc[w] = "ok" /\ op[w].kind \in Rearms => cut[w]

LEMMA CutKept ==
    ASSUME TypeOK, KindFits, CutInv, [Next]_vars
    PROVE  CutInv'
<1> USE DEF Resting, Ended, Rearming
<1>1. ASSUME NEW w \in Writer, Starts(w) PROVE CutInv'
  BY <1>1, ZenonT(30) DEF CutInv, Starts
<1>2. ASSUME NEW w \in Writer, Advances(w) PROVE CutInv'
  <2>1. /\ pc[w] \notin Resting /\ op' = op /\ dev'.detect = dev.detect
        /\ \A v \in Writer : cut[v] => cut'[v]
        /\ \A v \in Writer \ {w} : pc'[v] = pc[v] /\ saw'[v] = saw[v]
    BY <1>2 DEF Advances, Touches
  <2>2. Flows(w) /\ Sees(w)
    BY <1>2 DEF Advances
  <2>3. Rearming(w)' /\ dev'.detect[op'[w].port] # "delivering" => cut'[w]
    BY <2>1 DEF CutInv
  <2>4. saw'[w].off => pc'[w] = "pollLink" /\ cut'[w]
    <3>1. ~Nothing.off
      BY DEF Nothing
    <3> QED BY <2>1, <2>2, <3>1 DEF CutInv, Sees, Flows, KindFits, Cycling, Off
  <2>5. pc'[w] \in {"setOn", "pollBack"} => cut'[w]
    BY <2>1, <2>2 DEF CutInv, Flows
  <2>6. pc'[w] = "ok" /\ op'[w].kind \in Rearms => cut'[w]
    BY <2>1, <2>2 DEF CutInv, Flows, KindFits
  <2>7. ASSUME NEW v \in Writer \ {w}
        PROVE  /\ Rearming(v)' /\ dev'.detect[op'[v].port] # "delivering" => cut'[v]
               /\ saw'[v].off => pc'[v] = "pollLink" /\ cut'[v]
               /\ pc'[v] \in {"setOn", "pollBack"} => cut'[v]
               /\ pc'[v] = "ok" /\ op'[v].kind \in Rearms => cut'[v]
    BY <2>1 DEF CutInv
  <2> QED BY <2>3, <2>4, <2>5, <2>6, <2>7 DEF CutInv
<1>3. CASE WorldMoves
  BY <1>3 DEF CutInv, WorldMoves
<1> QED BY <1>1, <1>2, <1>3, NextMoves

\* A port that is off is in the hands of a cycle, or somebody knows.
OffInv ==
    /\ \A w \in Writer :
         pc[w] \notin Resting /\ op[w].kind = "poe" /\ ~op[w].on => op[w].port \in told
    /\ \A p \in Port :
         dev.admin[p] \/ p \in told \/ \E w \in Writer : pc[w] \in Off /\ op[w].port = p

LEMMA OffKept ==
    ASSUME TypeOK, KindFits, OffInv, [Next]_vars
    PROVE  OffInv'
<1> USE DEF Resting, Ended, Off
<1>1. ASSUME NEW w \in Writer, Starts(w) PROVE OffInv'
  BY <1>1 DEF OffInv, Starts
<1>2. ASSUME NEW w \in Writer, Advances(w) PROVE OffInv'
  <2>1. /\ pc[w] \notin Resting /\ op' = op /\ told \subseteq told'
        /\ \A v \in Writer \ {w} : pc'[v] = pc[v]
    BY <1>2 DEF Advances, Tells
  <2>2. \A v \in Writer :
          pc'[v] \notin Resting /\ op'[v].kind = "poe" /\ ~op'[v].on => op'[v].port \in told'
    BY <2>1 DEF OffInv
  <2>3. ASSUME NEW p \in Port
        PROVE  dev'.admin[p] \/ p \in told' \/ \E v \in Writer : pc'[v] \in Off /\ op'[v].port = p
    <3>1. dev.admin \in [Port -> BOOLEAN] /\ op[w].port \in Port /\ op[w].on \in BOOLEAN
      BY DEF TypeOK, DeviceState, Operation
    <3>2. pc[w] \in Off => pc'[w] \in Off \/ op[w].port \in told' \/ dev'.admin[op[w].port]
      BY <1>2 DEF Advances, Flows, Tells, KindFits, Cycling
    <3>3. dev'.admin[p] \/ dev'.admin[p] = dev.admin[p] \/ p \in told' \/ (op[w].port = p /\ pc[w] = "setOff")
      <4>1. \/ dev'.admin = dev.admin
            \/ /\ op[w].port \in told
               /\ dev'.admin = [dev.admin EXCEPT ![op[w].port] = op[w].on]
            \/ op[w].on /\ dev'.admin = [dev.admin EXCEPT ![op[w].port] = op[w].on]
            \/ pc[w] = "setOff" /\ dev'.admin = [dev.admin EXCEPT ![op[w].port] = FALSE]
            \/ dev'.admin = [dev.admin EXCEPT ![op[w].port] = TRUE]
        BY <1>2, <2>1, <3>1 DEF Advances, Touches, OffInv
      <4> QED BY <2>1, <3>1, <4>1
    <3> QED BY <2>1, <3>1, <3>2, <3>3 DEF OffInv
  <2> QED BY <2>2, <2>3 DEF OffInv
<1>3. CASE WorldMoves
  BY <1>3 DEF OffInv, WorldMoves
<1> QED BY <1>1, <1>2, <1>3, NextMoves

-----------------------------------------------------------------------------
(***************************************************************************)
(* The collector table and the management address.                         *)
(***************************************************************************)
\* The row about to be destroyed is one of the host, gone, or somebody else's new one.
RowInv ==
    \A w \in Writer :
        pc[w] = "set" /\ op[w].kind = "collector" =>
            \/ saw[w].index \in fresh
            \/ dev.rows[saw[w].index] \in {op[w].host, NoHost}

\* How a row changes while a call of client w takes a step.
LEMMA AdvancesRows ==
    ASSUME TypeOK, NEW w \in Writer, Advances(w), NEW i \in Index
    PROVE  \/ dev'.rows[i] = dev.rows[i]
           \/ /\ dev'.rows[i] = NoHost /\ i = saw[w].index
              /\ pc[w] = "set" /\ op[w].kind = "collector"
<1>1. dev.rows \in [Index -> Host \cup {NoHost}]
  BY DEF TypeOK, DeviceState
<1> QED BY <1>1 DEF Advances, Touches

LEMMA RowKept ==
    ASSUME TypeOK, KindFits, RowInv, [Next]_vars
    PROVE  RowInv'
<1> USE DEF Resting, Ended
<1>1. ASSUME NEW v \in Writer PROVE saw[v].index \in Index /\ saw'[v].index \in Index
  <2>1. TypeOK'
    BY TypeKept
  <2> QED BY <2>1 DEF TypeOK, Saw
<1>2. ASSUME NEW w \in Writer, Starts(w) PROVE RowInv'
  BY <1>2 DEF RowInv, Starts
<1>3. ASSUME NEW w \in Writer, Advances(w) PROVE RowInv'
  <2>1. op' = op /\ fresh' = fresh /\ \A v \in Writer \ {w} : pc'[v] = pc[v] /\ saw'[v] = saw[v]
    BY <1>3 DEF Advances
  <2>2. \A i \in Index : dev'.rows[i] \in {dev.rows[i], NoHost}
    BY <1>3, AdvancesRows
  <2>3. ASSUME pc'[w] = "set", op[w].kind = "collector"
        PROVE  \/ pc[w] = "set" /\ saw'[w] = saw[w]
               \/ dev.rows[saw'[w].index] = op[w].host
    BY <1>3, <2>3 DEF Advances, Flows, Sees, Tells
  <2>4. ASSUME NEW v \in Writer, pc'[v] = "set", op[v].kind = "collector"
        PROVE  saw'[v].index \in fresh \/ dev.rows[saw'[v].index] \in {op[v].host, NoHost}
    BY <2>1, <2>3, <2>4 DEF RowInv
  <2> QED BY <1>1, <2>1, <2>2, <2>4 DEF RowInv
<1>4. CASE WorldMoves
  BY <1>1, <1>4 DEF RowInv, WorldMoves
<1> QED BY <1>2, <1>3, <1>4, NextMoves

LEMMA RemovedKept ==
    ASSUME TypeOK, KindFits, RemovedMeansGone, [Next]_vars
    PROVE  RemovedMeansGone'
<1> USE DEF Resting, Ended
<1>1. TypeOK' /\ NoHost \notin Host
  BY TypeKept, PortAgentAssumption
<1>2. ASSUME NEW v \in Writer PROVE op[v].host \in Host
  BY DEF TypeOK, Operation
<1>3. ASSUME NEW w \in Writer, Starts(w) PROVE RemovedMeansGone'
  BY <1>3 DEF RemovedMeansGone, Starts, IndexesOf
<1>4. ASSUME NEW w \in Writer, Advances(w) PROVE RemovedMeansGone'
  <2>1. op' = op /\ fresh' = fresh /\ \A v \in Writer \ {w} : pc'[v] = pc[v]
    BY <1>4 DEF Advances
  <2>2. \A i \in Index : dev'.rows[i] \in {dev.rows[i], NoHost}
    BY <1>4, AdvancesRows
  <2>3. \A v \in Writer : IndexesOf(dev', op[v].host) \subseteq IndexesOf(dev, op[v].host)
    BY <1>1, <1>2, <2>2 DEF IndexesOf
  <2>4. ASSUME pc'[w] = "ok", op[w].kind = "collector"
        PROVE  IndexesOf(dev, op[w].host) \subseteq fresh
    <3>1. pc[w] # "ok" /\ op[w].kind \notin Rearms
      BY <1>4, <2>4 DEF Advances, Rearms
    <3>2. Verified(dev, op[w])
      BY <1>4, <2>4, <3>1 DEF Advances, Flows, KindFits, Cycling
    <3> QED BY <2>4, <3>2 DEF Verified, OneSet
  <2> QED BY <2>1, <2>3, <2>4 DEF RemovedMeansGone
<1>5. CASE WorldMoves
  BY <1>5 DEF RemovedMeansGone, WorldMoves, IndexesOf
<1> QED BY <1>3, <1>4, <1>5, NextMoves

LEMMA OnlyNamedRowStep ==
    ASSUME TypeOK, RowInv, [Next]_vars, NEW i \in Index \ fresh,
           dev'.rows[i] # dev.rows[i], dev.rows[i] # NoHost
    PROVE  \E w \in Writer : op[w].kind = "collector" /\ op[w].host = dev.rows[i]
<1>1. ASSUME NEW w \in Writer, Starts(w) PROVE FALSE
  BY <1>1 DEF Starts
<1>2. ASSUME NEW w \in Writer, Advances(w)
      PROVE  op[w].kind = "collector" /\ op[w].host = dev.rows[i]
  BY <1>2, AdvancesRows DEF RowInv
<1>3. CASE WorldMoves
  BY <1>3 DEF WorldMoves
<1> QED BY <1>1, <1>2, <1>3, NextMoves

-----------------------------------------------------------------------------
(***************************************************************************)
(* The inductive invariant, and what follows from it.                      *)
(***************************************************************************)
Inv ==
    /\ TypeOK /\ KindFits /\ CutInv /\ OffInv /\ RowInv
    /\ RemovedMeansGone

LEMMA InitInv == Init => Inv
<1> SUFFICES ASSUME Init PROVE Inv
  OBVIOUS
<1>1. TypeOK
  BY InitTypes
<1>2. \A w \in Writer : pc[w] = "idle" /\ ~saw[w].off
  BY DEF Init, Nothing
<1>3. \A p \in Port : dev.admin[p] \/ p \in told
  BY DEF Init
<1> QED
  BY <1>1, <1>2, <1>3
  DEF Inv, KindFits, Cycling, Off, CutInv, Rearming, Resting, OffInv, RowInv, RemovedMeansGone

LEMMA InvKept == Inv /\ [Next]_vars => Inv'
BY TypeKept, KindKept, CutKept, OffKept, RowKept, RemovedKept DEF Inv

LEMMA InvHolds == Spec => []Inv
BY InitInv, InvKept, PTL DEF Spec

(***************************************************************************)
(* A power cycle that returns has cycled the power, for any number of      *)
(* clients on the port, wherever they interleave between the two walks of  *)
(* _poe_is_off and the SETs of _poe_rearm, and whatever is lost.           *)
(***************************************************************************)
THEOREM PowerCutProved == Spec => []PowerWasCut
<1>1. Inv => PowerWasCut
  BY DEF Inv, CutInv, PowerWasCut
<1> QED BY <1>1, InvHolds, PTL

(***************************************************************************)
(* When every call has ended, a port that is off was switched off by       *)
(* set_poe or is one whose power cycle raised.                             *)
(***************************************************************************)
THEOREM NoneLeftOffProved == Spec => []NoPortLeftOff
<1>1. Inv => NoPortLeftOff
  BY DEF Inv, OffInv, NoPortLeftOff, Off, Resting, Ended
<1> QED BY <1>1, InvHolds, PTL

(***************************************************************************)
(* remove_syslog_collector that returns has left no row of its host but    *)
(* for those another manager has added.                                    *)
(***************************************************************************)
THEOREM RemovedProved == Spec => []RemovedMeansGone
<1>1. Inv => RemovedMeansGone
  BY DEF Inv
<1> QED BY <1>1, InvHolds, PTL

(***************************************************************************)
(* A row that goes is of the host some remove_syslog_collector was called  *)
(* for, however old the index is that the call has looked up.              *)
(***************************************************************************)
THEOREM OnlyNamedRowProved == Spec => OnlyNamedRowGoes
<1>1. Inv /\ [Next]_vars =>
        [\A i \in Index \ fresh :
           dev'.rows[i] # dev.rows[i] /\ dev.rows[i] # NoHost =>
             \E w \in Writer : op[w].kind = "collector" /\ op[w].host = dev.rows[i]]_vars
  BY OnlyNamedRowStep DEF Inv
<1> QED BY <1>1, InvHolds, PTL DEF Spec, OnlyNamedRowGoes

-----------------------------------------------------------------------------
(***************************************************************************)
(* SnmpFace: one SET PDU, step by step.                                    *)
(***************************************************************************)

\* The state is as it was when the PDU arrived, but for the columns in D,
\* which the PDU has written, and for what other faces have written since.
Differs(D) == \A c \in Col \ posted : state[c] = IF c \in D THEN serial ELSE before[c]

\* What has been copied is a copy of the state the PDU found.
Kept(D) == \A c \in D \ posted : copy[c] = before[c]

PduInv ==
    /\ phase = "snapshot"   => Differs({}) /\ Kept(Col \ todo)
    /\ phase = "apply"      => Differs(pdu \ todo) /\ Kept(Col) /\ todo \subseteq pdu
    /\ phase = "restore"    => Kept(Col) /\ \A c \in Col \ (posted \cup todo) : state[c] = before[c]
    /\ phase = "rebuild"    => Differs(pdu)
    /\ phase = "accepted"   => Differs(pdu)
    /\ phase = "refused"    => Differs({})
    /\ phase = "unanswered" => Differs({}) \/ Differs(pdu)

\* Nobody has written with the number of a PDU that has not arrived.
NumberInv ==
    /\ \A c \in Col : state[c] # Foreign => state[c] <= serial
    /\ \A c \in Col : before[c] # Foreign => before[c] <= serial
    /\ \A c \in Col : copy[c] # Foreign => copy[c] <= serial
    /\ \A c \in Col : view[c] # Foreign => view[c] <= serial
    /\ phase \notin {"ready", "accepted"} =>
         /\ serial > 0
         /\ \A c \in Col : view[c] # serial

\* What the view does not know is known to be so.
ViewInv ==
    /\ phase \in Working => \A c \in Col \ stale : view[c] = before[c]
    /\ phase \in Working => posted \subseteq stale
    /\ phase = "rebuild" => \A c \in Col \ (todo \cup during) : copy[c] = state[c]
    /\ phase = "accepted" => \A c \in pdu \ posted : view[c] = serial
    /\ phase \in AtRest => \A c \in Col \ stale : view[c] = state[c]

FaceInv == FaceTypeOK /\ PduInv /\ NumberInv /\ ViewInv /\ PostsSurvive

LEMMA FaceInitInv == FaceInit => FaceInv
<1> SUFFICES ASSUME FaceInit PROVE FaceInv
  OBVIOUS
<1> USE DEF FaceInit, Blank, AtRest, Answers, Working
<1>1. FaceTypeOK
  BY SnmpFaceAssumption DEF FaceTypeOK, Values
<1>2. PduInv /\ ViewInv /\ PostsSurvive
  BY DEF PduInv, ViewInv, PostsSurvive
<1>3. NumberInv
  BY DEF NumberInv
<1> QED BY <1>1, <1>2, <1>3 DEF FaceInv

LEMMA FaceTypeKept == FaceTypeOK /\ [FaceNext]_faceVars => FaceTypeOK'
<1> SUFFICES ASSUME FaceTypeOK, [FaceNext]_faceVars PROVE FaceTypeOK'
  OBVIOUS
<1> USE SnmpFaceAssumption DEF FaceTypeOK, Values, Blank, AtRest, Answers, Working
<1>1. CASE Arrive
  BY <1>1 DEF Arrive
<1>2. CASE CopyColumn
  BY <1>2 DEF CopyColumn
<1>3. CASE Copied \/ RefuseVarbind \/ Restored \/ Commit \/ Rebuilt
  BY <1>3 DEF Copied, RefuseVarbind, Restored, Commit, Rebuilt
<1>4. CASE ApplyVarbind
  BY <1>4 DEF ApplyVarbind
<1>5. CASE RestoreField
  BY <1>5 DEF RestoreField
<1>6. CASE CopyRaises
  BY <1>6 DEF CopyRaises
<1>7. CASE Post
  BY <1>7 DEF Post
<1>8. CASE UNCHANGED faceVars
  BY <1>8 DEF faceVars
<1> QED BY <1>1, <1>2, <1>3, <1>4, <1>5, <1>6, <1>7, <1>8 DEF FaceNext

LEMMA PduKept == FaceInv /\ [FaceNext]_faceVars => PduInv'
<1> SUFFICES ASSUME FaceInv, [FaceNext]_faceVars PROVE PduInv'
  OBVIOUS
<1>0. FaceTypeOK /\ PduInv
  BY DEF FaceInv
<1> USE <1>0 DEF PduInv, Differs, Kept, FaceTypeOK, AtRest, Answers, Working
<1>1. CASE Arrive
  BY <1>1 DEF Arrive
<1>2. CASE CopyColumn
  BY <1>2 DEF CopyColumn
<1>3. CASE Copied
  BY <1>3 DEF Copied
<1>4. CASE ApplyVarbind
  BY <1>4 DEF ApplyVarbind
<1>5. CASE RefuseVarbind \/ Restored
  BY <1>5 DEF RefuseVarbind, Restored
<1>6. CASE RestoreField
  BY <1>6 DEF RestoreField
<1>7. CASE Commit \/ Rebuilt
  BY <1>7 DEF Commit, Rebuilt
<1>8. CASE CopyRaises
  BY <1>8 DEF CopyRaises
<1>9. CASE Post
  BY <1>9 DEF Post
<1>10. CASE UNCHANGED faceVars
  BY <1>10 DEF faceVars
<1> QED
  BY <1>1, <1>2, <1>3, <1>4, <1>5, <1>6, <1>7, <1>8, <1>9, <1>10 DEF FaceNext

LEMMA NumberKept == FaceInv /\ [FaceNext]_faceVars => NumberInv'
<1> SUFFICES ASSUME FaceInv, [FaceNext]_faceVars PROVE NumberInv'
  OBVIOUS
<1>0. FaceTypeOK /\ NumberInv
  BY DEF FaceInv
<1>a. serial \in Nat /\ Foreign \notin Nat
  BY <1>0, SnmpFaceAssumption DEF FaceTypeOK
<1> USE <1>0, <1>a DEF NumberInv, FaceTypeOK, Values, Blank
<1>1. CASE Arrive
  BY <1>1 DEF Arrive
<1>2. CASE CopyColumn
  BY <1>2 DEF CopyColumn
<1>3. CASE Copied \/ RefuseVarbind
  BY <1>3 DEF Copied, RefuseVarbind
<1>4. CASE ApplyVarbind
  BY <1>4 DEF ApplyVarbind
<1>5. CASE RestoreField
  BY <1>5 DEF RestoreField
<1>6. CASE Restored \/ Commit
  BY <1>6 DEF Restored, Commit
<1>7. CASE Rebuilt
  BY <1>7 DEF Rebuilt
<1>8. CASE CopyRaises
  BY <1>8 DEF CopyRaises
<1>9. CASE Post
  BY <1>9 DEF Post
<1>10. CASE UNCHANGED faceVars
  BY <1>10 DEF faceVars
<1> QED
  BY <1>1, <1>2, <1>3, <1>4, <1>5, <1>6, <1>7, <1>8, <1>9, <1>10 DEF FaceNext

LEMMA ViewKept == FaceInv /\ [FaceNext]_faceVars => ViewInv'
<1> SUFFICES ASSUME FaceInv, [FaceNext]_faceVars PROVE ViewInv'
  OBVIOUS
<1>0. FaceTypeOK /\ PduInv /\ ViewInv
  BY DEF FaceInv
<1> USE <1>0 DEF ViewInv, FaceTypeOK, AtRest, Answers, Working
<1>1. CASE Arrive
  BY <1>1 DEF Arrive
<1>2. CASE CopyColumn
  BY <1>2 DEF CopyColumn
<1>3. CASE Copied \/ RefuseVarbind
  BY <1>3 DEF Copied, RefuseVarbind
<1>4. CASE ApplyVarbind
  BY <1>4 DEF ApplyVarbind
<1>5. CASE RestoreField
  BY <1>5 DEF RestoreField
<1>6. CASE Restored
  BY <1>6 DEF Restored, PduInv, Differs
<1>7. CASE Commit
  BY <1>7 DEF Commit
<1>8. CASE Rebuilt
  <2>1. Differs(pdu) /\ todo = {} /\ phase = "rebuild"
    BY <1>8 DEF Rebuilt, PduInv
  <2>2. \A c \in Col \ during : view'[c] = state'[c]
    BY <1>8, <2>1 DEF Rebuilt
  <2>3. \A c \in pdu \ posted : view'[c] = serial
    BY <2>1, <2>2, <1>8 DEF Differs, Rebuilt
  <2> QED BY <1>8, <2>2, <2>3 DEF Rebuilt
<1>9. CASE CopyRaises
  BY <1>9 DEF CopyRaises, PduInv, Differs
<1>10. CASE Post
  BY <1>10 DEF Post
<1>11. CASE UNCHANGED faceVars
  BY <1>11 DEF faceVars
<1> QED
  BY <1>1, <1>2, <1>3, <1>4, <1>5, <1>6, <1>7, <1>8, <1>9, <1>10, <1>11 DEF FaceNext

LEMMA PostsKept == FaceInv /\ [FaceNext]_faceVars => PostsSurvive'
<1> SUFFICES ASSUME FaceInv, [FaceNext]_faceVars PROVE PostsSurvive'
  OBVIOUS
<1>0. FaceTypeOK /\ PduInv /\ PostsSurvive
  BY DEF FaceInv
<1> USE <1>0 DEF PostsSurvive, FaceTypeOK
<1>1. CASE Arrive
  BY <1>1 DEF Arrive
<1>2. CASE ApplyVarbind
  BY <1>2 DEF ApplyVarbind, PduInv
<1>3. CASE Post
  BY <1>3 DEF Post
<1>4. CASE CopyColumn \/ Copied \/ RefuseVarbind \/ RestoreField \/ Restored
  BY <1>4 DEF CopyColumn, Copied, RefuseVarbind, RestoreField, Restored
<1>5. CASE Commit \/ Rebuilt \/ CopyRaises \/ UNCHANGED faceVars
  BY <1>5 DEF Commit, Rebuilt, CopyRaises, faceVars
<1> QED BY <1>1, <1>2, <1>3, <1>4, <1>5 DEF FaceNext

LEMMA FaceInvHolds == FaceSpec => []FaceInv
<1>1. FaceInv /\ [FaceNext]_faceVars => FaceInv'
  BY FaceTypeKept, PduKept, NumberKept, ViewKept, PostsKept DEF FaceInv
<1> QED BY <1>1, FaceInitInv, PTL DEF FaceSpec

(***************************************************************************)
(* A SET PDU of any number of varbinds, to any number of columns and       *)
(* fields, has changed all of its columns when it is accepted and nothing  *)
(* when it is refused, whatever other faces write and wherever they come   *)
(* in between the copying, the varbinds and the putting back; and what     *)
(* they have written, a PDU that is not refused leaves as it is.           *)
(***************************************************************************)
THEOREM WholeOrNothingProved == FaceSpec => []WholeOrNothing
<1>1. FaceInv => WholeOrNothing
  BY DEF FaceInv, PduInv, Differs, WholeOrNothing, Whole, Undone
<1> QED BY <1>1, FaceInvHolds, PTL

(***************************************************************************)
(* SNMP clients see nothing of a PDU before it is accepted and all of it   *)
(* from then on: so PortAgent and VlanAgent carry it out in one step.      *)
(* Between PDUs they see the state, but for what other faces have written  *)
(* or a rebuild that raised has missed, and also after a PDU that was      *)
(* refused, although nothing is computed anew then.                        *)
(***************************************************************************)
THEOREM ClientsSeeWholeProved == FaceSpec => []ClientsSeeWhole
<1>1. FaceInv => ClientsSeeWhole
  BY DEF FaceInv, NumberInv, ViewInv, ViewIsCurrent, ClientsSeeWhole
<1> QED BY <1>1, FaceInvHolds, PTL
=============================================================================
