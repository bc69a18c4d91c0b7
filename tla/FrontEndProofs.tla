--------------------------- MODULE FrontEndProofs ---------------------------
(***************************************************************************)
(* What TLAPS proves of FrontEnd, for any number of tasks, any set of the  *)
(* registered models, any pins and any number of calls.                    *)
(***************************************************************************)
EXTENDS FrontEnd, FiniteSetTheorems, TLAPS

-----------------------------------------------------------------------------
(***************************************************************************)
(* The registry and the choice of a backend.                               *)
(***************************************************************************)
LEMMA EntriesTyped ==
    /\ M4300_24X.backends \subseteq Backend /\ M4300_16X.backends \subseteq Backend
    /\ GSM7252PS.backends \subseteq Backend /\ GSM7228PS.backends \subseteq Backend
    /\ GS110EMX.backends \subseteq Backend /\ GS305EP.backends \subseteq Backend
    /\ M7300.backends \subseteq Backend /\ XS748T.backends \subseteq Backend
    /\ GS728TPP.backends \subseteq Backend /\ GS105PE.backends \subseteq Backend
BY DEF M4300_24X, M4300_16X, GSM7252PS, GSM7228PS, GS110EMX, GS305EP, M7300, XS748T,
       GS728TPP, GS105PE, Managed, Plus, Backend, CliBackends

LEMMA ModelsTyped == \A m \in Key : MODELS[m].backends \subseteq Backend
<1> DEFINE T(r) == r.backends \subseteq Backend
<1>1. /\ T(M4300_24X) /\ T(M4300_16X) /\ T(GSM7252PS) /\ T(GSM7228PS) /\ T(GS110EMX)
      /\ T(GS305EP) /\ T(M7300) /\ T(XS748T) /\ T(GS728TPP) /\ T(GS105PE)
  BY EntriesTyped
<1> HIDE DEF T
<1>2. \A m \in Key : T(MODELS[m])
  BY <1>1 DEF MODELS, Key
<1> QED BY <1>2 DEF T

LEMMA ChosenTyped ==
    ASSUME NEW m, NEW o, NEW named \in Backend \cup {NONE}
    PROVE  Chosen(m, o, named) \in Backend
BY DEF Chosen, Default, OwnBackend, Backend, CliBackends

LEMMA CarrierTyped ==
    ASSUME TypeOK, NEW c \in Task
    PROVE  Carrier(c) \in Backend
<1>1. Requested(c) \in Backend \cup {NONE}
  BY DEF Requested, TypeOK, Call
<1> QED BY <1>1, ChosenTyped DEF Carrier

LEMMA WireTyped ==
    ASSUME TypeOK, NEW c \in Task
    PROVE  Wire(user.model, Carrier(c)) \in Backend
BY CarrierTyped DEF Wire, CliTransport, Backend, CliBackends

LEMMA RefusalsTyped ==
    ASSUME NEW facade, NEW m, NEW b, NEW o, NEW force
    PROVE  /\ Barred(facade, m, b, o) \in {"go", "unsupported", "not_implemented"}
           /\ Declined(facade, m, b, o, force) \in {"go", "unsupported", "protected"}
BY DEF Barred, Declined

-----------------------------------------------------------------------------
(***************************************************************************)
(* Types.                                                                  *)
(***************************************************************************)
LEMMA NoCallTyped == NoCall \in Call
<1>1. "get_ports" \in Op /\ "none" \in Result
  BY DEF Op, ReadOps, Result
<1> QED BY <1>1 DEF NoCall, Call

LEMMA AnswerTyped ==
    ASSUME TypeOK, NEW c \in Task, NEW r \in Result, Answer(c, r)
    PROVE  call' \in [Task -> Call]
<1>1. call[c] \in Call
  BY DEF TypeOK
<1>2. [call[c] EXCEPT !.step = "answered", !.result = r] \in Call
  BY <1>1 DEF Call
<1> QED BY <1>2 DEF Answer, TypeOK

LEMMA RefusedTyped ==
    ASSUME TypeOK, NEW c \in Task, NEW r \in Refusal, NEW spent \in BOOLEAN,
           Refused(c, r, spent)
    PROVE  call' \in [Task -> Call]
<1>1. call[c] \in Call
  BY DEF TypeOK
<1>2. r \in Result
  BY DEF Result
<1>3. [call[c] EXCEPT !.leg = call[c].op, !.step = "start"] \in Call
  BY <1>1 DEF Call
<1>4. [call[c] EXCEPT !.step = "answered", !.result = r,
                      !.spent = call[c].spent \/ spent] \in Call
  BY <1>1, <1>2 DEF Call
<1> QED BY <1>3, <1>4 DEF Refused, TypeOK

LEMMA RequestTyped ==
    ASSUME TypeOK, NEW c \in Task, NEW spent \in BOOLEAN, Request(c, spent)
    PROVE  call' \in [Task -> Call]
<1>1. call[c] \in Call /\ http.epoch \in Nat
  BY DEF TypeOK
<1>2. Wire(user.model, Carrier(c)) \in Backend
  BY WireTyped
<1>3. [call[c] EXCEPT !.step = "sent",
                      !.wires = @ \cup {Wire(user.model, Carrier(c))},
                      !.spent = @ \/ spent, !.client = http.epoch] \in Call
  BY <1>1, <1>2 DEF Call
<1> QED BY <1>3 DEF Request, TypeOK

LEMMA KeepTyped ==
    ASSUME TypeOK, NEW k \in Secrets, Keep(k)
    PROVE  secret' \in [Secrets -> Values \cup {"unset", "blank", "none"}]
BY DEF Keep, Value, TypeOK, Vault

LEMMA StartTypes ==
    ASSUME TypeOK, NEW c \in Task,
           Ask(c) \/ HoldBack(c) \/ Consent(c) \/ Crash(c) \/ Bar(c) \/ Decline(c)
    PROVE  TypeOK'
<1>1. CASE Ask(c)
  <2>1. PICK o \in Op, n \in Names, f \in BOOLEAN :
          /\ call' = [call EXCEPT ![c] =
                        [NoCall EXCEPT !.op = o, !.name = n, !.force = f,
                                       !.leg = FirstLeg(o, f),
                                       !.step = IF user.front = "ngsw" /\ o \in WriteOps
                                                THEN "confirm" ELSE "start"]]
          /\ asked' = IF o \in Shared THEN asked + 1 ELSE MaxCalls
    BY <1>1 DEF Ask
  <2>2. n \in Backend \cup {NONE}
    BY ModelsTyped, FrontEndAssumption DEF Names, TypeOK, Backend, CliBackends
  <2>3. FirstLeg(o, f) \in Op
    BY DEF FirstLeg, Op, ReadOps
  <2>4. [NoCall EXCEPT !.op = o, !.name = n, !.force = f, !.leg = FirstLeg(o, f),
                       !.step = IF user.front = "ngsw" /\ o \in WriteOps
                                THEN "confirm" ELSE "start"] \in Call
    BY <2>2, <2>3, NoCallTyped DEF Call
  <2>5. call' \in [Task -> Call] /\ asked' \in Nat
    BY <2>1, <2>4, FrontEndAssumption DEF TypeOK
  <2> QED BY <1>1, <2>5 DEF Ask, TypeOK
<1>2. CASE HoldBack(c)
  <2>1. call' \in [Task -> Call]
    BY <1>2, AnswerTyped DEF HoldBack, Result, Refusal
  <2> QED BY <1>2, <2>1 DEF HoldBack, TypeOK
<1>3. CASE Consent(c)
  <2>1. [call[c] EXCEPT !.step = "start"] \in Call
    BY DEF TypeOK, Call
  <2>2. call' \in [Task -> Call]
    BY <1>3, <2>1 DEF Consent, TypeOK
  <2> QED BY <1>3, <2>2 DEF Consent, TypeOK
<1>4. CASE Crash(c)
  <2>1. call' \in [Task -> Call]
    BY <1>4, AnswerTyped DEF Crash, Result, Refusal
  <2> QED BY <1>4, <2>1 DEF Crash, TypeOK
<1>5. CASE Bar(c)
  <2>1. Bars(c) \in Refusal
    BY <1>5, RefusalsTyped DEF Bar, Bars, Refusal
  <2>2. call' \in [Task -> Call]
    BY <1>5, <2>1, RefusedTyped DEF Bar
  <2> QED BY <1>5, <2>2 DEF Bar, TypeOK
<1>6. CASE Decline(c)
  <2> DEFINE r == Declined(Facade, user.model, Carrier(c), call[c].leg, call[c].force)
  <2>1. r \in Refusal
    BY <1>6, RefusalsTyped DEF Decline, Refusal
  <2>2. call' \in [Task -> Call]
    BY <1>6, <2>1, RefusedTyped DEF Decline
  <2> QED BY <1>6, <2>2 DEF Decline, TypeOK
<1> QED BY <1>1, <1>2, <1>3, <1>4, <1>5, <1>6

LEMMA BuildTypes ==
    ASSUME TypeOK, NEW c \in Task, Build(c) \/ CannotBuild(c)
    PROVE  TypeOK'
<1> DEFINE h == Half(call[c].leg)
           k == Eager(h, Carrier(c))
<1>1. k \in {"community", "nsdp", NONE} /\ h \in {"reader", "writer"}
  BY DEF Eager, Half
<1>2. SecretDue(c) => k \in Secrets
  BY <1>1 DEF SecretDue, Secrets
<1>3. CASE Build(c)
  <2>1. secret' \in [Secrets -> Values \cup {"unset", "blank", "none"}]
    BY <1>2, <1>3, KeepTyped DEF Build, TypeOK
  <2>2. cached' \in [{"reader", "writer"} -> SUBSET Backend]
    BY <1>1, <1>3, CarrierTyped DEF Build, TypeOK
  <2>3. call' \in [Task -> Call]
    <3> DEFINE x == call[c].spent \/ SecretDue(c)
    <3>1. call' = [call EXCEPT ![c].step = "ask", ![c].spent = x]
      BY <1>3 DEF Build
    <3>2. x \in BOOLEAN
      BY DEF SecretDue
    <3> HIDE DEF x
    <3>3. [call[c] EXCEPT !.step = "ask", !.spent = x] \in Call
      <4> call[c] \in Call
        BY DEF TypeOK
      <4> QED BY <3>2 DEF Call
    <3> QED BY <3>1, <3>3 DEF TypeOK
  <2> QED BY <1>3, <2>1, <2>2, <2>3 DEF Build, TypeOK
<1>4. CASE CannotBuild(c)
  <2>1. secret' \in [Secrets -> Values \cup {"unset", "blank", "none"}]
    BY <1>2, <1>4, KeepTyped DEF CannotBuild
  <2>2. call' \in [Task -> Call]
    BY <1>4, RefusedTyped DEF CannotBuild, Refusal
  <2> QED BY <1>4, <2>1, <2>2 DEF CannotBuild, TypeOK
<1> QED BY <1>3, <1>4

LEMMA SessionTypes ==
    ASSUME TypeOK, NEW c \in Task, OverPackets(c) \/ OverHttp(c) \/ OverCli(c)
    PROVE  TypeOK'
<1>1. "web" \in Secrets /\ "credential" \in Refusal /\ "closed" \in Result
  BY DEF Secrets, Refusal, Result
<1>2. ASSUME NoPassword(c)
      PROVE  /\ call' \in [Task -> Call]
             /\ secret' \in [Secrets -> Values \cup {"unset", "blank", "none"}]
             /\ UNCHANGED <<http, cli, used>>
  BY <1>1, <1>2, RefusedTyped, KeepTyped DEF NoPassword
<1>3. CASE OverPackets(c)
  <2>1. call' \in [Task -> Call]
    BY <1>3, RequestTyped DEF OverPackets
  <2> QED BY <1>3, <2>1 DEF OverPackets, TypeOK
<1>4. CASE OverHttp(c)
  <2>1. /\ call' \in [Task -> Call]
        /\ secret' \in [Secrets -> Values \cup {"unset", "blank", "none"}]
        /\ http' \in [client : {"none", "open", "closing"}, open : Nat, epoch : Nat]
        /\ used' \subseteq Values /\ cli' = cli
    <3>1. CASE Request(c, FALSE) /\ UNCHANGED <<secret, http, cli, used>>
      BY <3>1, RequestTyped DEF TypeOK
    <3>2. CASE Answer(c, "closed") /\ UNCHANGED <<secret, http, cli, used>>
      BY <1>1, <3>2, AnswerTyped DEF TypeOK
    <3>3. CASE /\ Value("web") \in Values /\ Keep("web")
               /\ used' = used \cup {Value("web")}
               /\ http' = [http EXCEPT !.client = "open", !.open = @ + 1]
               /\ Request(c, TRUE) /\ UNCHANGED cli
      <4>1. /\ call' \in [Task -> Call]
            /\ secret' \in [Secrets -> Values \cup {"unset", "blank", "none"}]
        BY <1>1, <3>3, RequestTyped, KeepTyped
      <4>2. http' \in [client : {"none", "open", "closing"}, open : Nat, epoch : Nat]
        <5>1. http \in [client : {"none", "open", "closing"}, open : Nat, epoch : Nat]
          BY DEF TypeOK
        <5>2. http.open \in Nat /\ http.open + 1 \in Nat
          BY <5>1
        <5>3. http' = [client |-> "open", open |-> http.open + 1, epoch |-> http.epoch]
          BY <3>3, <5>1
        <5> QED BY <5>1, <5>2, <5>3
      <4> QED BY <3>3, <4>1, <4>2 DEF TypeOK
    <3>4. CASE NoPassword(c)
      BY <1>2, <3>4 DEF TypeOK
    <3> QED BY <1>4, <3>1, <3>2, <3>3, <3>4 DEF OverHttp
  <2> QED BY <1>4, <2>1 DEF OverHttp, TypeOK
<1>5. CASE OverCli(c)
  <2>1. /\ call' \in [Task -> Call]
        /\ secret' \in [Secrets -> Values \cup {"unset", "blank", "none"}]
        /\ cli' \in [{"reader", "writer", "deploy"} -> BOOLEAN]
        /\ used' \subseteq Values /\ http' = http
    <3> DEFINE h == Owner(call[c].leg)
    <3>1. CASE Request(c, FALSE) /\ UNCHANGED <<secret, http, cli, used>>
      BY <3>1, RequestTyped DEF TypeOK
    <3>2. CASE /\ Value("web") \in Values /\ Keep("web")
               /\ used' = used \cup {Value("web")}
               /\ cli' = [cli EXCEPT ![h] = TRUE]
               /\ Request(c, TRUE) /\ UNCHANGED http
      <4>1. /\ call' \in [Task -> Call]
            /\ secret' \in [Secrets -> Values \cup {"unset", "blank", "none"}]
        BY <1>1, <3>2, RequestTyped, KeepTyped
      <4> QED BY <3>2, <4>1 DEF TypeOK
    <3>3. CASE NoPassword(c)
      BY <1>2, <3>3 DEF TypeOK
    <3> QED BY <1>5, <3>1, <3>2, <3>3 DEF OverCli
  <2> QED BY <1>5, <2>1 DEF OverCli, TypeOK
<1> QED BY <1>3, <1>4, <1>5

LEMMA SwitchTypes ==
    ASSUME TypeOK, NEW c \in Task,
           Alter(c) \/ ReplyToGuard(c) \/ Reply(c) \/ Break(c)
    PROVE  TypeOK'
<1>1. CloseDeployment(c) => cli' \in [{"reader", "writer", "deploy"} -> BOOLEAN]
  BY DEF CloseDeployment, TypeOK
<1>2. call[c] \in Call
  BY DEF TypeOK
<1>3. CASE Alter(c)
  <2>1. [call[c] EXCEPT !.wrote = TRUE] \in Call
    BY <1>2 DEF Call
  <2>2. call' \in [Task -> Call]
    BY <1>3, <2>1 DEF Alter, TypeOK
  <2> QED BY <1>3, <2>2 DEF Alter, TypeOK
<1>4. CASE ReplyToGuard(c)
  <2>1. [call[c] EXCEPT !.leg = call[c].op, !.step = "start", !.clear = TRUE] \in Call
    BY <1>2 DEF Call
  <2>2. call' \in [Task -> Call]
    <3>1. CASE joined
      BY <1>4, <3>1, AnswerTyped DEF ReplyToGuard, Result, Refusal
    <3>2. CASE ~joined
      BY <1>4, <2>1, <3>2 DEF ReplyToGuard, TypeOK
    <3> QED BY <3>1, <3>2
  <2> QED BY <1>4, <2>2 DEF ReplyToGuard, TypeOK
<1>5. CASE Reply(c)
  <2>1. PICK r \in Result : Answer(c, r)
    BY <1>5 DEF Reply, Result, Refusal
  <2> QED BY <1>1, <1>5, <2>1, AnswerTyped DEF Reply, TypeOK
<1>6. CASE Break(c)
  <2>1. PICK r \in Result : Answer(c, r)
    BY <1>6 DEF Break, Result
  <2> QED BY <1>1, <1>6, <2>1, AnswerTyped DEF Break, TypeOK
<1> QED BY <1>3, <1>4, <1>5, <1>6

\* A facade has at most one web client open, and it is the one it can close.
SessionInv == TypeOK /\ NoLeak

LEMMA FacadeTypes ==
    ASSUME SessionInv, Close \/ AcloseBegins \/ AcloseEnds \/ Surroundings
    PROVE  TypeOK'
<1>1. TypeOK /\ NoLeak
  BY DEF SessionInv
<1>0. http \in [client : {"none", "open", "closing"}, open : Nat, epoch : Nat]
  BY <1>1 DEF TypeOK
<1>2. ASSUME http.client # "none"
      PROVE  Released \in [client : {"none", "open", "closing"}, open : Nat, epoch : Nat]
  <2>1. http.open - 1 \in Nat /\ http.epoch + 1 \in Nat
    BY <1>0, <1>1, <1>2 DEF NoLeak
  <2> DEFINE x == http.open - 1
             y == http.epoch + 1
  <2>2. Released = [http EXCEPT !.client = "none", !.open = x, !.epoch = y]
    BY DEF Released
  <2>3. x \in Nat /\ y \in Nat
    BY <2>1
  <2> HIDE DEF x, y
  <2> QED BY <1>0, <2>2, <2>3
<1>3. CASE Close
  BY <1>1, <1>2, <1>3 DEF Close, TypeOK
<1>4. CASE AcloseBegins
  <2>1. http' \in [client : {"none", "open", "closing"}, open : Nat, epoch : Nat]
    BY <1>0, <1>4 DEF AcloseBegins
  <2> QED BY <1>1, <1>4, <2>1 DEF AcloseBegins, TypeOK
<1>5. CASE AcloseEnds
  BY <1>1, <1>2, <1>5 DEF AcloseEnds, TypeOK
<1>6. CASE Surroundings
  <2>1. vault' \in Vault /\ turns' \in Nat
    BY <1>1, <1>6 DEF Surroundings, TypeOK
  <2>2. joined' \in BOOLEAN
    <3>1. CASE joined' = ~joined
      BY <1>1, <3>1 DEF TypeOK
    <3>2. CASE UNCHANGED joined
      BY <1>1, <3>2 DEF TypeOK
    <3> QED BY <1>6, <3>1, <3>2 DEF Surroundings
  <2> QED BY <1>1, <1>6, <2>1, <2>2 DEF Surroundings, TypeOK
<1> QED BY <1>3, <1>4, <1>5, <1>6

LEMMA SessionInit == Init => SessionInv
<1> SUFFICES ASSUME Init PROVE SessionInv
  OBVIOUS
<1>1. PICK f \in Fronts, m \in Models, p \in Backend \cup {NONE}, w \in BOOLEAN :
        user = [front |-> f, model |-> m, pin |-> p, writes |-> w]
  BY DEF Init
<1>2. user \in [front : Fronts, model : Models, pin : Backend \cup {NONE}, writes : BOOLEAN]
  BY <1>1
<1>3. call \in [Task -> Call]
  BY NoCallTyped DEF Init
<1>4. http \in [client : {"none", "open", "closing"}, open : Nat, epoch : Nat] /\ NoLeak
  BY DEF Init, NoLeak
<1>5. vault \in Vault /\ joined \in BOOLEAN
  BY DEF Init
<1>6. /\ cached \in [{"reader", "writer"} -> SUBSET Backend]
      /\ secret \in [Secrets -> Values \cup {"unset", "blank", "none"}]
      /\ cli \in [{"reader", "writer", "deploy"} -> BOOLEAN]
      /\ used \subseteq Values /\ asked \in Nat /\ turns \in Nat
  BY DEF Init
<1> QED BY <1>2, <1>3, <1>4, <1>5, <1>6 DEF SessionInv, TypeOK

\* The client changes with the first request over the web and with a close.
LEMMA OneClient ==
    ASSUME SessionInv, Next
    PROVE  NoLeak'
<1>1. TypeOK /\ NoLeak
  BY DEF SessionInv
<1>2. http \in [client : {"none", "open", "closing"}, open : Nat, epoch : Nat]
  BY <1>1 DEF TypeOK
<1>3. ASSUME NEW c \in Task, OverHttp(c)
      PROVE  NoLeak'
  <2>1. CASE UNCHANGED http
    BY <1>1, <2>1 DEF NoLeak
  <2>2. CASE /\ http.client = "none"
             /\ http' = [http EXCEPT !.client = "open", !.open = @ + 1]
    <3>1. http.open = 0
      BY <1>1, <2>2 DEF NoLeak
    <3>2. http'.client = "open" /\ http'.open = 1
      BY <1>2, <2>2, <3>1
    <3> QED BY <3>2 DEF NoLeak
  <2> QED BY <1>3, <2>1, <2>2 DEF OverHttp, HasClient, NoPassword
<1>4. ASSUME NEW c \in Task, Step(c), ~OverHttp(c)
      PROVE  NoLeak'
  <2>1. UNCHANGED http
    <3>1. CASE OverCli(c)
      BY <3>1 DEF OverCli, NoPassword
    <3> QED BY <1>4, <3>1 DEF Step, Ask, HoldBack, Consent, Crash, Bar, Build, CannotBuild,
               Decline, OverPackets, Alter, ReplyToGuard, Reply, Break
  <2> QED BY <1>1, <2>1 DEF NoLeak
<1>5. ASSUME http.client # "none", http' = Released
      PROVE  NoLeak'
  <2>1. http.open = 1
    BY <1>1, <1>5 DEF NoLeak
  <2>2. http'.client = "none" /\ http'.open = 0
    BY <1>2, <1>5, <2>1 DEF Released
  <2> QED BY <2>2 DEF NoLeak
<1>6. CASE Close
  BY <1>5, <1>6 DEF Close
<1>7. CASE AcloseBegins
  <2>1. http'.client = "closing" /\ http'.open = http.open /\ http.open = 1
    BY <1>1, <1>2, <1>7 DEF AcloseBegins, NoLeak
  <2> QED BY <2>1 DEF NoLeak
<1>8. CASE AcloseEnds
  BY <1>5, <1>8 DEF AcloseEnds
<1>9. CASE Surroundings
  BY <1>1, <1>9 DEF Surroundings, NoLeak
<1> QED BY <1>3, <1>4, <1>6, <1>7, <1>8, <1>9 DEF Next

LEMMA StepTypes ==
    ASSUME SessionInv, Next
    PROVE  TypeOK'
<1>1. TypeOK
  BY DEF SessionInv
<1>2. ASSUME NEW c \in Task, Step(c)
      PROVE  TypeOK'
  BY <1>1, <1>2, StartTypes, BuildTypes, SessionTypes, SwitchTypes DEF Step
<1> QED BY <1>2, FacadeTypes DEF Next

(***************************************************************************)
(* Every value the facade keeps has its type, and whichever tasks ask for  *)
(* a web client at the same time and whenever it is closed, at most one is *)
(* open, the one that SyncSwitch.close and AsyncSwitch.aclose still reach  *)
(* (_http_session, _async_http_session).                                   *)
(***************************************************************************)
THEOREM OneWebClient == Spec => []SessionInv /\ []NoLeak
<1>1. SessionInv /\ [Next]_vars => SessionInv'
  <2>1. ASSUME SessionInv, Next PROVE SessionInv'
    BY <2>1, OneClient, StepTypes DEF SessionInv
  <2>2. ASSUME SessionInv, UNCHANGED vars PROVE SessionInv'
    <3>1. TypeOK'
      BY <2>2 DEF SessionInv, TypeOK, vars
    <3>2. NoLeak'
      BY <2>2 DEF SessionInv, NoLeak, vars
    <3> QED BY <3>1, <3>2 DEF SessionInv
  <2> QED BY <2>1, <2>2
<1>2. SessionInv => NoLeak
  BY DEF SessionInv
<1>3. Spec => []SessionInv
  BY SessionInit, <1>1, PTL DEF Spec
<1> QED BY <1>2, <1>3, PTL

-----------------------------------------------------------------------------
(***************************************************************************)
(* Steps of FrontEnd as steps of OneCall.                                  *)
(***************************************************************************)
OthersKeep(c) == \A d \in Task \ {c} : call'[d] = call[d]

LEMMA AskedStep ==
    ASSUME NEW c \in Task, OthersKeep(c),
           PhaseOf(call[c]) # "open", PhaseOf(call'[c]) = "open",
           call'[c].wires = {}, call'[c].wrote = FALSE
    PROVE  Promise!Next
<1>1. Promise!Ask(c)
  BY DEF Promise!Ask, OthersKeep
<1> QED BY <1>1 DEF Promise!Next

LEMMA CarriedStep ==
    ASSUME NEW c \in Task, OthersKeep(c), NEW w \in Backend,
           PhaseOf(call[c]) = "open", PhaseOf(call'[c]) = "open",
           call[c].wires \subseteq {w}, call'[c].wires = {w},
           call'[c].wrote = call[c].wrote
    PROVE  Promise!Next
<1>1. Promise!Carry(c)
  BY DEF Promise!Carry, OthersKeep
<1> QED BY <1>1 DEF Promise!Next

LEMMA AlteredStep ==
    ASSUME NEW c \in Task, OthersKeep(c),
           PhaseOf(call[c]) = "open", PhaseOf(call'[c]) = "open",
           call[c].wires # {}, call'[c].wires = call[c].wires,
           call'[c].wrote = TRUE
    PROVE  Promise!Next
<1>1. Promise!Alter(c)
  BY DEF Promise!Alter, OthersKeep
<1> QED BY <1>1 DEF Promise!Next

LEMMA AnsweredStep ==
    ASSUME NEW c \in Task, OthersKeep(c), NEW p \in {"refused", "failed", "done"},
           PhaseOf(call[c]) = "open", PhaseOf(call'[c]) = p,
           p = "refused" => ~call[c].wrote,
           p = "done" => call[c].wires # {},
           call'[c].wires = call[c].wires, call'[c].wrote = call[c].wrote
    PROVE  Promise!Next
<1>1. Promise!Answer(c, p)
  BY DEF Promise!Answer, OthersKeep
<1> QED BY <1>1 DEF Promise!Next

LEMMA SilentStep ==
    ASSUME NEW c \in Task, OthersKeep(c),
           PhaseOf(call'[c]) = PhaseOf(call[c]),
           call'[c].wires = call[c].wires, call'[c].wrote = call[c].wrote
    PROVE  UNCHANGED Promise!vars
BY DEF Promise!vars, OthersKeep

LEMMA Phases ==
    ASSUME NEW k
    PROVE  /\ k.step \in {"confirm", "start", "ask", "sent"} => PhaseOf(k) = "open"
           /\ k.step = "idle" => PhaseOf(k) = "idle"
           /\ k.step = "answered" /\ k.result \in Refusal => PhaseOf(k) = "refused"
           /\ k.step = "answered" /\ k.result = "done" => PhaseOf(k) = "done"
           /\ k.step = "answered" /\ k.result \in {"none", "verify", "failed", "no_hash", "closed"}
                => PhaseOf(k) = "failed"
           /\ k.step = "answered" => PhaseOf(k) # "open"
BY DEF PhaseOf, Refusal

-----------------------------------------------------------------------------
(***************************************************************************)
(* What a call in progress has done so far.                                *)
(***************************************************************************)
Faithful(c) ==
    /\ call[c].wires \subseteq {Wire(user.model, Carrier(c))}
    /\ call[c].step = "sent" => call[c].wires # {}
    /\ call[c].leg = call[c].op \/ call[c].leg = "get_vlans"
    /\ call[c].wrote => call[c].step \in {"sent", "answered"} /\ ~Guarding(c)

HonestInv == SessionInv /\ \A c \in Task : Faithful(c)

\* A step of the call of one task, as OneCall sees it.
Good(c) == /\ OthersKeep(c) /\ user' = user /\ Faithful(c)'
           /\ Promise!Next \/ UNCHANGED Promise!vars
           /\ call'[c].wrote => call[c].wrote \/ Alter(c)

LEMMA SameCarrier ==
    ASSUME NEW c \in Task, user' = user,
           call'[c].op = call[c].op, call'[c].name = call[c].name
    PROVE  Carrier(c)' = Carrier(c)
BY DEF Carrier, Requested

\* The leg and the wires are what they were, and it has not written.
LEMMA StillFaithful ==
    ASSUME NEW c \in Task, Faithful(c), user' = user,
           call'[c].op = call[c].op, call'[c].name = call[c].name,
           call'[c].wires = call[c].wires, call'[c].wrote = call[c].wrote,
           call'[c].step # "sent",
           call'[c].leg = call[c].leg \/ call'[c].leg = call[c].op,
           call[c].wrote => call'[c].step = "answered"
    PROVE  Faithful(c)'
<1>1. Carrier(c)' = Carrier(c)
  BY SameCarrier
<1> QED BY <1>1 DEF Faithful, Guarding

LEMMA AnswerIsGood ==
    ASSUME TypeOK, NEW c \in Task, NEW r \in Result, Faithful(c), user' = user,
           call[c].step \in {"confirm", "start", "ask", "sent"}, Answer(c, r),
           r \in Refusal => ~call[c].wrote,
           r = "done" => call[c].wires # {}
    PROVE  Good(c)
<1>1. call[c] \in Call
  BY DEF TypeOK
<1>2. /\ call'[c].step = "answered" /\ call'[c].result = r
      /\ call'[c].op = call[c].op /\ call'[c].name = call[c].name
      /\ call'[c].wires = call[c].wires /\ call'[c].wrote = call[c].wrote
      /\ call'[c].leg = call[c].leg
      /\ OthersKeep(c)
  BY <1>1 DEF Answer, OthersKeep, TypeOK, Call
<1>3. Faithful(c)'
  BY <1>2, StillFaithful
<1>4. PhaseOf(call[c]) = "open"
  BY Phases
<1>5. CASE r \in Refusal
  <2>1. PhaseOf(call'[c]) = "refused"
    BY <1>2, <1>5, Phases
  <2> QED BY <1>2, <1>3, <1>4, <1>5, <2>1, AnsweredStep DEF Good
<1>6. CASE r = "done"
  <2>1. PhaseOf(call'[c]) = "done"
    BY <1>2, <1>6, Phases
  <2> QED BY <1>2, <1>3, <1>4, <1>6, <2>1, AnsweredStep DEF Good
<1>7. CASE r \in {"none", "verify", "failed", "no_hash", "closed"}
  <2>1. PhaseOf(call'[c]) = "failed"
    BY <1>2, <1>7, Phases
  <2> QED BY <1>2, <1>3, <1>4, <2>1, AnsweredStep DEF Good
<1> QED BY <1>5, <1>6, <1>7 DEF Result

LEMMA RefusedIsGood ==
    ASSUME TypeOK, NEW c \in Task, NEW r \in Refusal, NEW spent \in BOOLEAN,
           Faithful(c), user' = user,
           call[c].step \in {"start", "ask"}, Refused(c, r, spent)
    PROVE  Good(c)
<1>1. call[c] \in Call
  BY DEF TypeOK
<1>2. OthersKeep(c)
  BY DEF Refused, OthersKeep, TypeOK
<1>3. PhaseOf(call[c]) = "open" /\ ~call[c].wrote
  BY Phases DEF Faithful
<1>4. CASE Guarding(c) /\ r = "unsupported"
  <2>1. call'[c] = [call[c] EXCEPT !.leg = call[c].op, !.step = "start"]
    BY <1>4 DEF Refused, TypeOK
  <2>2. /\ call'[c].step = "start" /\ call'[c].leg = call[c].op
        /\ call'[c].op = call[c].op /\ call'[c].name = call[c].name
        /\ call'[c].wires = call[c].wires /\ call'[c].wrote = call[c].wrote
    BY <1>1, <2>1 DEF Call
  <2>3. Faithful(c)'
    BY <1>3, <2>2, StillFaithful
  <2>4. PhaseOf(call'[c]) = "open"
    BY <2>2, Phases
  <2> QED BY <1>2, <1>3, <2>2, <2>3, <2>4, SilentStep DEF Good
<1>5. CASE ~(Guarding(c) /\ r = "unsupported")
  <2> DEFINE x == call[c].spent \/ spent
  <2>1. call'[c] = [call[c] EXCEPT !.step = "answered", !.result = r, !.spent = x]
    BY <1>5 DEF Refused, TypeOK
  <2> HIDE DEF x
  <2>2. /\ call'[c].step = "answered" /\ call'[c].result = r
        /\ call'[c].leg = call[c].leg
        /\ call'[c].op = call[c].op /\ call'[c].name = call[c].name
        /\ call'[c].wires = call[c].wires /\ call'[c].wrote = call[c].wrote
    BY <1>1, <2>1 DEF Call
  <2>3. Faithful(c)'
    BY <1>3, <2>2, StillFaithful
  <2>4. PhaseOf(call'[c]) = "refused"
    BY <2>2, Phases
  <2> QED BY <1>2, <1>3, <2>2, <2>3, <2>4, AnsweredStep DEF Good
<1> QED BY <1>4, <1>5

LEMMA RequestIsGood ==
    ASSUME TypeOK, NEW c \in Task, NEW spent \in BOOLEAN, Faithful(c), user' = user,
           call[c].step = "ask", Request(c, spent)
    PROVE  Good(c)
<1> DEFINE w == Wire(user.model, Carrier(c))
           x == call[c].spent \/ spent
<1>1. call[c] \in Call
  BY DEF TypeOK
<1>2. OthersKeep(c)
  BY DEF Request, OthersKeep, TypeOK
<1>3. call'[c] = [call[c] EXCEPT !.step = "sent", !.wires = @ \cup {w},
                                 !.spent = x, !.client = http.epoch]
  BY DEF Request, TypeOK
<1>4. PhaseOf(call[c]) = "open" /\ ~call[c].wrote
  BY Phases DEF Faithful
<1>5. w \in Backend /\ call[c].wires \subseteq {w}
  BY WireTyped DEF Faithful
<1>6. Carrier(c)' = Carrier(c) => w' = w
  BY DEF Wire
<1> HIDE DEF w, x
<1>7. /\ call'[c].step = "sent" /\ call'[c].leg = call[c].leg
      /\ call'[c].op = call[c].op /\ call'[c].name = call[c].name
      /\ call'[c].wrote = call[c].wrote
  BY <1>1, <1>3 DEF Call
<1>8. call'[c].wires = {w}
  <2>1. call'[c].wires = call[c].wires \cup {w}
    BY <1>1, <1>3 DEF Call
  <2> QED BY <1>5, <2>1
<1>9. w' = w
  BY <1>6, <1>7, SameCarrier
<1>10. Faithful(c)'
  BY <1>4, <1>7, <1>8, <1>9 DEF Faithful, w
<1>11. PhaseOf(call'[c]) = "open"
  BY <1>7, Phases
<1> QED BY <1>2, <1>4, <1>5, <1>7, <1>8, <1>10, <1>11, CarriedStep DEF Good

-----------------------------------------------------------------------------
(***************************************************************************)
(* One lemma for each group of actions.                                    *)
(***************************************************************************)
LEMMA AskIsGood ==
    ASSUME TypeOK, NEW c \in Task, Faithful(c), Ask(c)
    PROVE  Good(c)
<1>1. PICK o \in Op, n \in Names, f \in BOOLEAN :
        call' = [call EXCEPT ![c] =
                   [NoCall EXCEPT !.op = o, !.name = n, !.force = f, !.leg = FirstLeg(o, f),
                                  !.step = IF user.front = "ngsw" /\ o \in WriteOps
                                           THEN "confirm" ELSE "start"]]
  BY DEF Ask
<1> DEFINE l == FirstLeg(o, f)
           s == IF user.front = "ngsw" /\ o \in WriteOps THEN "confirm" ELSE "start"
<1>2. l \in {o, "get_vlans"} /\ s \in {"confirm", "start"}
  BY DEF FirstLeg
<1>3. call'[c] = [NoCall EXCEPT !.op = o, !.name = n, !.force = f, !.leg = l, !.step = s]
  BY <1>1 DEF TypeOK
<1> HIDE DEF l, s
<1>4. /\ call'[c].op = o /\ call'[c].leg = l /\ call'[c].step = s
      /\ call'[c].wires = {} /\ call'[c].wrote = FALSE
  BY <1>3 DEF NoCall
<1>5. OthersKeep(c) /\ user' = user
  BY <1>1 DEF Ask, OthersKeep, TypeOK
<1>6. Faithful(c)'
  BY <1>2, <1>4 DEF Faithful
<1>7. PhaseOf(call[c]) # "open" /\ PhaseOf(call'[c]) = "open"
  BY <1>2, <1>4, Phases DEF Ask, MayAsk, Free
<1> QED BY <1>4, <1>5, <1>6, <1>7, AskedStep DEF Good

LEMMA EarlyAnswerIsGood ==
    ASSUME TypeOK, NEW c \in Task, Faithful(c),
           HoldBack(c) \/ Crash(c) \/ Bar(c) \/ CannotBuild(c) \/ Decline(c)
    PROVE  Good(c)
<1>1. CASE HoldBack(c)
  <2>1. ~call[c].wrote
    BY <1>1 DEF HoldBack, Faithful
  <2>2. PICK r \in {"dry", "declined"} : Answer(c, r)
    BY <1>1 DEF HoldBack
  <2>3. r \in Refusal /\ r \in Result /\ r # "done"
    BY DEF Refusal, Result
  <2> QED BY <1>1, <2>1, <2>2, <2>3, AnswerIsGood DEF HoldBack
<1>2. CASE Crash(c)
  <2>1. ~call[c].wrote
    BY <1>2 DEF Crash, Faithful
  <2>2. "crashed" \in Refusal /\ "crashed" \in Result
    BY DEF Refusal, Result
  <2> QED BY <1>2, <2>1, <2>2, AnswerIsGood DEF Crash
<1>3. CASE Bar(c)
  <2>1. Bars(c) \in Refusal
    BY <1>3, RefusalsTyped DEF Bar, Bars, Refusal
  <2> QED BY <1>3, <2>1, RefusedIsGood DEF Bar
<1>4. CASE CannotBuild(c)
  <2>1. "credential" \in Refusal
    BY DEF Refusal
  <2> QED BY <1>4, <2>1, RefusedIsGood DEF CannotBuild
<1>5. CASE Decline(c)
  <2> DEFINE r == Declined(Facade, user.model, Carrier(c), call[c].leg, call[c].force)
  <2>1. r \in Refusal
    BY <1>5, RefusalsTyped DEF Decline, Refusal
  <2> QED BY <1>5, <2>1, RefusedIsGood DEF Decline
<1> QED BY <1>1, <1>2, <1>3, <1>4, <1>5

LEMMA PreparationIsGood ==
    ASSUME TypeOK, NEW c \in Task, Faithful(c), Consent(c) \/ Build(c)
    PROVE  Good(c)
<1>1. call[c] \in Call
  BY DEF TypeOK
<1>2. /\ call[c].step \in {"confirm", "start"} /\ call'[c].step \in {"start", "ask"}
      /\ call'[c].leg = call[c].leg
      /\ call'[c].op = call[c].op /\ call'[c].name = call[c].name
      /\ call'[c].wires = call[c].wires /\ call'[c].wrote = call[c].wrote
      /\ OthersKeep(c) /\ user' = user
  <2>1. CASE Consent(c)
    BY <1>1, <2>1 DEF Consent, OthersKeep, TypeOK, Call
  <2>2. CASE Build(c)
    <3> DEFINE x == call[c].spent \/ SecretDue(c)
    <3>1. call'[c] = [call[c] EXCEPT !.step = "ask", !.spent = x]
      BY <2>2 DEF Build, TypeOK
    <3> HIDE DEF x
    <3>2. OthersKeep(c) /\ user' = user /\ call[c].step = "start"
      BY <2>2 DEF Build, OthersKeep, TypeOK
    <3> QED BY <1>1, <3>1, <3>2 DEF Call
  <2> QED BY <2>1, <2>2
<1>3. Faithful(c)'
  <2>1. ~call[c].wrote
    BY <1>2 DEF Faithful
  <2> QED BY <1>2, <2>1, StillFaithful
<1>4. PhaseOf(call'[c]) = PhaseOf(call[c])
  BY <1>2, Phases
<1> QED BY <1>2, <1>3, <1>4, SilentStep DEF Good

LEMMA SessionIsGood ==
    ASSUME TypeOK, NEW c \in Task, Faithful(c), OverPackets(c) \/ OverHttp(c) \/ OverCli(c)
    PROVE  Good(c)
<1>1. call[c].step = "ask" /\ user' = user
  BY DEF OverPackets, OverHttp, OverCli, Goes
<1>2. CASE Request(c, TRUE) \/ Request(c, FALSE)
  BY <1>1, <1>2, RequestIsGood
<1>3. CASE Answer(c, "closed")
  <2>1. "closed" \in Result /\ "closed" \notin Refusal
    BY DEF Result, Refusal
  <2> QED BY <1>1, <1>3, <2>1, AnswerIsGood
<1>4. CASE NoPassword(c)
  <2>1. "credential" \in Refusal
    BY DEF Refusal
  <2> QED BY <1>1, <1>4, <2>1, RefusedIsGood DEF NoPassword
<1> QED BY <1>2, <1>3, <1>4 DEF OverPackets, OverHttp, OverCli

LEMMA AlterIsGood ==
    ASSUME TypeOK, NEW c \in Task, Faithful(c), Alter(c)
    PROVE  Good(c)
<1>1. call[c] \in Call
  BY DEF TypeOK
<1>2. call'[c] = [call[c] EXCEPT !.wrote = TRUE] /\ OthersKeep(c) /\ user' = user
  BY DEF Alter, OthersKeep, TypeOK
<1>3. /\ call'[c].step = "sent" /\ call'[c].leg = call[c].leg
      /\ call'[c].op = call[c].op /\ call'[c].name = call[c].name
      /\ call'[c].wires = call[c].wires /\ call'[c].wrote = TRUE
  BY <1>1, <1>2 DEF Call, Alter
<1>4. call[c].leg = call[c].op
  BY DEF Alter, Faithful, WriteOps
<1>5. Faithful(c)'
  <2>1. Carrier(c)' = Carrier(c)
    BY <1>2, <1>3, SameCarrier
  <2> QED BY <1>2, <1>3, <1>4, <2>1 DEF Faithful, Guarding, Alter
<1>6. PhaseOf(call[c]) = "open" /\ PhaseOf(call'[c]) = "open"
  BY <1>3, Phases DEF Alter
<1>7. call[c].wires # {}
  BY DEF Alter, Faithful
<1> QED BY <1>2, <1>3, <1>5, <1>6, <1>7, AlteredStep DEF Good

LEMMA SwitchAnswerIsGood ==
    ASSUME TypeOK, NEW c \in Task, Faithful(c), ReplyToGuard(c) \/ Reply(c) \/ Break(c)
    PROVE  Good(c)
<1>1. /\ call[c] \in Call /\ call[c].step = "sent" /\ user' = user /\ call[c].wires # {}
  BY DEF TypeOK, Faithful, ReplyToGuard, Reply, Break
<1>2. /\ {"done", "verify", "no_hash", "protected", "closed", "failed"} \subseteq Result
      /\ {"done", "verify", "no_hash", "closed", "failed"} \cap Refusal = {}
      /\ "protected" \in Refusal
  BY DEF Result, Refusal
<1>3. CASE ReplyToGuard(c)
  <2>1. ~call[c].wrote
    BY <1>3 DEF ReplyToGuard, Faithful
  <2>2. CASE joined
    BY <1>1, <1>2, <1>3, <2>1, <2>2, AnswerIsGood DEF ReplyToGuard
  <2>3. CASE ~joined
    <3>1. /\ call'[c] = [call[c] EXCEPT !.leg = call[c].op, !.step = "start", !.clear = TRUE]
          /\ OthersKeep(c)
      BY <1>3, <2>3 DEF ReplyToGuard, OthersKeep, TypeOK
    <3>2. /\ call'[c].step = "start" /\ call'[c].leg = call[c].op
          /\ call'[c].op = call[c].op /\ call'[c].name = call[c].name
          /\ call'[c].wires = call[c].wires /\ call'[c].wrote = call[c].wrote
      BY <1>1, <3>1 DEF Call
    <3>3. Faithful(c)'
      BY <1>1, <2>1, <3>2, StillFaithful
    <3>4. PhaseOf(call'[c]) = PhaseOf(call[c])
      BY <1>1, <3>2, Phases
    <3> QED BY <1>1, <3>1, <3>2, <3>3, <3>4, SilentStep DEF Good
  <2> QED BY <2>2, <2>3
<1>4. CASE Reply(c)
  <2>1. PICK r \in {"done", "verify", "no_hash", "protected"} :
          Answer(c, r) /\ (r = "protected" => ~call[c].wrote)
    BY <1>4 DEF Reply
  <2>2. r \in Result /\ (r \in Refusal => ~call[c].wrote)
    BY <1>2, <2>1
  <2> QED BY <1>1, <2>1, <2>2, AnswerIsGood
<1>5. CASE Break(c)
  <2>1. PICK r \in {"closed", "failed"} : Answer(c, r)
    BY <1>5 DEF Break
  <2> QED BY <1>1, <1>2, <2>1, AnswerIsGood
<1> QED BY <1>3, <1>4, <1>5

LEMMA StepIsGood ==
    ASSUME TypeOK, NEW c \in Task, Faithful(c), Step(c)
    PROVE  Good(c)
BY AskIsGood, EarlyAnswerIsGood, PreparationIsGood, SessionIsGood, AlterIsGood,
   SwitchAnswerIsGood DEF Step

LEMMA FaithfulElsewhere ==
    ASSUME NEW c \in Task, Good(c), \A d \in Task : Faithful(d)
    PROVE  \A d \in Task : Faithful(d)'
<1>1. ASSUME NEW d \in Task, d # c PROVE Faithful(d)'
  <2>1. call'[d] = call[d] /\ user' = user
    BY <1>1 DEF Good, OthersKeep
  <2>2. Carrier(d)' = Carrier(d)
    BY <2>1, SameCarrier
  <2> QED BY <2>1, <2>2 DEF Faithful, Guarding
<1> QED BY <1>1 DEF Good

\* Neither a close nor the surroundings touch a call.
LEMMA QuietIsGood ==
    ASSUME \A d \in Task : Faithful(d), user' = user, call' = call
    PROVE  (\A d \in Task : Faithful(d)') /\ UNCHANGED Promise!vars
<1>1. ASSUME NEW d \in Task PROVE Faithful(d)'
  <2>1. Carrier(d)' = Carrier(d)
    BY SameCarrier
  <2> QED BY <2>1 DEF Faithful, Guarding
<1> QED BY <1>1 DEF Promise!vars

LEMMA NextIsGood ==
    ASSUME HonestInv, [Next]_vars
    PROVE  HonestInv' /\ [Promise!Next]_(Promise!vars)
<1>1. SessionInv /\ TypeOK /\ \A d \in Task : Faithful(d)
  BY DEF HonestInv, SessionInv
<1>2. SessionInv'
  <2>1. CASE Next
    BY <1>1, <2>1, OneClient, StepTypes DEF SessionInv
  <2>2. CASE UNCHANGED vars
    BY <1>1, <2>2 DEF SessionInv, TypeOK, NoLeak, vars
  <2> QED BY <2>1, <2>2
<1>3. ASSUME NEW c \in Task, Step(c)
      PROVE  (\A d \in Task : Faithful(d)') /\ [Promise!Next]_(Promise!vars)
  <2>1. Good(c)
    BY <1>1, <1>3, StepIsGood
  <2> QED BY <1>1, <2>1, FaithfulElsewhere DEF Good
<1>4. ASSUME Close \/ AcloseBegins \/ AcloseEnds \/ Surroundings \/ UNCHANGED vars
      PROVE  (\A d \in Task : Faithful(d)') /\ [Promise!Next]_(Promise!vars)
  <2>1. user' = user /\ call' = call
    BY <1>4 DEF Close, AcloseBegins, AcloseEnds, Surroundings, vars
  <2> QED BY <1>1, <2>1, QuietIsGood
<1> QED BY <1>2, <1>3, <1>4 DEF Next, HonestInv

LEMMA HonestInit == Init => HonestInv /\ Promise!Init
<1> SUFFICES ASSUME Init PROVE HonestInv /\ Promise!Init
  OBVIOUS
<1>1. \A c \in Task : call[c] = NoCall
  BY DEF Init
<1>2. \A c \in Task : Faithful(c)
  BY <1>1 DEF Faithful, NoCall
<1>3. \A c \in Task : /\ PhaseOf(call[c]) = "idle"
                      /\ call[c].wires = {} /\ call[c].wrote = FALSE
  BY <1>1, Phases DEF NoCall
<1>4. Promise!Init
  BY <1>3 DEF Promise!Init
<1> QED BY <1>2, <1>4, SessionInit DEF HonestInv

(***************************************************************************)
(* Every call of every front end, whatever its tasks do at the same time,  *)
(* whatever becomes of the secrets and of the client, keeps the promise of *)
(* OneCall: one wire carries it, a refusal (ConfirmationDeclined,          *)
(* UnsupportedCapabilityError, ProtectedPortError, CredentialError) means  *)
(* that nothing was written, and success that the switch was asked.        *)
(***************************************************************************)
THEOREM FrontEndKeepsPromise == Spec => KeepsPromise
<1>1. HonestInv /\ [Next]_vars => HonestInv' /\ [Promise!Next]_(Promise!vars)
  BY NextIsGood
<1> QED BY HonestInit, <1>1, PTL DEF Spec, KeepsPromise, Promise!Spec

-----------------------------------------------------------------------------
(***************************************************************************)
(* The password of the web interface and of the CLI.                       *)
(***************************************************************************)
OnePassword ==
    used = {} \/ (secret["web"] \in Values /\ used = {secret["web"]})

LEMMA KeepsPassword ==
    ASSUME TypeOK, OnePassword, NEW k \in Secrets, Keep(k), used' = used
    PROVE  OnePassword'
<1>1. secret["web"] \in Values => secret'["web"] = secret["web"]
  <2>1. secret["web"] # "unset" => Value("web") = secret["web"]
    BY DEF Value
  <2> QED BY <2>1 DEF Keep, Values, TypeOK, Secrets
<1> QED BY <1>1 DEF OnePassword

LEMMA UsesPassword ==
    ASSUME TypeOK, OnePassword, Value("web") \in Values, Keep("web"),
           used' = used \cup {Value("web")}
    PROVE  OnePassword'
<1>1. secret'["web"] = Value("web")
  BY DEF Keep, Values, TypeOK, Secrets
<1>2. secret["web"] \in Values => Value("web") = secret["web"]
  BY DEF Value, Values
<1> QED BY <1>1, <1>2 DEF OnePassword

LEMMA OnePasswordStep ==
    ASSUME TypeOK, OnePassword, [Next]_vars
    PROVE  OnePassword'
<1>1. CASE UNCHANGED <<secret, used>>
  BY <1>1 DEF OnePassword
<1>2. "web" \in Secrets
  BY DEF Secrets
<1>3. ASSUME NEW c \in Task, OverHttp(c) \/ OverCli(c)
      PROVE  OnePassword'
  <2>1. CASE Value("web") \in Values /\ Keep("web") /\ used' = used \cup {Value("web")}
    BY <2>1, UsesPassword
  <2>2. CASE NoPassword(c)
    BY <1>2, <2>2, KeepsPassword DEF NoPassword
  <2> QED BY <1>1, <1>3, <2>1, <2>2 DEF OverHttp, OverCli
<1>4. ASSUME NEW c \in Task, Build(c) \/ CannotBuild(c)
      PROVE  OnePassword'
  <2> DEFINE k == Eager(Half(call[c].leg), Carrier(c))
  <2>1. used' = used
    BY <1>4 DEF Build, CannotBuild
  <2>2. SecretDue(c) => k \in Secrets
    BY DEF SecretDue, Eager, Secrets
  <2>3. CASE SecretDue(c)
    <3>1. Keep(k)
      BY <1>4, <2>3 DEF Build, CannotBuild
    <3> HIDE DEF k
    <3> QED BY <2>1, <2>2, <2>3, <3>1, KeepsPassword
  <2>4. CASE ~SecretDue(c)
    BY <1>1, <1>4, <2>1, <2>4 DEF Build, CannotBuild
  <2> QED BY <2>3, <2>4
<1>5. ASSUME NEW c \in Task, Step(c), ~(OverHttp(c) \/ OverCli(c) \/ Build(c) \/ CannotBuild(c))
      PROVE  UNCHANGED <<secret, used>>
  BY <1>5 DEF Step, Ask, HoldBack, Consent, Crash, Bar, Decline, OverPackets, Alter,
     ReplyToGuard, Reply, Break
<1>6. ASSUME Close \/ AcloseBegins \/ AcloseEnds \/ Surroundings \/ UNCHANGED vars
      PROVE  UNCHANGED <<secret, used>>
  BY <1>6 DEF Close, AcloseBegins, AcloseEnds, Surroundings, vars
<1> QED BY <1>1, <1>3, <1>4, <1>5, <1>6 DEF Next

(***************************************************************************)
(* All web and CLI sessions of a facade are opened with one password,      *)
(* whatever becomes of the secret's source between them and however often  *)
(* the client is closed and built again (_resolved_http_password).         *)
(***************************************************************************)
THEOREM OnePasswordPerFacade == Spec => []OneCredential
<1> DEFINE Both == HonestInv /\ OnePassword
<1>1. Init => Both
  BY HonestInit DEF Init, OnePassword
<1>2. Both /\ [Next]_vars => Both'
  BY NextIsGood, OnePasswordStep DEF HonestInv, SessionInv
<1>3. Both => OneCredential
  <2>1. ASSUME used = {} PROVE OneCredential
    BY <2>1, FS_EmptySet DEF OneCredential
  <2>2. ASSUME NEW v, used = {v} PROVE OneCredential
    BY <2>2, FS_Singleton DEF OneCredential
  <2> QED BY <2>1, <2>2 DEF OnePassword
<1> QED BY <1>1, <1>2, <1>3, PTL DEF Spec

-----------------------------------------------------------------------------
(***************************************************************************)
(* The guard of a deletion.                                                *)
(***************************************************************************)
HasMembers(ui) == ~NoVlans(ui) /\ ui.verified

LEMMA UisHaveMembers ==
    \A m \in Key \ {"m7300", "xs748t"} : HasMembers(HTTP_SPECS[m])
<1>1. /\ HasMembers(UI_M4300_24X) /\ HasMembers(UI_M4300_16X) /\ HasMembers(UI_GSM7252PS)
      /\ HasMembers(UI_GSM7228PS) /\ HasMembers(UI_GS110EMX) /\ HasMembers(UI_GS305EP)
      /\ HasMembers(UI_GS728TPP) /\ HasMembers(UI_GS105PE)
  BY DEF HasMembers, NoVlans, Ui, FastpathPages, UI_M4300_24X, UI_M4300_16X, UI_GSM7252PS,
         UI_GSM7228PS, UI_GS110EMX, UI_GS305EP, UI_GS728TPP, UI_GS105PE
<1> HIDE DEF HasMembers
<1> QED BY <1>1 DEF HTTP_SPECS, Key

LEMMA OnlyWithAUi ==
    /\ "http" \notin MODELS["m7300"].backends
    /\ "http" \notin MODELS["xs748t"].backends
BY DEF MODELS, Key, M7300, XS748T, Managed

LEMMA CliModels ==
    ASSUME NEW m \in Key, NEW b \in CliBackends, b \in MODELS[m].backends
    PROVE  CLI_SPECS[m].readsVerified /\ CLI_SPECS[m].writesVerified
<1>1. m \in {"m4300-24x", "m4300-16x", "gsm7252ps", "gsm7228ps"}
  <2>1. ASSUME NEW x \in {M7300, XS748T, GS728TPP, GS110EMX, GS305EP, GS105PE}
        PROVE  b \notin x.backends
    BY <2>1 DEF M7300, XS748T, GS728TPP, GS110EMX, GS305EP, GS105PE, Managed, Plus, CliBackends
  <2> QED BY <2>1 DEF MODELS, Key
<1> QED BY <1>1 DEF CLI_SPECS

\* A backend that cannot list the VLANs cannot delete one either.
LEMMA NoListNoDeletion ==
    ASSUME NEW f, NEW m \in Key, NEW b \in Backend,
           \/ Barred(f, m, b, "get_vlans") = "unsupported"
           \/ Declined(f, m, b, "get_vlans", FALSE) = "unsupported"
    PROVE  \/ Barred(f, m, b, "delete_vlan") # "go"
           \/ Declined(f, m, b, "delete_vlan", FALSE) # "go"
<1>1. CASE b \notin MODELS[m].backends
  BY <1>1 DEF Barred, NotBuilt
<1>2. CASE b \in MODELS[m].backends
  <2>1. b = "http" => HasMembers(HTTP_SPECS[m])
    BY <1>2, UisHaveMembers, OnlyWithAUi
  <2>2. b \in CliBackends => CLI_SPECS[m].readsVerified
    BY <1>2, CliModels
  <2>3. Barred(f, m, b, "get_vlans") = "unsupported"
          => Barred(f, m, b, "delete_vlan") # "go"
    <3>1. ASSUME Barred(f, m, b, "get_vlans") = "unsupported"
          PROVE  b \in CliBackends /\ f = "async"
      <4>1. NotBuilt(f, m, b, "get_vlans")
        BY <3>1 DEF Barred
      <4>2. "get_vlans" \notin WriteOps
        BY DEF WriteOps
      <4>3. \/ b = "http" /\ ~HTTP_SPECS[m].verified
            \/ b \in CliBackends /\ f = "async"
            \/ b \in CliBackends /\ ~CLI_SPECS[m].readsVerified
        BY <1>2, <4>1, <4>2, Zenon DEF NotBuilt
      <4> QED BY <2>1, <2>2, <4>3, Zenon DEF HasMembers
    <3>2. ASSUME b \in CliBackends, f = "async"
          PROVE  Barred(f, m, b, "delete_vlan") # "go"
      <4>1. NotBuilt(f, m, b, "delete_vlan")
        BY <3>2 DEF NotBuilt
      <4> QED BY <4>1 DEF Barred
    <3> QED BY <3>1, <3>2
  <2>4. ~Refuses(f, m, b, "get_vlans")
    BY <2>1 DEF Refuses, TwinLacks, SnmpRefuses, NeverOverSnmp, VendorOnly, PoeOps,
                NsdpRefuses, HttpReaderRefuses, HasMembers, WriteOps, CliRefuses
  <2>5. Declined(f, m, b, "get_vlans", FALSE) # "unsupported"
    BY <2>4 DEF Declined, ForceFirst, NeedsForce
  <2> QED BY <2>3, <2>5
<1> QED BY <1>1, <1>2

\* A deletion without force that has not read the members is not asked for.
Unread(c) ==
    call[c].op = "delete_vlan" /\ ~call[c].force /\ ~call[c].clear /\ ~Guarding(c)

Checked(c) ==
    Unread(c) => \/ call[c].step \in {"idle", "answered"}
                 \/ call[c].step = "start" /\ Bars(c) # "go"
                 \/ /\ call[c].step \in {"start", "ask"}
                    /\ Declined(Facade, user.model, Carrier(c), "delete_vlan", FALSE) # "go"

LEMMA SameChecks ==
    ASSUME NEW c \in Task, Checked(c), user' = user,
           call'[c].op = call[c].op, call'[c].name = call[c].name,
           call'[c].force = call[c].force, call'[c].clear = call[c].clear,
           call'[c].leg = call[c].leg,
           \/ call'[c].step = call[c].step
           \/ call'[c].step = "answered"
           \/ call[c].step = "start" /\ call'[c].step = "ask" /\ Bars(c) = "go"
           \/ call[c].step = "confirm"
    PROVE  Checked(c)'
<1>1. Carrier(c)' = Carrier(c) /\ Facade' = Facade
  BY SameCarrier DEF Facade
<1>2. Bars(c)' = Bars(c) /\ Unread(c)' = Unread(c)
  BY <1>1 DEF Bars, Unread, Guarding
<1> QED BY <1>1, <1>2 DEF Checked

LEMMA RefusedIsChecked ==
    ASSUME TypeOK, NEW c \in Task, NEW r \in Refusal, NEW spent \in BOOLEAN,
           Faithful(c), Checked(c), user' = user, Refused(c, r, spent),
           r = "unsupported" =>
             \/ Bars(c) = "unsupported"
             \/ Declined(Facade, user.model, Carrier(c), call[c].leg, call[c].force)
                  = "unsupported"
    PROVE  Checked(c)'
<1>1. call[c] \in Call /\ user.model \in Key /\ Carrier(c) \in Backend
  BY CarrierTyped, FrontEndAssumption DEF TypeOK
<1>2. CASE Guarding(c) /\ r = "unsupported"
  <2>1. call'[c] = [call[c] EXCEPT !.leg = call[c].op, !.step = "start"]
    BY <1>2 DEF Refused, TypeOK
  <2>2. /\ call'[c].step = "start" /\ call'[c].leg = call[c].op
        /\ call'[c].op = call[c].op /\ call'[c].name = call[c].name
        /\ call'[c].force = call[c].force
    BY <1>1, <2>1 DEF Call
  <2>3. Carrier(c)' = Carrier(c) /\ Facade' = Facade
    BY <2>2, SameCarrier DEF Facade
  <2>4. ASSUME call[c].op = "delete_vlan", ~call[c].force
        PROVE  \/ Barred(Facade, user.model, Carrier(c), "delete_vlan") # "go"
               \/ Declined(Facade, user.model, Carrier(c), "delete_vlan", FALSE) # "go"
    <3>1. call[c].leg = "get_vlans" /\ call[c].force = FALSE
      BY <1>1, <1>2, <2>4 DEF Guarding, Faithful, Call
    <3> QED BY <1>1, <1>2, <3>1, NoListNoDeletion DEF Bars
  <2> QED BY <2>2, <2>3, <2>4 DEF Checked, Unread, Bars
<1>3. CASE ~(Guarding(c) /\ r = "unsupported")
  <2> DEFINE x == call[c].spent \/ spent
  <2>1. call'[c] = [call[c] EXCEPT !.step = "answered", !.result = r, !.spent = x]
    BY <1>3 DEF Refused, TypeOK
  <2> HIDE DEF x
  <2>2. call'[c].step = "answered"
    BY <1>1, <2>1 DEF Call
  <2> QED BY <2>2 DEF Checked
<1> QED BY <1>2, <1>3

LEMMA AnswerIsChecked ==
    ASSUME TypeOK, NEW c \in Task, NEW r, Answer(c, r)
    PROVE  Checked(c)'
<1>1. call[c] \in Call
  BY DEF TypeOK
<1>2. call'[c].step = "answered"
  BY <1>1 DEF Answer, TypeOK, Call
<1> QED BY <1>2 DEF Checked

LEMMA AskIsChecked ==
    ASSUME TypeOK, NEW c \in Task, Ask(c)
    PROVE  Checked(c)'
<1>1. PICK o \in Op, n \in Names, f \in BOOLEAN :
        call' = [call EXCEPT ![c] =
                   [NoCall EXCEPT !.op = o, !.name = n, !.force = f, !.leg = FirstLeg(o, f),
                                  !.step = IF user.front = "ngsw" /\ o \in WriteOps
                                           THEN "confirm" ELSE "start"]]
  BY DEF Ask
<1> DEFINE s == IF user.front = "ngsw" /\ o \in WriteOps THEN "confirm" ELSE "start"
           l == FirstLeg(o, f)
<1>2. call'[c] = [NoCall EXCEPT !.op = o, !.name = n, !.force = f, !.leg = l, !.step = s]
  BY <1>1 DEF TypeOK
<1>3. o = "delete_vlan" /\ ~f => l = "get_vlans"
  BY DEF FirstLeg
<1> HIDE DEF s, l
<1>4. call'[c].op = o /\ call'[c].leg = l /\ call'[c].force = f
  BY <1>2 DEF NoCall
<1> QED BY <1>3, <1>4 DEF Checked, Unread, Guarding

LEMMA RequestIsChecked ==
    ASSUME TypeOK, NEW c \in Task, NEW spent \in BOOLEAN, Checked(c), user' = user,
           Goes(c), Request(c, spent)
    PROVE  Checked(c)'
<1> DEFINE w == call[c].wires \cup {Wire(user.model, Carrier(c))}
           x == call[c].spent \/ spent
<1>1. call[c] \in Call
  BY DEF TypeOK
<1>2. call'[c] = [call[c] EXCEPT !.step = "sent", !.wires = w, !.spent = x,
                                 !.client = http.epoch]
  BY DEF Request, TypeOK
<1> HIDE DEF w, x
<1>3. /\ call'[c].op = call[c].op /\ call'[c].force = call[c].force
      /\ call'[c].clear = call[c].clear /\ call'[c].leg = call[c].leg
  BY <1>1, <1>2 DEF Call
<1>4. ~Unread(c)
  <2>1. SUFFICES ASSUME Unread(c) PROVE FALSE
    OBVIOUS
  <2>2. call[c].leg = "delete_vlan" /\ call[c].force = FALSE
    BY <1>1, <2>1 DEF Unread, Guarding, Call
  <2> QED BY <2>1, <2>2 DEF Checked, Goes
<1> QED BY <1>3, <1>4 DEF Checked, Unread, Guarding

LEMMA StepIsChecked ==
    ASSUME TypeOK, NEW c \in Task, Faithful(c), Checked(c), Step(c)
    PROVE  Checked(c)'
<1>1. call[c] \in Call
  BY DEF TypeOK
<1>2. CASE Ask(c)
  BY <1>2, AskIsChecked
<1>3. ASSUME NEW r, Answer(c, r)
      PROVE  Checked(c)'
  BY <1>3, AnswerIsChecked
<1>4. CASE HoldBack(c) \/ Crash(c) \/ Reply(c) \/ Break(c)
  BY <1>3, <1>4 DEF HoldBack, Crash, Reply, Break
<1>5. CASE Consent(c)
  <2>1. /\ call[c].step = "confirm" /\ user' = user
        /\ call'[c].op = call[c].op /\ call'[c].name = call[c].name
        /\ call'[c].force = call[c].force /\ call'[c].clear = call[c].clear
        /\ call'[c].leg = call[c].leg
    BY <1>1, <1>5 DEF Consent, TypeOK, Call
  <2> QED BY <2>1, SameChecks
<1>6. CASE Bar(c)
  <2>1. Bars(c) \in Refusal /\ user' = user
    BY <1>6, RefusalsTyped DEF Bar, Bars, Refusal
  <2> QED BY <1>6, <2>1, RefusedIsChecked DEF Bar
<1>7. CASE CannotBuild(c)
  <2>1. "credential" \in Refusal /\ user' = user
    BY <1>7 DEF Refusal, CannotBuild
  <2> QED BY <1>7, <2>1, RefusedIsChecked DEF CannotBuild
<1>8. CASE Decline(c)
  <2> DEFINE r == Declined(Facade, user.model, Carrier(c), call[c].leg, call[c].force)
  <2>1. r \in Refusal /\ user' = user /\ Refused(c, r, FALSE)
    BY <1>8, RefusalsTyped DEF Decline, Refusal
  <2> QED BY <2>1, RefusedIsChecked
<1>9. CASE Build(c)
  <2> DEFINE x == call[c].spent \/ SecretDue(c)
  <2>1. call'[c] = [call[c] EXCEPT !.step = "ask", !.spent = x]
    BY <1>9 DEF Build, TypeOK
  <2> HIDE DEF x
  <2>2. /\ call'[c].step = "ask"
        /\ call'[c].op = call[c].op /\ call'[c].name = call[c].name
        /\ call'[c].force = call[c].force /\ call'[c].clear = call[c].clear
        /\ call'[c].leg = call[c].leg
    BY <1>1, <2>1 DEF Call
  <2>3. call[c].step = "start" /\ Bars(c) = "go" /\ user' = user
    BY <1>9 DEF Build
  <2> QED BY <2>2, <2>3, SameChecks
<1>10. CASE OverPackets(c) \/ OverHttp(c) \/ OverCli(c)
  <2>1. Goes(c) /\ user' = user
    BY <1>10 DEF OverPackets, OverHttp, OverCli
  <2>2. CASE Request(c, TRUE) \/ Request(c, FALSE)
    BY <2>1, <2>2, RequestIsChecked
  <2>3. CASE Answer(c, "closed")
    BY <1>3, <2>3
  <2>4. CASE NoPassword(c)
    <3>1. "credential" \in Refusal
      BY DEF Refusal
    <3> QED BY <2>1, <2>4, <3>1, RefusedIsChecked DEF NoPassword
  <2> QED BY <1>10, <2>2, <2>3, <2>4 DEF OverPackets, OverHttp, OverCli
<1>11. CASE Alter(c)
  <2>1. call'[c] = [call[c] EXCEPT !.wrote = TRUE]
    BY <1>11 DEF Alter, TypeOK
  <2>2. /\ call'[c].step = call[c].step /\ user' = user
        /\ call'[c].op = call[c].op /\ call'[c].name = call[c].name
        /\ call'[c].force = call[c].force /\ call'[c].clear = call[c].clear
        /\ call'[c].leg = call[c].leg
    BY <1>1, <1>11, <2>1 DEF Call, Alter
  <2> QED BY <2>2, SameChecks
<1>12. CASE ReplyToGuard(c)
  <2>1. CASE joined
    BY <1>3, <1>12, <2>1 DEF ReplyToGuard
  <2>2. CASE ~joined
    <3>1. call'[c] = [call[c] EXCEPT !.leg = call[c].op, !.step = "start", !.clear = TRUE]
      BY <1>12, <2>2 DEF ReplyToGuard, TypeOK
    <3>2. call'[c].clear = TRUE
      BY <1>1, <3>1 DEF Call
    <3> QED BY <3>2 DEF Checked, Unread
  <2> QED BY <2>1, <2>2
<1> QED BY <1>2, <1>4, <1>5, <1>6, <1>7, <1>8, <1>9, <1>10, <1>11, <1>12 DEF Step

GuardInv == HonestInv /\ \A c \in Task : Checked(c)

LEMMA GuardStep ==
    ASSUME GuardInv, [Next]_vars
    PROVE  GuardInv'
<1>1. HonestInv /\ TypeOK /\ \A d \in Task : Faithful(d) /\ Checked(d)
  BY DEF GuardInv, HonestInv, SessionInv
<1>2. HonestInv'
  BY <1>1, NextIsGood
<1>3. ASSUME NEW d \in Task, call'[d] = call[d], user' = user
      PROVE  Checked(d)'
  BY <1>1, <1>3, SameChecks
<1>4. ASSUME NEW c \in Task, Step(c), NEW d \in Task
      PROVE  Checked(d)'
  <2>1. Good(c) /\ Checked(c)'
    BY <1>1, <1>4, StepIsGood, StepIsChecked
  <2> QED BY <1>3, <2>1 DEF Good, OthersKeep
<1>5. ASSUME Close \/ AcloseBegins \/ AcloseEnds \/ Surroundings \/ UNCHANGED vars,
             NEW d \in Task
      PROVE  Checked(d)'
  <2>1. user' = user /\ call' = call
    BY <1>5 DEF Close, AcloseBegins, AcloseEnds, Surroundings, vars
  <2> QED BY <1>3, <2>1
<1> QED BY <1>2, <1>4, <1>5 DEF Next, GuardInv

(***************************************************************************)
(* On no model and over no backend does a deletion without force reach the *)
(* switch unless the same call has read the members of the VLAN: where the *)
(* read is refused and _guard_vlan_delete_members goes on without it, the  *)
(* backend refuses the deletion as well.                                   *)
(***************************************************************************)
THEOREM DeletionIsGuarded == Spec => GuardedDelete
<1>1. Init => GuardInv
  <2>1. ASSUME Init PROVE \A c \in Task : Checked(c)
    BY <2>1 DEF Init, Checked, NoCall
  <2> QED BY <2>1, HonestInit DEF GuardInv
<1>2. GuardInv /\ [Next]_vars => GuardInv'
  BY GuardStep
<1>3. GuardInv /\ [Next]_vars
        => [\A c \in Task :
              /\ ~call[c].wrote /\ call'[c].wrote
              /\ call[c].op = "delete_vlan" /\ ~call[c].force
              => call[c].clear]_vars
  <2> SUFFICES ASSUME GuardInv, Next, NEW c \in Task, ~call[c].wrote, call'[c].wrote,
                      call[c].op = "delete_vlan", ~call[c].force
               PROVE  call[c].clear
    OBVIOUS
  <2>1. TypeOK /\ \A d \in Task : Faithful(d) /\ Checked(d)
    BY DEF GuardInv, HonestInv, SessionInv
  <2>2. ~(Close \/ AcloseBegins \/ AcloseEnds \/ Surroundings)
    BY DEF Close, AcloseBegins, AcloseEnds, Surroundings
  <2>3. PICK d \in Task : Step(d)
    BY <2>2 DEF Next
  <2>4. Good(d)
    BY <2>1, <2>3, StepIsGood
  <2>5. d = c
    BY <2>4 DEF Good, OthersKeep
  <2>6. Alter(c)
    BY <2>4, <2>5 DEF Good
  <2>7. ~Guarding(c)
    BY <2>1, <2>6 DEF Alter, Faithful, Guarding, WriteOps
  <2> QED BY <2>1, <2>6, <2>7 DEF Checked, Unread, Alter
<1> QED BY <1>1, <1>2, <1>3, PTL DEF Spec, GuardedDelete

-----------------------------------------------------------------------------
(***************************************************************************)
(* What a call is told.  The reader or writer serves what is asked of it   *)
(* at present if it neither bars nor refuses it.                           *)
(***************************************************************************)
NotServed == {"unsupported", "not_implemented"}

Willing(c) == ~Refuses(Facade, user.model, Carrier(c), call[c].leg)
Served(c)  == Bars(c) = "go" /\ Willing(c)

\* A call of the web or the CLI without a guard before it.
Plain(c) == /\ Carrier(c) \in {"http"} \cup CliBackends
            /\ call[c].op = "delete_vlan" => call[c].force

Untouched(c) == call[c].wires = {} /\ ~call[c].spent

TrueAnswer(c) ==
    /\ call[c].result \in NotServed =>
         ~Guarding(c) /\ ~Served(c) /\ (Plain(c) => Untouched(c))
    /\ call[c].result \in {"done", "verify"} => ~Guarding(c) /\ Served(c)
    /\ call[c].result = "credential" /\ Plain(c) => Willing(c)

Told(c) ==
    /\ Guarding(c) => call[c].op = "delete_vlan" /\ ~call[c].force
    /\ call[c].step = "ask" => Bars(c) = "go"
    /\ call[c].step = "sent" => Served(c)
    /\ call[c].step = "answered" => TrueAnswer(c)
    /\ call[c].step \in {"confirm", "start", "ask"} /\ Plain(c) => Untouched(c)

ToldInv == HonestInv /\ \A c \in Task : Told(c)

LEMMA SameVerdicts ==
    ASSUME NEW c \in Task, user' = user,
           call'[c].op = call[c].op, call'[c].name = call[c].name,
           call'[c].force = call[c].force, call'[c].leg = call[c].leg
    PROVE  /\ Bars(c)' = Bars(c) /\ Willing(c)' = Willing(c) /\ Served(c)' = Served(c)
           /\ Guarding(c)' = Guarding(c) /\ Plain(c)' = Plain(c)
<1>1. Carrier(c)' = Carrier(c) /\ Facade' = Facade
  BY SameCarrier DEF Facade
<1>2. Bars(c)' = Bars(c) /\ Willing(c)' = Willing(c)
  BY <1>1 DEF Bars, Willing
<1>3. Guarding(c)' = Guarding(c) /\ Plain(c)' = Plain(c)
  BY <1>1 DEF Guarding, Plain
<1> QED BY <1>2, <1>3 DEF Served

\* The call has answered with r, and nothing else about it has changed but
\* that it may have spent a secret.
Ends(c, r) ==
    /\ call'[c].step = "answered" /\ call'[c].result = r
    /\ call'[c].op = call[c].op /\ call'[c].name = call[c].name
    /\ call'[c].force = call[c].force /\ call'[c].leg = call[c].leg
    /\ call'[c].wires = call[c].wires

LEMMA AnswerEnds ==
    ASSUME TypeOK, NEW c \in Task, NEW r, Answer(c, r)
    PROVE  Ends(c, r) /\ call'[c].spent = call[c].spent
<1>1. call[c] \in Call
  BY DEF TypeOK
<1> QED BY <1>1 DEF Answer, TypeOK, Call, Ends

LEMMA RefusedEnds ==
    ASSUME TypeOK, NEW c \in Task, NEW r, NEW spent \in BOOLEAN,
           ~(Guarding(c) /\ r = "unsupported"), Refused(c, r, spent)
    PROVE  Ends(c, r) /\ call'[c].spent = (call[c].spent \/ spent)
<1> DEFINE x == call[c].spent \/ spent
<1>1. call[c] \in Call
  BY DEF TypeOK
<1>2. call'[c] = [call[c] EXCEPT !.step = "answered", !.result = r, !.spent = x]
  BY DEF Refused, TypeOK
<1> HIDE DEF x
<1>3. Ends(c, r) /\ call'[c].spent = x
  BY <1>1, <1>2 DEF Call, Ends
<1> QED BY <1>3 DEF x

LEMMA EndIsTold ==
    ASSUME NEW c \in Task, Told(c), user' = user, NEW r, Ends(c, r),
           r \in NotServed => /\ ~Guarding(c) /\ ~Served(c)
                              /\ Plain(c) => call'[c].wires = {} /\ ~call'[c].spent,
           r \in {"done", "verify"} => ~Guarding(c) /\ Served(c),
           r = "credential" /\ Plain(c) => Willing(c)
    PROVE  Told(c)'
<1>1. /\ Willing(c)' = Willing(c) /\ Served(c)' = Served(c)
      /\ Guarding(c)' = Guarding(c) /\ Plain(c)' = Plain(c)
  BY SameVerdicts DEF Ends
<1>2. TrueAnswer(c)'
  BY <1>1 DEF Ends, TrueAnswer, Untouched
<1> QED BY <1>1, <1>2 DEF Ends, Told

\* The guard's read is over, or was refused, and the deletion goes on.
LEMMA GuardOverIsTold ==
    ASSUME TypeOK, NEW c \in Task, Told(c), Guarding(c), user' = user,
           call'[c].leg = call[c].op, call'[c].step = "start",
           call'[c].op = call[c].op, call'[c].name = call[c].name,
           call'[c].force = call[c].force
    PROVE  Told(c)'
<1>1. ~Plain(c) /\ Carrier(c)' = Carrier(c)
  BY SameCarrier DEF Told, Plain
<1>2. ~Plain(c)' /\ ~Guarding(c)'
  BY <1>1 DEF Plain, Guarding, Told
<1> QED BY <1>2 DEF Told

LEMMA RefusalIsTold ==
    ASSUME TypeOK, NEW c \in Task, Faithful(c), Told(c), user' = user,
           NEW r \in Refusal, NEW spent \in BOOLEAN, Refused(c, r, spent),
           call[c].step \in {"start", "ask"},
           r \in NotServed => ~Served(c) /\ ~spent,
           r = "not_implemented" => ~Guarding(c),
           r = "credential" /\ Plain(c) => Willing(c)
    PROVE  Told(c)'
<1>1. call[c] \in Call
  BY DEF TypeOK
<1>2. CASE Guarding(c) /\ r = "unsupported"
  <2>1. call'[c] = [call[c] EXCEPT !.leg = call[c].op, !.step = "start"]
    BY <1>2 DEF Refused, TypeOK
  <2>2. /\ call'[c].step = "start" /\ call'[c].leg = call[c].op
        /\ call'[c].op = call[c].op /\ call'[c].name = call[c].name
        /\ call'[c].force = call[c].force
    BY <1>1, <2>1 DEF Call
  <2> QED BY <1>2, <2>2, GuardOverIsTold
<1>3. CASE ~(Guarding(c) /\ r = "unsupported")
  <2>1. Ends(c, r) /\ call'[c].spent = (call[c].spent \/ spent)
    BY <1>3, RefusedEnds
  <2>2. r \in {"done", "verify"} => FALSE
    BY DEF Refusal
  <2>3. Plain(c) => Untouched(c)
    BY DEF Told
  <2>4. r \in NotServed => /\ ~Guarding(c) /\ ~Served(c)
                           /\ Plain(c) => call'[c].wires = {} /\ ~call'[c].spent
    BY <1>3, <2>1, <2>3 DEF NotServed, Untouched, Ends
  <2> QED BY <2>1, <2>2, <2>4, EndIsTold
<1> QED BY <1>2, <1>3

LEMMA RequestIsTold ==
    ASSUME TypeOK, NEW c \in Task, Told(c), user' = user, NEW spent \in BOOLEAN,
           Goes(c), Request(c, spent)
    PROVE  Told(c)'
<1> DEFINE w == call[c].wires \cup {Wire(user.model, Carrier(c))}
           x == call[c].spent \/ spent
<1>1. call[c] \in Call
  BY DEF TypeOK
<1>2. call'[c] = [call[c] EXCEPT !.step = "sent", !.wires = w, !.spent = x,
                                 !.client = http.epoch]
  BY DEF Request, TypeOK
<1> HIDE DEF w, x
<1>3. /\ call'[c].step = "sent"
      /\ call'[c].op = call[c].op /\ call'[c].name = call[c].name
      /\ call'[c].force = call[c].force /\ call'[c].leg = call[c].leg
  BY <1>1, <1>2 DEF Call
<1>4. Served(c)
  BY DEF Goes, Told, Declined, Served, Willing
<1> QED BY <1>3, <1>4, SameVerdicts DEF Told

LEMMA AskIsTold ==
    ASSUME TypeOK, NEW c \in Task, Ask(c)
    PROVE  Told(c)'
<1>1. PICK o \in Op, n \in Names, f \in BOOLEAN :
        call' = [call EXCEPT ![c] =
                   [NoCall EXCEPT !.op = o, !.name = n, !.force = f, !.leg = FirstLeg(o, f),
                                  !.step = IF user.front = "ngsw" /\ o \in WriteOps
                                           THEN "confirm" ELSE "start"]]
  BY DEF Ask
<1> DEFINE s == IF user.front = "ngsw" /\ o \in WriteOps THEN "confirm" ELSE "start"
           l == FirstLeg(o, f)
<1>2. call'[c] = [NoCall EXCEPT !.op = o, !.name = n, !.force = f, !.leg = l, !.step = s]
  BY <1>1 DEF TypeOK
<1>3. /\ l # o => o = "delete_vlan" /\ ~f
      /\ s \in {"confirm", "start"}
  BY DEF FirstLeg
<1> HIDE DEF s, l
<1>4. /\ call'[c].op = o /\ call'[c].leg = l /\ call'[c].force = f /\ call'[c].step = s
      /\ call'[c].wires = {} /\ call'[c].spent = FALSE
  BY <1>2 DEF NoCall
<1> QED BY <1>3, <1>4 DEF Told, Guarding, Untouched

LEMMA EarlyAnswerIsTold ==
    ASSUME TypeOK, NEW c \in Task, Faithful(c), Told(c),
           HoldBack(c) \/ Crash(c) \/ Bar(c) \/ CannotBuild(c) \/ Decline(c)
    PROVE  Told(c)'
<1>1. CASE HoldBack(c)
  <2>1. PICK r \in {"dry", "declined"} : Answer(c, r)
    BY <1>1 DEF HoldBack
  <2>2. Ends(c, r) /\ user' = user
    BY <1>1, <2>1, AnswerEnds DEF HoldBack
  <2> QED BY <2>1, <2>2, EndIsTold DEF NotServed
<1>2. CASE Crash(c)
  <2>1. Ends(c, "crashed") /\ user' = user
    BY <1>2, AnswerEnds DEF Crash
  <2> QED BY <2>1, EndIsTold DEF NotServed
<1>3. CASE Bar(c)
  <2>1. Bars(c) \in NotServed /\ Bars(c) \in Refusal /\ ~Served(c)
    BY <1>3, RefusalsTyped DEF Bar, Bars, Refusal, NotServed, Served
  <2>2. Bars(c) = "not_implemented" => ~Guarding(c)
    <3>1. "get_vlans" # "upload_certificate"
      OBVIOUS
    <3>2. Bars(c) = "not_implemented" => call[c].leg = "upload_certificate"
      BY DEF Bars, Barred
    <3> QED BY <3>1, <3>2 DEF Faithful, Guarding
  <2>3. Bars(c) # "credential"
    BY <2>1 DEF NotServed
  <2>4. user' = user /\ call[c].step = "start" /\ Refused(c, Bars(c), FALSE)
    BY <1>3 DEF Bar
  <2> QED BY <2>1, <2>2, <2>3, <2>4, RefusalIsTold
<1>4. CASE CannotBuild(c)
  <2>1. ~Plain(c)
    <3>1. Carrier(c) \in {"snmp", "nsdp"}
      BY <1>4 DEF CannotBuild, SecretDue, Eager
    <3> QED BY <3>1 DEF Plain, CliBackends
  <2>2. "credential" \in Refusal /\ "credential" \notin NotServed
    BY DEF Refusal, NotServed
  <2>3. user' = user /\ call[c].step = "start" /\ Refused(c, "credential", TRUE)
    BY <1>4 DEF CannotBuild
  <2> QED BY <2>1, <2>2, <2>3, RefusalIsTold
<1>5. CASE Decline(c)
  <2> DEFINE r == Declined(Facade, user.model, Carrier(c), call[c].leg, call[c].force)
  <2>1. r \in {"unsupported", "protected"} /\ Refused(c, r, FALSE)
    BY <1>5, RefusalsTyped DEF Decline
  <2>2. r = "unsupported" => ~Willing(c)
    BY DEF Declined, Willing
  <2>3. user' = user /\ call[c].step = "ask"
    BY <1>5 DEF Decline
  <2> HIDE DEF r
  <2>4. /\ r \in Refusal /\ r # "credential" /\ r # "not_implemented"
        /\ r \in NotServed => ~Served(c)
    BY <2>1, <2>2 DEF Refusal, NotServed, Served
  <2> QED BY <2>1, <2>3, <2>4, RefusalIsTold
<1> QED BY <1>1, <1>2, <1>3, <1>4, <1>5

LEMMA PreparationIsTold ==
    ASSUME TypeOK, NEW c \in Task, Told(c), Consent(c) \/ Build(c)
    PROVE  Told(c)'
<1>1. call[c] \in Call
  BY DEF TypeOK
<1>2. CASE Consent(c)
  <2>1. /\ call'[c].step = "start" /\ call[c].step = "confirm" /\ user' = user
        /\ call'[c].op = call[c].op /\ call'[c].name = call[c].name
        /\ call'[c].force = call[c].force /\ call'[c].leg = call[c].leg
        /\ call'[c].wires = call[c].wires /\ call'[c].spent = call[c].spent
    BY <1>1, <1>2 DEF Consent, TypeOK, Call
  <2> QED BY <2>1, SameVerdicts DEF Told, Untouched
<1>3. CASE Build(c)
  <2> DEFINE x == call[c].spent \/ SecretDue(c)
  <2>1. call'[c] = [call[c] EXCEPT !.step = "ask", !.spent = x]
    BY <1>3 DEF Build, TypeOK
  <2>2. Plain(c) => ~SecretDue(c)
    BY DEF Plain, SecretDue, Eager, CliBackends
  <2>3. x \in BOOLEAN /\ (~SecretDue(c) => x = call[c].spent)
    BY <1>1 DEF Call
  <2> HIDE DEF x
  <2>4. /\ call'[c].step = "ask" /\ call'[c].spent = x
        /\ call'[c].op = call[c].op /\ call'[c].name = call[c].name
        /\ call'[c].force = call[c].force /\ call'[c].leg = call[c].leg
        /\ call'[c].wires = call[c].wires
    BY <1>1, <2>1 DEF Call
  <2>5. call[c].step = "start" /\ Bars(c) = "go" /\ user' = user
    BY <1>3 DEF Build
  <2> QED BY <2>2, <2>3, <2>4, <2>5, SameVerdicts DEF Told, Untouched
<1> QED BY <1>2, <1>3

LEMMA SessionIsTold ==
    ASSUME TypeOK, NEW c \in Task, Faithful(c), Told(c),
           OverPackets(c) \/ OverHttp(c) \/ OverCli(c)
    PROVE  Told(c)'
<1>1. Goes(c) /\ call[c].step = "ask" /\ user' = user
  BY DEF OverPackets, OverHttp, OverCli, Goes
<1>2. CASE Request(c, TRUE) \/ Request(c, FALSE)
  BY <1>1, <1>2, RequestIsTold
<1>3. CASE Answer(c, "closed")
  BY <1>1, <1>3, AnswerEnds, EndIsTold DEF NotServed
<1>4. CASE NoPassword(c)
  <2>1. Willing(c)
    BY <1>1 DEF Goes, Declined, Willing
  <2>2. "credential" \in Refusal /\ "credential" \notin NotServed
    BY DEF Refusal, NotServed
  <2> QED BY <1>1, <1>4, <2>1, <2>2, RefusalIsTold DEF NoPassword
<1> QED BY <1>2, <1>3, <1>4 DEF OverPackets, OverHttp, OverCli

LEMMA SwitchAnswerIsTold ==
    ASSUME TypeOK, NEW c \in Task, Told(c), ReplyToGuard(c) \/ Reply(c) \/ Break(c)
    PROVE  Told(c)'
<1>1. call[c] \in Call /\ call[c].step = "sent" /\ user' = user /\ Served(c)
  BY DEF TypeOK, ReplyToGuard, Reply, Break, Told
<1>2. ASSUME NEW r \in {"protected", "no_hash", "closed", "failed"}, Answer(c, r)
      PROVE  Told(c)'
  BY <1>1, <1>2, AnswerEnds, EndIsTold DEF NotServed
<1>3. CASE ReplyToGuard(c) /\ ~joined
  <2>1. call'[c] = [call[c] EXCEPT !.leg = call[c].op, !.step = "start", !.clear = TRUE]
    BY <1>3 DEF ReplyToGuard, TypeOK
  <2>2. /\ call'[c].step = "start" /\ call'[c].leg = call[c].op
        /\ call'[c].op = call[c].op /\ call'[c].name = call[c].name
        /\ call'[c].force = call[c].force
    BY <1>1, <2>1 DEF Call
  <2> QED BY <1>1, <1>3, <2>2, GuardOverIsTold DEF ReplyToGuard
<1>4. ASSUME NEW r \in {"done", "verify"}, Answer(c, r), ~Guarding(c)
      PROVE  Told(c)'
  <2>1. r # "credential" /\ r \notin NotServed
    BY DEF NotServed
  <2>2. Ends(c, r)
    BY <1>4, AnswerEnds
  <2> QED BY <1>1, <1>4, <2>1, <2>2, EndIsTold
<1>5. CASE Reply(c)
  <2>1. ~Guarding(c)
    BY <1>5 DEF Reply
  <2>2. \/ \E r \in {"protected", "no_hash"} : Answer(c, r)
        \/ \E r \in {"done", "verify"} : Answer(c, r)
    BY <1>5 DEF Reply
  <2> QED BY <1>2, <1>4, <2>1, <2>2
<1> QED BY <1>2, <1>3, <1>5 DEF ReplyToGuard, Break

LEMMA StepIsTold ==
    ASSUME TypeOK, NEW c \in Task, Faithful(c), Told(c), Step(c)
    PROVE  Told(c)'
<1>1. CASE Alter(c)
  <2>1. call[c] \in Call /\ call'[c] = [call[c] EXCEPT !.wrote = TRUE]
    BY <1>1 DEF Alter, TypeOK
  <2>2. /\ call'[c].step = "sent" /\ call[c].step = "sent" /\ user' = user
        /\ call'[c].op = call[c].op /\ call'[c].name = call[c].name
        /\ call'[c].force = call[c].force /\ call'[c].leg = call[c].leg
    BY <1>1, <2>1 DEF Call, Alter
  <2> QED BY <2>2, SameVerdicts DEF Told
<1> QED BY <1>1, AskIsTold, EarlyAnswerIsTold, PreparationIsTold, SessionIsTold,
           SwitchAnswerIsTold DEF Step

LEMMA ToldStep ==
    ASSUME ToldInv, [Next]_vars
    PROVE  ToldInv'
<1>1. HonestInv /\ TypeOK /\ \A d \in Task : Faithful(d) /\ Told(d)
  BY DEF ToldInv, HonestInv, SessionInv
<1>2. HonestInv'
  BY <1>1, NextIsGood
<1>3. ASSUME NEW d \in Task, call'[d] = call[d], user' = user
      PROVE  Told(d)'
  BY <1>1, <1>3, SameVerdicts DEF Told, TrueAnswer, Untouched
<1>4. ASSUME NEW c \in Task, Step(c), NEW d \in Task
      PROVE  Told(d)'
  <2>1. Good(c) /\ Told(c)'
    BY <1>1, <1>4, StepIsGood, StepIsTold
  <2> QED BY <1>3, <2>1 DEF Good, OthersKeep
<1>5. ASSUME Close \/ AcloseBegins \/ AcloseEnds \/ Surroundings \/ UNCHANGED vars,
             NEW d \in Task
      PROVE  Told(d)'
  <2>1. user' = user /\ call' = call
    BY <1>5 DEF Close, AcloseBegins, AcloseEnds, Surroundings, vars
  <2> QED BY <1>3, <2>1
<1> QED BY <1>2, <1>4, <1>5 DEF Next, ToldInv

LEMMA ToldInit == Init => ToldInv
<1>1. ASSUME Init, NEW c \in Task PROVE Told(c)
  BY <1>1 DEF Init, Told, NoCall, Guarding
<1> QED BY <1>1, HonestInit DEF ToldInv

(***************************************************************************)
(* Over the web and the CLI an operation that the reader or writer cannot  *)
(* serve is refused with nothing sent and no secret resolved, and a        *)
(* missing secret is never reported in its place, whatever the tasks do at *)
(* the same time (_LazyHttpSession, _LazyCliSession).                      *)
(***************************************************************************)
THEOREM RefusalsAreHonestProved == Spec => []RefusalsAreHonest
<1>1. ToldInv /\ [Next]_vars => ToldInv'
  BY ToldStep
<1>2. ToldInv => RefusalsAreHonest
  <2> SUFFICES ASSUME ToldInv, NEW c \in Task, Answered(c), Plain(c)
               PROVE  /\ call[c].result \in NotServed
                           => call[c].wires = {} /\ ~call[c].spent
                      /\ call[c].result = "credential"
                           => ~Refuses(Facade, user.model, Carrier(c), call[c].op)
    BY DEF RefusalsAreHonest, Plain, NotServed
  <2>1. TrueAnswer(c) /\ ~Guarding(c)
    BY DEF ToldInv, Told, Answered, Plain
  <2> QED BY <2>1 DEF TrueAnswer, Untouched, Willing, Guarding
<1> QED BY ToldInit, <1>1, <1>2, PTL DEF Spec

-----------------------------------------------------------------------------
(***************************************************************************)
(* The published table against the readers and writers.                    *)
(***************************************************************************)
OwnRespected(b, o) == o \in DOMAIN OwnBackend => b = OwnBackend[o]

Serves(m, b, o) == Barred("sync", m, b, o) = "go" /\ ~Refuses("sync", m, b, o)

LEMMA OwnBackends ==
    ASSUME NEW b, NEW o, OwnRespected(b, o)
    PROVE  /\ o = "nsdp_device" => b = "nsdp"
           /\ o = "upload_certificate" => b = "http"
           /\ o = "upload_certificate_scp" => b = "ssh"
BY DEF OwnRespected, OwnBackend

LEMMA ServesOf ==
    ASSUME NEW m, NEW b, NEW o
    PROVE  Serves(m, b, o) <=>
             /\ ~(o = "get_macs" /\ ~HasMacTable(m))
             /\ ~(o = "upload_certificate" /\ m \in KnownUnimplemented)
             /\ ~NotBuilt("sync", m, b, o)
             /\ ~Refuses("sync", m, b, o)
BY DEF Serves, Barred

LEMMA SupportedOf ==
    ASSUME NEW m, NEW b \in Backend, NEW o
    PROVE  /\ b \notin MODELS[m].backends => ~Supported(m, b, o)
           /\ b \notin OpBackends(o) => ~Supported(m, b, o)
           /\ b \in MODELS[m].backends /\ b \in OpBackends(o) =>
                /\ b = "snmp" => (Supported(m, b, o) <=> SnmpServes(m, o))
                /\ b = "nsdp" => (Supported(m, b, o) <=> o \notin NsdpRefusals)
                /\ b = "http" => (Supported(m, b, o)
                                    <=> HTTP_SPECS[m].verified /\ HttpServes(m, o))
                /\ b \in CliBackends => (Supported(m, b, o) <=> CliSupport(m, o) = "supported")
BY DEF Supported, Support, Verdict, HttpSupport, CliBackends

LEMMA SnmpAgrees ==
    ASSUME NEW m \in Key, NEW o \in Op, OwnRespected("snmp", o), "snmp" \in MODELS[m].backends
    PROVE  Supported(m, "snmp", o) <=> Serves(m, "snmp", o)
<1>1. /\ o # "nsdp_device" /\ o # "upload_certificate" /\ o # "upload_certificate_scp"
      /\ "snmp" \in Backend /\ HasMacTable(m)
  BY OwnBackends DEF Backend, HasMacTable
<1>2. Serves(m, "snmp", o) <=> ~SnmpRefuses(m, o)
  BY <1>1, ServesOf DEF NotBuilt, Refuses, CliBackends
<1>3. "snmp" \in OpBackends(o) <=> o \notin NeverOverSnmp
  BY <1>1 DEF OpBackends, ReadBackends, WriteBackends, ReadOps, WriteOps, Op, Backend,
     CliBackends, NeverOverSnmp
<1>4. o \notin NeverOverSnmp => (SnmpServes(m, o) <=> ~SnmpRefuses(m, o))
  BY <1>1 DEF SnmpServes, SnmpRefuses, NoPse, VendorOnly
<1>5. o \in NeverOverSnmp => SnmpRefuses(m, o)
  BY DEF SnmpRefuses
<1> QED BY <1>1, <1>2, <1>3, <1>4, <1>5, SupportedOf

LEMMA NsdpAgrees ==
    ASSUME NEW m \in Key, NEW o \in Op, OwnRespected("nsdp", o), "nsdp" \in MODELS[m].backends
    PROVE  Supported(m, "nsdp", o) <=> Serves(m, "nsdp", o)
<1>1. /\ o # "upload_certificate" /\ o # "upload_certificate_scp"
      /\ "nsdp" \in Backend
  BY OwnBackends DEF Backend
<1>2. Serves(m, "nsdp", o) <=> ~NsdpRefuses(o)
  <2>1. NsdpRefuses("get_macs")
    BY DEF NsdpRefuses
  <2> QED BY <1>1, <2>1, ServesOf DEF NotBuilt, Refuses, CliBackends
<1>3. "nsdp" \in OpBackends(o) /\ o \notin NsdpRefusals <=> ~NsdpRefuses(o)
  BY <1>1 DEF OpBackends, ReadBackends, WriteBackends, ReadOps, WriteOps, Op, Backend,
     CliBackends, NsdpRefusals, NsdpRefuses, PoeOps
<1> QED BY <1>1, <1>2, <1>3, SupportedOf

LEMMA ScpHasSsh == \A m \in ScpProfiles : "ssh" \in MODELS[m].backends
<1>1. /\ "ssh" \in M4300_24X.backends /\ "ssh" \in M4300_16X.backends
      /\ "ssh" \in GSM7252PS.backends
  BY DEF M4300_24X, M4300_16X, GSM7252PS, Managed
<1> QED BY <1>1 DEF MODELS, Key, ScpProfiles

LEMMA CliAgrees ==
    ASSUME NEW m \in Key, NEW b \in CliBackends, NEW o \in Op, OwnRespected(b, o),
           b \in MODELS[m].backends
    PROVE  Supported(m, b, o) <=> Serves(m, b, o)
<1>1. o # "nsdp_device" /\ o # "upload_certificate" /\ b \in Backend
      /\ b \notin {"snmp", "nsdp", "http"}
  BY OwnBackends DEF Backend, CliBackends
<1>2. CLI_SPECS[m].readsVerified /\ CLI_SPECS[m].writesVerified
  BY CliModels
<1>3. Serves(m, b, o) <=> ~(o = "get_macs" /\ ~HasMacTable(m)) /\ ~CliRefuses(m, o)
  BY <1>1, <1>2, ServesOf DEF NotBuilt, Refuses
<1>4. b \in OpBackends(o)
  BY <1>1 DEF OpBackends, ReadBackends, WriteBackends, ReadOps, WriteOps, Op, Backend
<1>5. CliSupport(m, o) = "supported"
        <=> ~(o = "get_macs" /\ ~HasMacTable(m)) /\ ~CliRefuses(m, o)
  BY <1>2 DEF CliSupport, CliRefuses, NoPse, Verdict
<1> QED BY <1>1, <1>3, <1>4, <1>5, SupportedOf

\* What every web interface of the registry has.
WholeUi(ui) ==
    /\ ui.verified /\ {"dashboard", "vlan_config", "pvid"} \subseteq ui.pages
    /\ ui.dialect \in {"GS110EMX", "GS105PE", "GOAHEAD_XML"} => "sysinfo" \in ui.pages
    /\ ui.dialect # "GOAHEAD_XML" => "vlan_membership" \in ui.pages
    /\ ui.dialect = "M4300" => "syslog" \in ui.pages
    /\ IsXmlApi(ui) <=> ui.dialect = "GOAHEAD_XML"
    /\ IsXmlApi(ui) => "mgmt_ip_fields" \notin ui.pages

LEMMA UisAreWhole == \A m \in Key \ {"m7300", "xs748t"} : WholeUi(HTTP_SPECS[m])
<1>1. /\ WholeUi(UI_M4300_24X) /\ WholeUi(UI_M4300_16X) /\ WholeUi(UI_GSM7252PS)
      /\ WholeUi(UI_GSM7228PS)
  BY DEF WholeUi, IsXmlApi, Ui, FastpathPages, Services, PoePages, UI_M4300_24X, UI_M4300_16X,
         UI_GSM7252PS, UI_GSM7228PS
<1>2. /\ WholeUi(UI_GS110EMX) /\ WholeUi(UI_GS305EP) /\ WholeUi(UI_GS728TPP)
      /\ WholeUi(UI_GS105PE)
  BY DEF WholeUi, IsXmlApi, Ui, PoePages, UI_GS110EMX, UI_GS305EP, UI_GS728TPP, UI_GS105PE
<1> HIDE DEF WholeUi
<1> QED BY <1>1, <1>2 DEF HTTP_SPECS, Key

\* A web interface lists MAC addresses only on models that are known to have a
\* table of them.
LEMMA MacPages ==
    ASSUME NEW m \in Key, "http" \in MODELS[m].backends,
           "mac_table" \in HTTP_SPECS[m].pages
    PROVE  HasMacTable(m)
<1>1. /\ "mac_table" \notin UI_GS110EMX.pages /\ "mac_table" \notin UI_GS305EP.pages
      /\ "mac_table" \notin UI_GS105PE.pages
  BY DEF UI_GS110EMX, UI_GS305EP, UI_GS105PE, Ui, PoePages
<1>2. m \notin {"gs110emx", "gs305ep", "gs105pe"}
  BY <1>1, OnlyWithAUi DEF HTTP_SPECS, Key
<1>3. /\ "snmp" \in M4300_24X.backends /\ "snmp" \in M4300_16X.backends
      /\ "snmp" \in GSM7252PS.backends /\ "snmp" \in GSM7228PS.backends
      /\ "snmp" \in M7300.backends /\ "snmp" \in XS748T.backends
      /\ "snmp" \in GS728TPP.backends
  BY DEF M4300_24X, M4300_16X, GSM7252PS, GSM7228PS, M7300, XS748T, GS728TPP, Managed
<1> QED BY <1>2, <1>3 DEF MODELS, Key, HasMacTable

HttpReads  == ReadOps \ {"nsdp_device"}
HttpNever  == {"set_flow_control", "set_syslog_enabled", "add_syslog_collector"}
HttpWrites == WriteOps \ ({"upload_certificate_scp"} \cup HttpNever)

LEMMA ReadPagesAgree ==
    ASSUME NEW ui, WholeUi(ui), NEW o \in HttpReads
    PROVE  HttpPathFor(ui, o) <=> ~HttpReaderRefuses(ui, o)
<1>1. o \in ReadOps /\ o \notin WriteOps
  BY DEF HttpReads, ReadOps, WriteOps
<1>2. CASE o = "get_vlans"
  BY <1>1, <1>2 DEF WholeUi, HttpPathFor, DialectHas, SimplePage, HttpReaderRefuses, NoVlans
<1>3. CASE o = "get_sensors"
  BY <1>1, <1>3 DEF HttpPathFor, DialectHas, SimplePage, HttpReaderRefuses
<1>4. CASE o = "get_hostname"
  BY <1>1, <1>4 DEF WholeUi, HttpPathFor, DialectHas, SimplePage, HttpReaderRefuses
<1>5. CASE o = "get_mgmt_ip"
  BY <1>1, <1>5 DEF HttpPathFor, HttpReaderRefuses
<1>6. CASE o = "get_services"
  BY <1>1, <1>6 DEF HttpPathFor, HttpReaderRefuses
<1>7. CASE o \notin {"get_vlans", "get_sensors", "get_hostname", "get_mgmt_ip", "get_services"}
  <2>1. HttpReaderRefuses(ui, o) <=> SimplePage(o) \notin ui.pages
    BY <1>7 DEF HttpReaderRefuses
  <2>2. DialectHas(ui, o)
    BY <1>1, <1>7 DEF DialectHas, WriteOps
  <2>3. HttpPathFor(ui, o) <=> DialectHas(ui, o) /\ SimplePage(o) \in ui.pages
    BY <1>1, <1>7 DEF HttpPathFor
  <2> QED BY <2>1, <2>2, <2>3
<1> QED BY <1>2, <1>3, <1>4, <1>5, <1>6, <1>7

LEMMA WritePagesAgree ==
    ASSUME NEW ui, WholeUi(ui), NEW o \in HttpWrites
    PROVE  ~HttpWriterRefuses(ui, o)
             <=> /\ o \in CsrfWrites => IsXmlApi(ui) \/ HasCsrfHash(ui)
                 /\ HttpPathFor(ui, o)
<1>1. o \in WriteOps
  BY DEF HttpWrites
<1>2. CASE IsXmlApi(ui)
  <2>1. HttpPathFor(ui, o) <=> IF o = "upload_certificate" THEN "cert_upload" \in ui.pages
                                                          ELSE o \in XmlApiWrites
    BY <1>1, <1>2 DEF HttpPathFor
  <2> QED BY <1>2, <2>1 DEF HttpWrites, HttpNever, WriteOps, XmlApiWrites, WholeUi,
       HttpWriterRefuses
<1>3. CASE ~IsXmlApi(ui)
  <2>1. HttpPathFor(ui, o) <=> DialectHas(ui, o) /\ SimplePage(o) \in ui.pages
    BY <1>1, <1>3 DEF HttpPathFor, WriteOps
  <2> QED BY <1>3, <2>1 DEF HttpWrites, HttpNever, WriteOps, CsrfWrites, DialectHas, SimplePage,
       WholeUi, HttpWriterRefuses
<1> QED BY <1>2, <1>3

LEMMA HttpAgrees ==
    ASSUME NEW m \in Key, NEW o \in Op, OwnRespected("http", o), "http" \in MODELS[m].backends
    PROVE  Supported(m, "http", o) <=> Serves(m, "http", o)
<1> DEFINE ui == HTTP_SPECS[m]
<1>1. WholeUi(ui) /\ ui.verified
  BY UisAreWhole, OnlyWithAUi DEF WholeUi
<1>2. /\ o # "nsdp_device" /\ o # "upload_certificate_scp" /\ "http" \in Backend
      /\ "http" \notin CliBackends
  BY OwnBackends DEF Backend, CliBackends
<1> HIDE DEF ui
<1>3. "http" \in OpBackends(o) <=> o \in HttpReads \cup HttpWrites
  BY <1>2 DEF OpBackends, ReadBackends, WriteBackends, ReadOps, WriteOps, Op, Backend,
     CliBackends, HttpReads, HttpWrites, HttpNever
<1>4. ~NotBuilt("sync", m, "http", o)
  BY <1>1, <1>2 DEF NotBuilt, ui
<1>5. CASE o \in HttpReads
  <2>1. o \in ReadOps /\ o \notin WriteOps /\ o # "upload_certificate" /\ o \notin CsrfWrites
    BY <1>5 DEF HttpReads, ReadOps, WriteOps, CsrfWrites
  <2>2. Refuses("sync", m, "http", o) <=> HttpReaderRefuses(ui, o)
    BY <1>2, <2>1 DEF Refuses, ui
  <2>3. HttpServes(m, o) <=> HttpPathFor(ui, o)
    BY <2>1 DEF HttpServes, ui
  <2>4. Supported(m, "http", o) <=> ~HttpReaderRefuses(ui, o)
    BY <1>1, <1>2, <1>3, <1>5, <2>3, SupportedOf, ReadPagesAgree DEF ui
  <2>5. o = "get_macs" /\ ~HttpReaderRefuses(ui, o) => HasMacTable(m)
    BY MacPages DEF HttpReaderRefuses, SimplePage, ui
  <2> QED BY <1>4, <2>1, <2>2, <2>4, <2>5, ServesOf
<1>6. CASE o \in HttpWrites
  <2>1. o \in WriteOps /\ o \notin ReadOps /\ o # "get_macs"
    BY <1>6 DEF HttpWrites, ReadOps, WriteOps
  <2>2. Refuses("sync", m, "http", o) <=> HttpWriterRefuses(ui, o)
    BY <1>2, <2>1 DEF Refuses, ui
  <2>3. HttpServes(m, o) <=> /\ ~(o = "upload_certificate" /\ m \in KnownUnimplemented)
                             /\ ~HttpWriterRefuses(ui, o)
    BY <1>1, <1>6, WritePagesAgree DEF HttpServes, ui
  <2>4. Supported(m, "http", o) <=> HttpServes(m, o)
    BY <1>1, <1>2, <1>3, <1>6, SupportedOf DEF ui
  <2> QED BY <1>4, <2>1, <2>2, <2>3, <2>4, ServesOf
<1>7. CASE o \in HttpNever
  <2>1. o \in WriteOps /\ HttpWriterRefuses(ui, o) /\ o \notin HttpReads \cup HttpWrites
    BY <1>7 DEF HttpNever, WriteOps, HttpWriterRefuses, HttpReads, HttpWrites, ReadOps
  <2> QED BY <1>2, <1>3, <2>1, ServesOf, SupportedOf DEF Refuses, ui
<1> QED BY <1>2, <1>5, <1>6, <1>7 DEF HttpReads, HttpWrites, Op

\* For every model, backend and operation, the table says supported exactly
\* where the readers and writers neither bar nor refuse.
LEMMA TableAgrees ==
    ASSUME NEW m \in Key, NEW b \in Backend, NEW o \in Op, OwnRespected(b, o)
    PROVE  Supported(m, b, o) <=> Serves(m, b, o)
<1>1. CASE b \notin MODELS[m].backends
  <2>1. ~Supported(m, b, o)
    BY <1>1, SupportedOf
  <2>2. CASE o = "upload_certificate_scp"
    <3>1. b = "ssh" /\ m \notin ScpProfiles /\ b \in CliBackends
      BY <1>1, <2>2, OwnBackends, ScpHasSsh DEF CliBackends
    <3> QED BY <2>1, <2>2, <3>1, ServesOf DEF Refuses, CliRefuses
  <2>3. CASE o # "upload_certificate_scp"
    BY <1>1, <2>1, <2>3, ServesOf DEF NotBuilt
  <2> QED BY <2>2, <2>3
<1>2. CASE b \in MODELS[m].backends
  BY <1>2, SnmpAgrees, NsdpAgrees, HttpAgrees, CliAgrees DEF Backend
<1> QED BY <1>1, <1>2

(***************************************************************************)
(* The table that the documentation is generated from and the readers and  *)
(* writers agree, call by call: no call of a SyncSwitch that the table     *)
(* supports is refused as a capability, and none returns, or gets as far   *)
(* as a verification, that the table rules out (capabilities.support and   *)
(* _dispatch.py), for any models, pins and tasks.                          *)
(***************************************************************************)
THEOREM OracleAgreesProved == Spec => []OracleAgrees
<1>1. ToldInv /\ [Next]_vars => ToldInv'
  BY ToldStep
<1>2. ToldInv => OracleAgrees
  <2> SUFFICES ASSUME ToldInv, NEW c \in Task, Facade = "sync", Answered(c)
               PROVE  /\ call[c].result \in NotServed => ~Published(c)
                      /\ call[c].result \in {"done", "verify"} => Published(c)
    BY DEF OracleAgrees, NotServed
  <2>1. TypeOK /\ TrueAnswer(c)
    BY DEF ToldInv, HonestInv, SessionInv, Told, Answered
  <2>2. call[c].op \in Op /\ user.model \in Key /\ Carrier(c) \in Backend
    BY <2>1, CarrierTyped, FrontEndAssumption DEF TypeOK, Call
  <2>3. OwnRespected(Carrier(c), call[c].op)
    BY DEF OwnRespected, Carrier, Chosen
  <2>4. Published(c) <=> Serves(user.model, Carrier(c), call[c].op)
    BY <2>2, <2>3, TableAgrees DEF Published
  <2>5. ~Guarding(c) => (Served(c) <=> Serves(user.model, Carrier(c), call[c].op))
    BY DEF Guarding, Served, Serves, Bars, Willing
  <2> QED BY <2>1, <2>4, <2>5 DEF TrueAnswer
<1> QED BY ToldInit, <1>1, <1>2, PTL DEF Spec
=============================================================================
