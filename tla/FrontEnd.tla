------------------------------ MODULE FrontEnd ------------------------------
(***************************************************************************)
(* One facade (SyncSwitch or AsyncSwitch) and who calls it: the ngsw       *)
(* command, a tool of the MCP server, or a program.  A call chooses its    *)
(* backend, has a reader or writer built, resolves the secret it needs,    *)
(* opens a session, asks the switch and answers.  What the readers and     *)
(* writers do on the wire is in the modules of the writers; here it is one *)
(* request per leg of a call and what came of it.                          *)
(***************************************************************************)
EXTENDS Dispatch

CONSTANTS Task,         \* the tasks that share the facade
          Models,       \* the models it may be made for
          Several,      \* models for which a facade is called more than once
          Shared,       \* the operations such a facade is asked for
          Pins,         \* what a program may pin its facade to
          MaxCalls,     \* calls of such a facade
          MaxTurns      \* moves of the surroundings

ASSUME FrontEndAssumption ==
    /\ Models \subseteq Key /\ Several \subseteq Models
    /\ Shared \subseteq Op
    /\ NONE \notin Backend
    /\ MaxCalls \in Nat /\ MaxTurns \in Nat

VARIABLES
    user,       \* the front end, its model, its pin, and if it may write
    call,       \* per task: the call it is in, or was in last
    cached,     \* the readers and writers that are kept
    secret,     \* the secrets the facade has resolved
    vault,      \* what a secret specification resolves to at present
    http,       \* the web client the facade built
    cli,        \* the CLI sessions of its reader, its writer and of deployments
    used,       \* the web passwords it has opened sessions with
    joined,     \* a protected port is in the VLAN that calls delete
    asked, turns

vars == <<user, call, cached, secret, vault, http, cli, used, joined, asked, turns>>

-----------------------------------------------------------------------------
Fronts  == {"ngsw", "mcp", "sync", "async"}
Secrets == {"community", "nsdp", "web"}
Values  == {"old", "new"}

\* What resolve_secret makes of the specification: "missing" is an error,
\* "blank" the empty string, "none" what comes of there being none.
Vault   == Values \cup {"missing", "blank", "none"}

Refusal == {"unsupported", "not_implemented", "protected", "credential",
            "dry", "declined", "crashed"}
Result  == Refusal \cup {"none", "done", "verify", "failed", "no_hash", "closed"}

NoCall == [op |-> "get_ports", name |-> NONE, force |-> FALSE, step |-> "idle",
           leg |-> "get_ports", wires |-> {}, wrote |-> FALSE, clear |-> FALSE,
           spent |-> FALSE, client |-> 0, result |-> "none"]

Facade == IF user.front = "async" THEN "async" ELSE "sync"

\* backend or self.backend.
Requested(c) == IF call[c].name # NONE THEN call[c].name ELSE user.pin

\* A deletion without force looks at the members first (_guard_vlan_delete_members).
FirstLeg(o, force) == IF o = "delete_vlan" /\ ~force THEN "get_vlans" ELSE o
Guarding(c) == call[c].leg # call[c].op

\* Bug: the guard reads over the default backend.
CarrierOfLeg(c) ==
    IF Guarding(c) THEN Default(user.model)
    ELSE Chosen(user.model, call[c].op, Requested(c))

Carrier(c) == Chosen(user.model, call[c].op, Requested(c))

Half(o) == IF o \in ReadOps THEN "reader" ELSE "writer"

Init ==
    /\ \E f \in Fronts, m \in Models, p \in Backend \cup {NONE}, w \in BOOLEAN :
          /\ f = "mcp" => p = NONE
          /\ f \in {"sync", "async"} => p \in Pins
          /\ f # "mcp" => w
          /\ user = [front |-> f, model |-> m, pin |-> p, writes |-> w]
    /\ call = [c \in Task |-> NoCall]
    /\ cached = [reader |-> {}, writer |-> {}]
    /\ secret = [k \in Secrets |-> "unset"]
    /\ vault \in Vault \ {"new"}
    /\ http = [client |-> "none", open |-> 0, epoch |-> 0]
    /\ cli = [h \in {"reader", "writer", "deploy"} |-> FALSE]
    /\ used = {}
    /\ joined = FALSE
    /\ asked = 0 /\ turns = 0

-----------------------------------------------------------------------------
(***************************************************************************)
(* A call begins.                                                          *)
(***************************************************************************)
Free(c) == call[c].step \in {"idle", "answered"}

\* A program with a SyncSwitch makes one call at a time.
MayAsk(c) ==
    /\ Free(c)
    /\ Facade = "sync" => \A d \in Task : Free(d)

Names == IF user.front = "ngsw" THEN {NONE}
                                ELSE MODELS[user.model].backends \cup {NONE, "console"}

\* Tools that write are registered only when writing is allowed.
Offered(o) == user.front = "mcp" /\ o \in WriteOps => user.writes

Forcible(o) == o \in {"delete_vlan", "set_mgmt_ip", "upload_certificate"}

Ask(c) ==
    /\ MayAsk(c)
    /\ \E o \in Op, n \in Names, f \in BOOLEAN :
          /\ \/ asked = 0
             \/ /\ asked < MaxCalls /\ o \in Shared
                /\ user.model \in Several /\ user.front \in {"sync", "async"}
          /\ Offered(o)
          /\ f => Forcible(o)
          /\ call' = [call EXCEPT ![c] =
                        [NoCall EXCEPT !.op = o, !.name = n, !.force = f,
                                       !.leg = FirstLeg(o, f),
                                       !.step = IF user.front = "ngsw" /\ o \in WriteOps
                                                THEN "confirm" ELSE "start"]]
          /\ asked' = IF o \in Shared THEN asked + 1 ELSE MaxCalls
    /\ UNCHANGED <<user, cached, secret, vault, http, cli, used, joined, turns>>

Answer(c, r) == call' = [call EXCEPT ![c].step = "answered", ![c].result = r]

\* do_write: --dry-run, or a question that is not answered with yes.
HoldBack(c) ==
    /\ call[c].step = "confirm"
    /\ \E r \in {"dry", "declined"} : Answer(c, r)
    /\ UNCHANGED <<user, cached, secret, vault, http, cli, used, joined, asked, turns>>

Consent(c) ==
    /\ call[c].step = "confirm"
    /\ call' = [call EXCEPT ![c].step = "start"]
    /\ UNCHANGED <<user, cached, secret, vault, http, cli, used, joined, asked, turns>>

-----------------------------------------------------------------------------
(***************************************************************************)
(* The reader or writer.                                                   *)
(***************************************************************************)
\* Bug: a secret is resolved again for every session.
ValueNow(k) == vault

\* What a call finds when it resolves a secret: the value kept, or a new one.
Value(k) == IF secret[k] # "unset" THEN secret[k] ELSE vault

\* An error is not kept; a blank and a None are.
Keep(k) ==
    IF Value(k) = "missing" THEN UNCHANGED secret
    ELSE secret' = [secret EXCEPT ![k] = Value(k)]

\* Bug: the password of the web interface and of the CLI is resolved at once.
EagerForAll(half, b) ==
    IF b \in {"http"} \cup CliBackends THEN "web"
    ELSE IF half = "reader" THEN NONE ELSE IF b = "snmp" THEN "community" ELSE "nsdp"

\* The secrets that are resolved as soon as a writer is built.
Eager(half, b) ==
    CASE half = "writer" /\ b = "snmp" -> "community"
      [] half = "writer" /\ b = "nsdp" -> "nsdp"
      [] OTHER -> NONE

\* An empty community or web password is refused; of an NSDP password it is
\* only asked that it is not None.
Suffices(k) == Value(k) \in Values \/ (k = "nsdp" /\ Value(k) = "blank")

\* The call of the MCP tool get_device passes an argument nsdp_device lacks.
Mismatched(c) == user.front = "mcp" /\ call[c].op = "nsdp_device"

\* A refusal of the guard's read is not an answer: the deletion goes on.
Refused(c, r, spent) ==
    call' = [call EXCEPT ![c] =
               IF Guarding(c) /\ r = "unsupported"
               THEN [@ EXCEPT !.leg = call[c].op, !.step = "start"]
               ELSE [@ EXCEPT !.step = "answered", !.result = r,
                              !.spent = call[c].spent \/ spent]]

Bars(c) == Barred(Facade, user.model, Carrier(c), call[c].leg)

\* A new writer is needed, and with it a secret.
SecretDue(c) ==
    LET h == Half(call[c].leg) IN
    Eager(h, Carrier(c)) # NONE /\ Carrier(c) \notin cached[h]

Kept(o) == o \notin {"upload_certificate", "upload_certificate_scp"}

Crash(c) ==
    /\ call[c].step = "start" /\ Mismatched(c)
    /\ Answer(c, "crashed")
    /\ UNCHANGED <<user, cached, secret, vault, http, cli, used, joined, asked, turns>>

Bar(c) ==
    /\ call[c].step = "start" /\ ~Mismatched(c)
    /\ Bars(c) # "go"
    /\ Refused(c, Bars(c), FALSE)
    /\ UNCHANGED <<user, cached, secret, vault, http, cli, used, joined, asked, turns>>

Build(c) ==
    LET h == Half(call[c].leg)
        k == Eager(h, Carrier(c))
    IN  /\ call[c].step = "start" /\ ~Mismatched(c)
        /\ Bars(c) = "go"
        /\ SecretDue(c) => Suffices(k)
        /\ IF SecretDue(c) THEN Keep(k) ELSE UNCHANGED secret
        /\ cached' = [cached EXCEPT ![h] = IF Kept(call[c].leg) THEN @ \cup {Carrier(c)} ELSE @]
        /\ call' = [call EXCEPT ![c].step = "ask", ![c].spent = @ \/ SecretDue(c)]
        /\ UNCHANGED <<user, vault, http, cli, used, joined, asked, turns>>

CannotBuild(c) ==
    LET k == Eager(Half(call[c].leg), Carrier(c)) IN
    /\ call[c].step = "start" /\ ~Mismatched(c)
    /\ Bars(c) = "go"
    /\ SecretDue(c)
    /\ ~Suffices(k)
    /\ Keep(k)
    /\ Refused(c, "credential", TRUE)
    /\ UNCHANGED <<user, cached, vault, http, cli, used, joined, asked, turns>>

\* It refuses on its own account, without asking the switch.
Decline(c) ==
    /\ call[c].step = "ask"
    /\ LET r == Declined(Facade, user.model, Carrier(c), call[c].leg, call[c].force)
       IN  r # "go" /\ Refused(c, r, FALSE)
    /\ UNCHANGED <<user, cached, secret, vault, http, cli, used, joined, asked, turns>>

-----------------------------------------------------------------------------
(***************************************************************************)
(* The session.                                                            *)
(***************************************************************************)
Goes(c) ==
    /\ call[c].step = "ask"
    /\ Declined(Facade, user.model, Carrier(c), call[c].leg, call[c].force) = "go"

\* The request leaves.
Request(c, spent) ==
    call' = [call EXCEPT ![c].step = "sent",
                         ![c].wires = @ \cup {Wire(user.model, Carrier(c))},
                         ![c].spent = @ \/ spent,
                         ![c].client = http.epoch]

NoPassword(c) ==
    /\ Value("web") \notin Values
    /\ Keep("web")
    /\ Refused(c, "credential", TRUE)
    /\ UNCHANGED <<http, cli, used>>

OverPackets(c) ==
    /\ Goes(c)
    /\ Carrier(c) \in {"snmp", "nsdp"}
    /\ Request(c, FALSE)
    /\ UNCHANGED <<user, cached, secret, vault, http, cli, used, joined, asked, turns>>

\* Bug: every request builds one.
HasNoClient == FALSE

\* _http_session: the client is built by the first request that needs it.
HasClient == http.client # "none"

OverHttp(c) ==
    /\ Goes(c)
    /\ Carrier(c) = "http"
    /\ \/ /\ HasClient /\ http.client = "open"
          /\ Request(c, FALSE)
          /\ UNCHANGED <<secret, http, cli, used>>
       \/ /\ HasClient /\ http.client = "closing"
          /\ Answer(c, "closed")
          /\ UNCHANGED <<secret, http, cli, used>>
       \/ /\ ~HasClient /\ Value("web") \in Values
          /\ Keep("web")
          /\ used' = used \cup {Value("web")}
          /\ http' = [http EXCEPT !.client = "open", !.open = @ + 1]
          /\ Request(c, TRUE)
          /\ UNCHANGED cli
       \/ ~HasClient /\ NoPassword(c)
    /\ UNCHANGED <<user, cached, vault, joined, asked, turns>>

\* _LazyCliSession: one session for the reader, one for the writer; a
\* deployment opens its own and closes it.
Owner(o) == IF o = "upload_certificate_scp" THEN "deploy" ELSE Half(o)

OverCli(c) ==
    LET h == Owner(call[c].leg) IN
    /\ Goes(c)
    /\ Carrier(c) \in CliBackends
    /\ \/ /\ cli[h]
          /\ Request(c, FALSE)
          /\ UNCHANGED <<secret, http, cli, used>>
       \/ /\ ~cli[h] /\ Value("web") \in Values
          /\ Keep("web")
          /\ used' = used \cup {Value("web")}
          /\ cli' = [cli EXCEPT ![h] = TRUE]
          /\ Request(c, TRUE)
          /\ UNCHANGED http
       \/ ~cli[h] /\ NoPassword(c)
    /\ UNCHANGED <<user, cached, vault, joined, asked, turns>>

-----------------------------------------------------------------------------
(***************************************************************************)
(* The switch.                                                             *)
(***************************************************************************)
\* The client that carried the request has been closed in the meantime.
Cut(c) == Carrier(c) = "http" /\ (http.client # "open" \/ call[c].client # http.epoch)

NoHash(c) ==
    /\ Carrier(c) = "http" /\ call[c].leg \in WriteOps
    /\ Scrapes(HTTP_SPECS[user.model], call[c].leg)
    /\ ~HasCsrfHash(HTTP_SPECS[user.model])

\* The writers of SNMP and of the CLI look at the members once more.
WriterObjects(c) ==
    /\ call[c].leg = "delete_vlan" /\ ~call[c].force
    /\ Carrier(c) \in {"snmp"} \cup CliBackends
    /\ joined

CloseDeployment(c) ==
    cli' = [cli EXCEPT !["deploy"] = @ /\ call[c].leg # "upload_certificate_scp"]

\* What the call asks for reaches the switch.
Alter(c) ==
    /\ call[c].step = "sent" /\ call[c].leg \in WriteOps /\ ~call[c].wrote
    /\ ~Cut(c) /\ ~NoHash(c) /\ ~WriterObjects(c)
    /\ call' = [call EXCEPT ![c].wrote = TRUE]
    /\ UNCHANGED <<user, cached, secret, vault, http, cli, used, joined, asked, turns>>

\* The members, for the guard of a deletion.
ReplyToGuard(c) ==
    /\ call[c].step = "sent" /\ Guarding(c) /\ ~Cut(c)
    /\ IF joined THEN Answer(c, "protected")
       ELSE call' = [call EXCEPT ![c].leg = call[c].op, ![c].step = "start",
                                 ![c].clear = TRUE]
    /\ UNCHANGED <<user, cached, secret, vault, http, cli, used, joined, asked, turns>>

Reply(c) ==
    /\ call[c].step = "sent" /\ ~Guarding(c) /\ ~Cut(c)
    /\ \/ call[c].leg \in ReadOps /\ Answer(c, "done")
       \/ call[c].wrote /\ \E r \in {"done", "verify"} : Answer(c, r)
       \/ ~call[c].wrote /\ NoHash(c) /\ Answer(c, "no_hash")
       \/ ~call[c].wrote /\ WriterObjects(c) /\ Answer(c, "protected")
    /\ CloseDeployment(c)
    /\ UNCHANGED <<user, cached, secret, vault, http, used, joined, asked, turns>>

\* No answer, an answer that is an error, or the client closed under it.
Break(c) ==
    /\ call[c].step = "sent"
    /\ Answer(c, IF Cut(c) THEN "closed" ELSE "failed")
    /\ CloseDeployment(c)
    /\ UNCHANGED <<user, cached, secret, vault, http, used, joined, asked, turns>>

-----------------------------------------------------------------------------
(***************************************************************************)
(* The end of the block that owns the facade; ngsw and the server never    *)
(* get there.  The close of an asynchronous client is awaited, and until   *)
(* it is over the facade still has it.                                     *)
(***************************************************************************)
Released == [http EXCEPT !.client = "none", !.open = @ - 1, !.epoch = @ + 1]

Close ==
    /\ user.front = "sync"
    /\ \A c \in Task : Free(c)
    /\ http.client = "open" /\ http.epoch = 0
    /\ http' = Released
    /\ UNCHANGED <<user, call, cached, secret, vault, cli, used, joined, asked, turns>>

AcloseBegins ==
    /\ user.front = "async"
    /\ http.client = "open" /\ http.epoch = 0
    /\ http' = [http EXCEPT !.client = "closing"]
    /\ UNCHANGED <<user, call, cached, secret, vault, cli, used, joined, asked, turns>>

AcloseEnds ==
    /\ http.client = "closing"
    /\ http' = Released
    /\ UNCHANGED <<user, call, cached, secret, vault, cli, used, joined, asked, turns>>

\* A secret is set, changed or lost; a protected port joins or leaves the VLAN.
Surroundings ==
    /\ asked > 0 /\ turns < MaxTurns
    /\ turns' = turns + 1
    /\ \/ /\ vault # "none"
          /\ vault' \in Vault \ {vault, "none"}
          /\ UNCHANGED joined
       \/ joined' = ~joined /\ UNCHANGED vault
    /\ UNCHANGED <<user, call, cached, secret, http, cli, used, asked>>

-----------------------------------------------------------------------------
Step(c) ==
    \/ Ask(c) \/ HoldBack(c) \/ Consent(c)
    \/ Crash(c) \/ Bar(c) \/ Build(c) \/ CannotBuild(c) \/ Decline(c)
    \/ OverPackets(c) \/ OverHttp(c) \/ OverCli(c)
    \/ Alter(c) \/ ReplyToGuard(c) \/ Reply(c) \/ Break(c)

Next == (\E c \in Task : Step(c)) \/ Close \/ AcloseBegins \/ AcloseEnds \/ Surroundings

Spec == Init /\ [][Next]_vars

-----------------------------------------------------------------------------
Call ==
    [op : Op, name : Backend \cup {NONE}, force : BOOLEAN,
     step : {"idle", "confirm", "start", "ask", "sent", "answered"},
     leg : Op, wires : SUBSET Backend, wrote : BOOLEAN, clear : BOOLEAN,
     spent : BOOLEAN, client : Nat, result : Result]

\* Types of the facade (SyncSwitch.__init__) and of the calls made of it.
TypeOK ==
    /\ user \in [front : Fronts, model : Models, pin : Backend \cup {NONE}, writes : BOOLEAN]
    /\ call \in [Task -> Call]
    /\ cached \in [{"reader", "writer"} -> SUBSET Backend]
    /\ secret \in [Secrets -> Values \cup {"unset", "blank", "none"}]
    /\ vault \in Vault
    /\ http \in [client : {"none", "open", "closing"}, open : Nat, epoch : Nat]
    /\ cli \in [{"reader", "writer", "deploy"} -> BOOLEAN]
    /\ used \subseteq Values
    /\ joined \in BOOLEAN
    /\ asked \in Nat /\ turns \in Nat

Answered(c) == call[c].step = "answered"

\* What the table of capabilities says of a call.
Published(c) == Supported(user.model, Carrier(c), call[c].op)

\* The table (capabilities.support) and the readers and writers are written
\* apart: no call that the table supports is refused, and none succeeds that
\* the table rules out.
OracleAgrees ==
    \A c \in Task : Facade = "sync" /\ Answered(c) =>
        /\ call[c].result \in {"unsupported", "not_implemented"} => ~Published(c)
        /\ call[c].result \in {"done", "verify"} => Published(c)

\* delete_vlan: on no model and over no backend does a deletion without force
\* reach the switch, unless the same call has read the members before and
\* found no protected port; a read that is refused never leads to one.
GuardedDelete ==
    [][\A c \in Task :
         /\ ~call[c].wrote /\ call'[c].wrote
         /\ call[c].op = "delete_vlan" /\ ~call[c].force
         => call[c].clear]_vars

\* _resolved_http_password: whatever becomes of the secret outside, all
\* sessions of a facade, of the web and of the CLI, before and after a close,
\* are opened with one password.
OneCredential == Cardinality(used) <= 1

\* _LazyHttpSession and _LazyCliSession: an operation that the web or the CLI
\* cannot serve is refused as such: nothing is sent, no secret is resolved, and
\* no missing secret is reported in its place.  The read that guards a
\* deletion is a request of its own and is left out.
RefusalsAreHonest ==
    \A c \in Task :
        LET k == call[c] IN
        /\ Answered(c) /\ Carrier(c) \in {"http"} \cup CliBackends
        /\ k.op = "delete_vlan" => k.force
        => /\ k.result \in {"unsupported", "not_implemented"} => k.wires = {} /\ ~k.spent
           /\ k.result = "credential" => ~Refuses(Facade, user.model, Carrier(c), k.op)

\* _http_session and close: a facade has at most one web client open, the one
\* that it can still close, whichever tasks ask it for one at the same time.
NoLeak == http.open = IF http.client = "none" THEN 0 ELSE 1

\* capabilities.py of the operations whose page carries no hash: "claiming
\* support here would publish a support table that contradicts the device".
SupportedCanBeSent ==
    \A c \in Task : Answered(c) /\ call[c].result = "no_hash" => ~Published(c)

-----------------------------------------------------------------------------
PhaseOf(k) ==
    CASE k.step = "idle" -> "idle"
      [] k.step = "answered" ->
           IF k.result \in Refusal THEN "refused"
           ELSE IF k.result = "done" THEN "done" ELSE "failed"
      [] OTHER -> "open"

Promise == INSTANCE OneCall WITH
    Callers <- Task,
    Wires   <- Backend,
    phase   <- [c \in Task |-> PhaseOf(call[c])],
    wires   <- [c \in Task |-> call[c].wires],
    wrote   <- [c \in Task |-> call[c].wrote]

\* What every front end promises to every caller: see OneCall.
KeepsPromise == Promise!Spec
=============================================================================
