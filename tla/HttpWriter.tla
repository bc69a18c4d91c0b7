----------------------------- MODULE HttpWriter -----------------------------
(***************************************************************************)
(* HttpWriter and AsyncHttpWriter (http_write.py) over the sessions of     *)
(* HttpClient and the pages of WebUi, with what the facade puts around     *)
(* them: the guard of delete_vlan and close (sync_api.py), and the gates   *)
(* of ngsw and of the MCP tools before a call.                             *)
(*                                                                         *)
(* A call is the list of requests it still has to make: pages to get,      *)
(* forms to post.  One request and its answer are one step.                *)
(***************************************************************************)
EXTENDS HttpClient, FiniteSets

CONSTANTS
    Protected,   \* protected_ports
    Operations,  \* function: the calls that each caller makes
    Retries,     \* _DROPPED_CONNECTION_RETRIES
    MaxPolls,    \* bound: polls before a deadline
    MaxLoss,     \* bound: requests lost in a behaviour
    MaxOps,      \* bound: calls of one caller in a behaviour
    MaxEvents    \* bound: what other managers and close() do in a behaviour

VARIABLES
    web,       \* the switch
    todo,      \* the requests that each call still has to make
    end,       \* how it went
    op,        \* the call
    saw,       \* what the pages have told it
    again,     \* the present request has logged in a second time
    tries,     \* and has been dropped so often
    polls,     \* polls of the present phase
    lost, started, events,
    late,      \* history: what the call has read has changed since
    sent,      \* history: its forms that the switch has carried out
    twice,     \* history: it has carried one out twice
    held,      \* history: what was asked for has been so during the call
    cut        \* history: the port was without power during the call

request == <<todo, end, saw, again, tries, polls>>
history == <<late, sent, twice, held, cut>>
vars == <<clientVars, web, request, op, lost, started, events, history>>

-----------------------------------------------------------------------------
(***************************************************************************)
(* Calls.                                                                  *)
(***************************************************************************)
PortKinds == Setting \cup {"poe", "cycle", "pvid", "member"}
Drastic   == {"address", "reboot", "upload"}   \* need force by themselves
Kinds     == PortKinds \cup Drastic \cup {"create", "delete", "rename", "collector"}

\* What ngsw or the MCP server decides before the library is called.
Gate == {"open", "dryRun", "declined", "notRegistered"}

Operation ==
    [kind : Kinds, port : Port, vlan : Vlan, mode : Mode, on : BOOLEAN,
     force : BOOLEAN, gate : Gate]

Saw == [delivering : BOOLEAN, list : [Port -> Mode], address : Address, row : BOOLEAN]

ASSUME HttpWriterAssumption ==
    /\ Protected \subseteq Port
    /\ Operations \in [Caller -> SUBSET Operation]
    /\ {Retries, MaxPolls, MaxLoss, MaxOps, MaxEvents} \subseteq Nat

NoCall == CHOOSE o \in Operation : TRUE
Nothing == [delivering |-> FALSE, list |-> NoMembers, address |-> "old", row |-> FALSE]

\* What the pages of a dialect have a form for.
Serves(dialect) ==
    CASE dialect = "cgi" -> {"poe", "cycle", "pvid", "member", "create", "delete", "reboot"}
      [] dialect = "xui" -> {"poe", "cycle", "member", "enable", "address", "collector", "upload"}
      [] dialect = "xml" -> Kinds \ {"address", "reboot"}
      [] dialect = "emx" -> {"enable", "rename"}

Gets      == {"status", "page", "hosts", "known", "list", "relist", "guardList",
              "verify", "verifyOff", "verifyOn", "poll", "lastLook"}
PostReads == {"select", "reselect", "guard"}
Forms     == {"post", "press", "postOff", "postOn"}

\* A page, its form, and the page again.
FieldRequests == <<"page", "post", "verify">>

ListRequests(dialect) ==
    CASE dialect = "cgi" -> <<"select", "post", "reselect">>
      [] dialect = "xui" -> <<"list", "select", "post", "relist", "reselect">>
      [] dialect = "xml" -> FieldRequests

PoeRequests(dialect) ==
    IF dialect = "cgi" THEN <<"status">> \o FieldRequests ELSE FieldRequests

\* An interface without a reset button: off and on, each read back, then polls.
Rearm == <<"status", "status", "postOff", "verifyOff", "status", "postOn", "verifyOn", "poll">>

CycleRequests(dialect) == IF dialect = "xml" THEN Rearm ELSE <<"page", "press">>

PvidRequests == <<"known">> \o FieldRequests

CollectorRequests == <<"page", "hosts", "post", "verify">>

\* The facade reads the VLANs and the members of one before a delete.
GuardRequests(o) == IF o.force THEN <<>> ELSE <<"guardList", "guard">>

Requests(dialect, o) ==
    CASE o.kind = "member"    -> ListRequests(dialect)
      [] o.kind = "poe"       -> PoeRequests(dialect)
      [] o.kind = "cycle"     -> CycleRequests(dialect)
      [] o.kind = "pvid"      -> PvidRequests
      [] o.kind = "collector" -> CollectorRequests
      [] o.kind = "delete"    -> GuardRequests(o) \o FieldRequests
      [] o.kind = "reboot"    -> <<"page", "press">>
      [] o.kind = "upload"    -> <<"press">>
      [] OTHER                -> FieldRequests

Running(c) == end[c] = "running"

\* Bug: only what switches a port off or moves it between VLANs is guarded.
GuardNotForPvid(o) ==
    ~o.force /\ \/ o.kind \in Drastic
                \/ o.kind \in PortKinds \ {"pvid"} /\ o.port \in Protected

\* _guard, whatever is asked of the port, and what needs force by itself.
GuardRaises(o) ==
    ~o.force /\ \/ o.kind \in Drastic
                \/ o.kind \in PortKinds /\ o.port \in Protected

Init ==
    /\ ClientInit
    /\ web \in Found
    /\ todo = [c \in Caller |-> <<>>]
    /\ end = [c \in Caller |-> "idle"]
    /\ op = [c \in Caller |-> NoCall]
    /\ saw = [c \in Caller |-> Nothing]
    /\ again = [c \in Caller |-> FALSE]
    /\ tries = [c \in Caller |-> 0]
    /\ polls = [c \in Caller |-> 0]
    /\ started = [c \in Caller |-> 0]
    /\ lost = 0 /\ events = 0
    /\ late = [c \in Caller |-> FALSE]
    /\ sent = [c \in Caller |-> {}]
    /\ twice = [c \in Caller |-> FALSE]
    /\ held = [c \in Caller |-> FALSE]
    /\ cut = [c \in Caller |-> FALSE]

-----------------------------------------------------------------------------
(***************************************************************************)
(* What is asked for, and whether it is so.                                *)
(***************************************************************************)
Holds(s, o) ==
    CASE o.kind = "poe"     -> s.admin[o.port] = o.on
      [] o.kind \in Setting -> s.setting[o.kind][o.port] = o.on
      [] o.kind = "member"  -> s.member[o.vlan][o.port] = o.mode
      [] o.kind = "pvid"    -> s.pvid[o.port] = o.vlan
      [] o.kind = "create"  -> o.vlan \in s.vlans
      [] o.kind = "delete"  -> o.vlan \notin s.vlans
      [] o.kind = "rename"  -> s.renamed = o.on
      [] o.kind = "address" -> s.address = "new"
      [] o.kind = "collector" -> "named" \notin s.collectors
      [] o.kind = "upload"  -> s.certified
      [] OTHER              -> FALSE

\* Bug: the page that comes back from the form is believed.
TrustTheAnswer(c) == TRUE

\* Reading the GS110EMX's form again also checks the address that was echoed.
Verified(c) ==
    /\ Holds(web, op[c])
    /\ op[c].kind = "rename" /\ web.dialect = "emx" => web.address = saw[c].address

\* What a call has read of the switch and relies on.
ReliesOn(s, o) ==
    <<s.member[o.vlan], o.vlan \in s.vlans, IF o.kind = "rename" THEN s.address ELSE "old">>

NewsTo(c, s) == ReliesOn(s, op[c]) # ReliesOn(web, op[c])

\* The switch changes to s, by the call of c if "by" is {c}.
Becomes(s, by) ==
    LET runs == {c \in Caller : Running(c)} IN
    /\ web' = s
    /\ late' = [c \in Caller |-> c \in runs /\ (late[c] \/ (c \notin by /\ NewsTo(c, s)))]
    /\ held' = [c \in Caller |-> held[c] \/ (c \in runs /\ Holds(s, op[c]))]
    /\ cut' = [c \in Caller |-> cut[c] \/ (c \in runs /\ s.detect[op[c].port] # "delivering")]

-----------------------------------------------------------------------------
(***************************************************************************)
(* The course of a call.                                                   *)
(***************************************************************************)
Finish(c, how) ==
    /\ end' = [end EXCEPT ![c] = how]
    /\ todo' = [todo EXCEPT ![c] = <<>>]
    /\ saw' = [saw EXCEPT ![c] = Nothing]
    /\ polls' = [polls EXCEPT ![c] = 0]
    /\ again' = [again EXCEPT ![c] = FALSE]
    /\ tries' = [tries EXCEPT ![c] = 0]

\* On to the other requests, knowing s, or to a normal return.
GoOn(c, rest, s) ==
    IF rest = <<>> THEN Finish(c, "ok")
    ELSE /\ todo' = [todo EXCEPT ![c] = rest]
         /\ saw' = [saw EXCEPT ![c] = s]
         /\ again' = [again EXCEPT ![c] = FALSE]
         /\ tries' = [tries EXCEPT ![c] = 0]
         /\ UNCHANGED <<end, polls>>

Rest(c) == Tail(todo[c])

(***************************************************************************)
(* do_write prints what it would do, or asks; the MCP server registers its *)
(* write tools only if it may write.  Then the capability, then the guard. *)
(***************************************************************************)
Submit(c) ==
    /\ ~Running(c)
    /\ started[c] < MaxOps
    /\ started' = [started EXCEPT ![c] = @ + 1]
    /\ \E o \in Operations[c] :
         LET goes == /\ o.gate = "open"
                     /\ o.kind \in Serves(web.dialect)
                     /\ ~GuardRaises(o)
         IN  /\ op' = [op EXCEPT ![c] = o]
             /\ end' = [end EXCEPT ![c] = IF goes THEN "running" ELSE "refused"]
             /\ todo' = [todo EXCEPT ![c] = IF goes THEN Requests(web.dialect, o) ELSE <<>>]
             /\ held' = [held EXCEPT ![c] = Holds(web, o)]
             /\ cut' = [cut EXCEPT ![c] = web.detect[o.port] # "delivering"]
    /\ late' = [late EXCEPT ![c] = FALSE]
    /\ sent' = [sent EXCEPT ![c] = {}]
    /\ twice' = [twice EXCEPT ![c] = FALSE]
    /\ UNCHANGED <<clientVars, web, saw, again, tries, polls, lost, events>>

\* The next request of c is r and reaches a switch that knows its session.
Asks(c, r) ==
    /\ Running(c)
    /\ Head(todo[c]) = r
    /\ LoggedIn(c)
    /\ UNCHANGED <<clientVars, web, op, lost, started, events, sent, twice, held, cut>>

\* The next request finds that its client has not logged in, and it logs in.
LogInFirst(c) ==
    /\ Running(c)
    /\ LogIn(c)
    /\ UNCHANGED <<web, request, op, lost, started, events, history>>

-----------------------------------------------------------------------------
(***************************************************************************)
(* Pages.                                                                  *)
(***************************************************************************)
ReadStatus(c) ==
    /\ Asks(c, "status")
    /\ GoOn(c, Rest(c), [saw[c] EXCEPT !.delivering = web.detect[op[c].port] = "delivering"])
    /\ UNCHANGED late

\* The page with the form; vlan_delete_form needs the VLAN's own checkbox.
ReadPage(c) ==
    /\ Asks(c, "page")
    /\ IF op[c].kind = "delete" /\ web.dialect = "cgi" /\ op[c].vlan \notin web.vlans
       THEN Finish(c, "failed")
       ELSE GoOn(c, Rest(c), [saw[c] EXCEPT !.address = web.address,
                                            !.row = "named" \in web.collectors])
    /\ late' = [late EXCEPT ![c] = @ /\ op[c].kind # "rename"]

\* The row comes from the first page, the list of hosts from the second.
ReadHosts(c) ==
    /\ Asks(c, "hosts")
    /\ IF saw[c].row /\ "named" \in web.collectors
       THEN GoOn(c, Rest(c), saw[c])
       ELSE Finish(c, "failed")
    /\ UNCHANGED late

\* _require_vlan_exists
ReadKnown(c) ==
    /\ Asks(c, "known")
    /\ IF op[c].vlan \in web.vlans THEN GoOn(c, Rest(c), saw[c]) ELSE Finish(c, "failed")
    /\ UNCHANGED late

(***************************************************************************)
(* A FASTPATH membership page shows the VLAN that was selected last.  If   *)
(* it is another one the form is posted to select it, and the answer must  *)
(* show it.  The CGI page is selected by its form alone.                   *)
(***************************************************************************)
KnowsList(c, v) == [saw[c] EXCEPT !.list = web.member[v]]

ReadList(c) ==
    /\ Asks(c, "list")
    /\ \E shown \in web.vlans :
         GoOn(c, IF shown = op[c].vlan THEN Tail(Rest(c)) ELSE Rest(c), KnowsList(c, shown))
    /\ late' = [late EXCEPT ![c] = FALSE]

SelectVlan(c) ==
    /\ Asks(c, "select")
    /\ IF web.dialect = "xui" /\ op[c].vlan \notin web.vlans
       THEN Finish(c, "failed")
       ELSE GoOn(c, Rest(c), KnowsList(c, op[c].vlan))
    /\ late' = [late EXCEPT ![c] = FALSE]

ReadListAgain(c) ==
    /\ Asks(c, "relist")
    /\ \E shown \in web.vlans :
         IF shown = op[c].vlan
         THEN Finish(c, IF Verified(c) THEN "ok" ELSE "diverged")
         ELSE GoOn(c, Rest(c), saw[c])
    /\ UNCHANGED late

Verify(c) ==
    /\ \/ Asks(c, "verify")
       \/ Asks(c, "reselect")
    /\ Finish(c, IF Head(todo[c]) = "reselect" /\ web.dialect = "xui" /\ op[c].vlan \notin web.vlans
                 THEN "failed" ELSE IF Verified(c) THEN "ok" ELSE "diverged")
    /\ UNCHANGED late

(***************************************************************************)
(* _guard_vlan_delete_members: the list of VLANs, then the members.        *)
(***************************************************************************)
ReadGuardList(c) ==
    /\ Asks(c, "guardList")
    /\ GoOn(c, IF op[c].vlan \in web.vlans THEN Rest(c) ELSE Tail(Rest(c)), saw[c])
    /\ late' = [late EXCEPT ![c] = FALSE]

ReadGuard(c) ==
    /\ Asks(c, "guard")
    /\ IF \E p \in Protected : web.member[op[c].vlan][p] # "excluded"
       THEN Finish(c, "refused")
       ELSE GoOn(c, Rest(c), saw[c])
    /\ late' = [late EXCEPT ![c] = FALSE]

(***************************************************************************)
(* _goahead_poe_rearm: the admin state is read back after either write;    *)
(* then it waits for the port to come back.                                *)
(***************************************************************************)
CheckAdmin(c) ==
    /\ \/ Asks(c, "verifyOff")
       \/ Asks(c, "verifyOn")
    /\ IF web.admin[op[c].port] = (Head(todo[c]) = "verifyOn")
       THEN GoOn(c, Rest(c), saw[c])
       ELSE Finish(c, "diverged")
    /\ UNCHANGED late

\* poe_cycle_complete
CameBack(c) ==
    web.detect[op[c].port] \in
        IF saw[c].delivering THEN {"delivering"} ELSE {"delivering", "searching"}

Poll(c) ==
    /\ Asks(c, "poll")
    /\ \/ CameBack(c) /\ Finish(c, "ok")
       \/ ~CameBack(c) /\ GoOn(c, <<"lastLook">>, saw[c])
       \/ /\ ~CameBack(c) /\ polls[c] < MaxPolls
          /\ polls' = [polls EXCEPT ![c] = @ + 1]
          /\ again' = [again EXCEPT ![c] = FALSE]
          /\ tries' = [tries EXCEPT ![c] = 0]
          /\ UNCHANGED <<todo, end, saw>>
    /\ UNCHANGED late

LastLook(c) ==
    /\ Asks(c, "lastLook")
    /\ Finish(c, "diverged")
    /\ UNCHANGED late

-----------------------------------------------------------------------------
(***************************************************************************)
(* Forms.                                                                  *)
(***************************************************************************)
\* Bug: a list of its own instead of the page's.
FreshList(seen, o) == [NoMembers EXCEPT ![o.port] = o.mode]

\* hidden_mem: the page's list with one port replaced.
NewList(seen, o) == [seen.list EXCEPT ![o.port] = o.mode]

\* Bug: the name's form without the address that is on the page.
NewAddress(seen) == "new"

EchoedAddress(seen) == seen.address

Accepts(s, o, seen) ==
    o.kind = "member" =>
        CASE s.dialect = "cgi" -> TRUE
          [] s.dialect = "xui" -> ~ListRefused(s, o.vlan, NewList(seen, o))
          [] s.dialect = "xml" -> o.vlan \in s.vlans

Effect(s, o, seen, r) ==
    CASE r = "postOff"        -> WritePoeAdmin(s, o.port, FALSE)
      [] r = "postOn"         -> WritePoeAdmin(s, o.port, TRUE)
      [] o.kind = "cycle" /\ r = "press" -> PressReset(s, o.port)
      [] o.kind = "reboot"    -> s
      [] o.kind = "poe"       -> WritePoeAdmin(s, o.port, o.on)
      [] o.kind \in Setting   -> WriteSetting(s, o.kind, o.port, o.on)
      [] o.kind = "pvid"      -> WritePvid(s, o.port, o.vlan)
      [] o.kind = "create"    -> CreateVlan(s, o.vlan)
      [] o.kind = "delete"    -> DeleteVlan(s, o.vlan)
      [] o.kind = "address"   -> WriteAddress(s, "new")
      [] o.kind = "collector" -> RemoveCollector(s, "named")
      [] o.kind = "upload"    -> Certify(s)
      [] o.kind = "rename"    -> IF s.dialect = "emx"
                                 THEN WriteNameAndAddress(s, o.on, EchoedAddress(seen))
                                 ELSE WriteName(s, o.on)
      [] o.kind = "member"    -> CASE s.dialect = "cgi" -> WriteList(s, o.vlan, NewList(seen, o))
                                   [] s.dialect = "xui" -> WriteShownList(s, o.vlan, NewList(seen, o))
                                   [] s.dialect = "xml" -> WriteMember(s, o.vlan, o.port, o.mode)

\* The switch carries the form out.  A reboot ends every session.
CarriesOut(c) ==
    LET r == Head(todo[c]) IN
    /\ Accepts(web, op[c], saw[c])
    /\ Becomes(Effect(web, op[c], saw[c], r), {c})
    /\ sent' = [sent EXCEPT ![c] = @ \cup {r}]
    /\ twice' = [twice EXCEPT ![c] = @ \/ r \in sent[c]]
    /\ IF op[c].kind = "reboot" THEN AllSessionsEnd ELSE UNCHANGED session
    /\ UNCHANGED <<shared, believes>>

Posting(c) ==
    /\ Running(c)
    /\ Head(todo[c]) \in Forms
    /\ LoggedIn(c)
    /\ UNCHANGED <<op, started, events>>

Post(c) ==
    /\ Posting(c)
    /\ CarriesOut(c)
    /\ GoOn(c, Rest(c), saw[c])
    /\ UNCHANGED lost

\* err_flag, or a statusCode that is not zero.
Refuse(c) ==
    /\ Posting(c)
    /\ ~Accepts(web, op[c], saw[c])
    /\ Finish(c, "failed")
    /\ UNCHANGED <<clientVars, web, lost, history>>

-----------------------------------------------------------------------------
(***************************************************************************)
(* Faults.  A dropped connection is tried again for a page, and only for a *)
(* page: a form may have been carried out.                                 *)
(***************************************************************************)
Loses ==
    \/ lost < MaxLoss /\ lost' = lost + 1
    \/ web.address # "old" /\ UNCHANGED lost

DropPage(c) ==
    /\ Running(c)
    /\ Head(todo[c]) \in Gets \cup PostReads
    /\ Loses
    /\ \/ Finish(c, "failed")
       \/ /\ Head(todo[c]) \in Gets /\ LoggedIn(c)
          /\ tries[c] < Retries
          /\ tries' = [tries EXCEPT ![c] = @ + 1]
          /\ UNCHANGED <<todo, end, saw, again, polls>>
    /\ UNCHANGED <<clientVars, web, op, started, events, history>>

\* Bug: a dropped form is posted again.
SendsAgain(c) == Finish(c, "failed") \/ UNCHANGED request

GivesUp(c) == Finish(c, "failed")

DropForm(c) ==
    /\ Posting(c)
    /\ Loses
    /\ GivesUp(c)
    /\ \/ CarriesOut(c)
       \/ UNCHANGED <<clientVars, web, history>>

(***************************************************************************)
(* The switch has dropped the session.                                     *)
(***************************************************************************)
LoginPageForPage(c) ==
    /\ Running(c)
    /\ Head(todo[c]) \in Gets \cup PostReads
    /\ DeadSession(c)
    /\ IF Head(todo[c]) \in Gets /\ LogsInAgain(web.dialect, again[c])
       THEN /\ ForgetLogin(c)
            /\ again' = [again EXCEPT ![c] = TRUE]
            /\ UNCHANGED <<todo, end, saw, tries, polls>>
       ELSE Finish(c, "failed") /\ UNCHANGED clientVars
    /\ UNCHANGED <<web, op, lost, started, events, history>>

LoginPageForForm(c) ==
    /\ Running(c)
    /\ Head(todo[c]) \in Forms
    /\ DeadSession(c)
    /\ IF TakenForAccepted(web.dialect) /\ op[c].kind # "upload"
       THEN GoOn(c, Rest(c), saw[c])
       ELSE Finish(c, "failed")
    /\ UNCHANGED <<clientVars, web, op, lost, started, events, history>>

-----------------------------------------------------------------------------
(***************************************************************************)
(* Everything else.                                                        *)
(***************************************************************************)
Expires ==
    /\ \E k \in Caller : SessionExpires(k)
    /\ UNCHANGED <<web, request, op, lost, started, events, history>>

Closes ==
    /\ events < MaxEvents
    /\ events' = events + 1
    /\ \E k \in Caller : Close(k)
    /\ UNCHANGED <<web, request, op, lost, started, history>>

\* Another manager deletes a VLAN, removes a collector or moves the address.
Others ==
    /\ events < MaxEvents
    /\ events' = events + 1
    /\ \/ \E v \in web.vlans \ {ShownVlan(web, 0)} : Becomes(DeleteVlan(web, v), {})
       \/ Becomes(WriteAddress(web, "rival"), {})
       \/ "named" \in web.collectors /\ Becomes(RemoveCollector(web, "named"), {})
    /\ UNCHANGED <<clientVars, request, op, lost, started, sent, twice>>

Settle(p) ==
    /\ web.detect[p] # Settled(web, p)
    /\ Becomes([web EXCEPT !.detect[p] = Settled(web, p)], {})
    /\ UNCHANGED <<clientVars, request, op, lost, started, events, sent, twice>>

(***************************************************************************)
(* A thread may be overtaken anywhere; a coroutine of AsyncHttpWriter      *)
(* gives way at every await, which is where a request is.                  *)
(***************************************************************************)
GuardStep(c) == ReadGuardList(c) \/ ReadGuard(c)

MemberStep(c) == ReadList(c) \/ SelectVlan(c) \/ ReadListAgain(c)

CycleStep(c) == ReadStatus(c) \/ CheckAdmin(c) \/ Poll(c) \/ LastLook(c)

PageStep(c) == ReadPage(c) \/ ReadHosts(c) \/ ReadKnown(c) \/ Verify(c)

FormStep(c) == Post(c) \/ Refuse(c) \/ DropForm(c) \/ LoginPageForForm(c)

Step(c) ==
    \/ LogInFirst(c)
    \/ GuardStep(c) \/ MemberStep(c) \/ CycleStep(c) \/ PageStep(c) \/ FormStep(c)
    \/ DropPage(c) \/ LoginPageForPage(c)

Next ==
    \/ \E c \in Caller : Submit(c) \/ Step(c)
    \/ Expires \/ Closes \/ Others
    \/ \E p \in Port : Settle(p)

Spec == Init /\ [][Next]_vars

\* A call's thread or task runs.
FairSpec == Spec /\ \A c \in Caller : WF_vars(Step(c))

-----------------------------------------------------------------------------
(***************************************************************************)
(* Types; and a VLAN that is not there has no members, whatever list an    *)
(* earlier page has left in a call.                                        *)
(***************************************************************************)
TypeOK ==
    /\ ClientTypeOK
    /\ web \in WebState
    /\ \A v \in Vlan \ web.vlans : web.member[v] = NoMembers
    /\ todo \in [Caller -> Seq(Gets \cup PostReads \cup Forms)]
    /\ end \in [Caller -> {"idle", "running", "ok", "refused", "failed", "diverged"}]
    /\ \A c \in Caller : Running(c) <=> todo[c] # <<>>
    /\ op \in [Caller -> Operation]
    /\ saw \in [Caller -> Saw]
    /\ again \in [Caller -> BOOLEAN]
    /\ tries \in [Caller -> 0..Retries]
    /\ polls \in [Caller -> 0..MaxPolls]
    /\ lost \in 0..MaxLoss /\ events \in 0..MaxEvents
    /\ started \in [Caller -> 0..MaxOps]
    /\ late \in [Caller -> BOOLEAN]
    /\ sent \in [Caller -> SUBSET Forms]
    /\ {twice, held, cut} \subseteq [Caller -> BOOLEAN]

(***************************************************************************)
(* post_form, post_xml: "NEVER retried".  No call has one of its forms     *)
(* carried out twice, however connections and sessions break: the second   *)
(* login of get_page never repeats more than the page it was for.          *)
(***************************************************************************)
NeverTwice == \A c \in Caller : ~twice[c]

(***************************************************************************)
(* A call that reads back what it wrote and returns has had its effect,    *)
(* though the login page of a dead session passes for the acceptance of a  *)
(* form, and close() may swap the client under it.  What a button does is  *)
(* not read back: cycle_poe and clear_poe_fault of "cgi" and "xui", and    *)
(* reboot.  An uploaded certificate is not read back either, but its       *)
(* answer must say that it was accepted.                                   *)
(***************************************************************************)
NoSilentSuccess ==
    \A c \in Caller :
        end[c] = "ok" /\ op[c].kind \notin {"cycle", "reboot"} => held[c]

Moves(c) == todo'[c] # todo[c]

SameMembers(p) == \A v \in Vlan : web'.member[v][p] = web.member[v][p]

Untouched(p) ==
    /\ SameMembers(p)
    /\ web'.pvid[p] = web.pvid[p]
    /\ web'.admin[p] = web.admin[p]
    /\ \A f \in Setting : web'.setting[f][p] = web.setting[f][p]

(***************************************************************************)
(* Whatever a call reads and writes back, it changes its own port, and     *)
(* membership in its own VLAN.  Where a form carries the list of all ports *)
(* ("cgi", "xui") another port or VLAN is changed only if the list is      *)
(* stale, or the VLAN gone; the GoAhead interface names one port and never *)
(* touches another.                                                        *)
(***************************************************************************)
OnlyNamedMoves ==
    [][\A c \in Caller :
         Moves(c) /\ (late[c] => web.dialect \notin {"cgi", "xui"}) =>
           /\ \A v \in Vlan \ {op[c].vlan} : web'.member[v] = web.member[v]
           /\ "other" \in web.collectors => "other" \in web'.collectors
           /\ \A p \in Port \ {op[c].port} : op[c].kind = "delete" \/ Untouched(p)]_vars

(***************************************************************************)
(* A call without force leaves every protected port as it is, delete_vlan  *)
(* with the facade's guard included, unless what it has read has changed   *)
(* since: a port that joins between the guard and the delete, or a stale   *)
(* list.                                                                   *)
(***************************************************************************)
ProtectedKept ==
    [][\A c \in Caller :
         Moves(c) /\ ~op[c].force /\ ~late[c] => \A p \in Protected : Untouched(p)]_vars

(***************************************************************************)
(* _set_gs110emx_hostname posts the management address along with the      *)
(* name: the address stays as it is, unless another manager moves it       *)
(* between the page and the form.                                          *)
(***************************************************************************)
RenameKeepsAddress ==
    [][\A c \in Caller :
         Moves(c) /\ op[c].kind = "rename" /\ ~late[c] => web'.address = web.address]_vars

(***************************************************************************)
(* Every call ends, though the switch may drop every session that a call   *)
(* opens: get_page logs in again ONCE.                                     *)
(***************************************************************************)
CallsEnd == \A c \in Caller : Running(c) ~> ~Running(c)

(***************************************************************************)
(* _goahead_poe_rearm "is the mechanism SnmpWriter already uses", and "it  *)
(* CAN be verified": a power cycle that returns has cut the power.         *)
(***************************************************************************)
PowerWasCut ==
    \A c \in Caller :
        end[c] = "ok" /\ op[c].kind = "cycle" /\ web.dialect = "xml" => cut[c]
=============================================================================
