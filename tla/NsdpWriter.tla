----------------------------- MODULE NsdpWriter -----------------------------
(***************************************************************************)
(* NsdpWriter (nsdp_write.py) and its asyncio twin, each client on a host  *)
(* of its own, over UdpNsdpClient (transport/sync/nsdp_udp.py), against    *)
(* one switch (virtual/faces/nsdp.py, and the NSDP part of                 *)
(* virtual/state.py).                                                      *)
(*                                                                         *)
(* An exchange is one request and the first datagram that reaches the      *)
(* client's port while its socket is open: the client sends a sequence     *)
(* number and the switch echoes it, but nobody compares them.  The network *)
(* loses, delays, reorders and duplicates.  A datagram that outlives its   *)
(* exchange, because the client gave up or because it is a duplicate, is   *)
(* called stray; it may be taken for the answer of a later exchange.       *)
(***************************************************************************)
EXTENDS Naturals

CONSTANTS
    Writer,         \* clients, all of them with the right password
    Port,
    Vlan,
    DefaultVlan,
    Protected,      \* every client's protected_ports
    Forces,         \* the values of force that callers pass
    Auth,           \* the schemes the switch may want: "v1", "v2"
    SilenceAt,      \* refused writes after which a v2 switch goes silent
    Tables,         \* the VLAN tables the switch may start with
    MaxOps,         \* bound: calls
    MaxFaults       \* bound: datagrams that are lost or outlive their exchange

Membership ==
    {m \in [member : SUBSET Port, tagged : SUBSET Port] : m.tagged \subseteq m.member}
Table      == UNION {[V -> Membership] : V \in SUBSET Vlan}

ASSUME NsdpAssumption ==
    /\ DefaultVlan \in Vlan
    /\ Protected \subseteq Port
    /\ Forces \subseteq BOOLEAN
    /\ Auth \subseteq {"v1", "v2"}
    /\ Tables \subseteq Table
    /\ {SilenceAt, MaxOps, MaxFaults} \subseteq Nat

VARIABLES
    sw,         \* the switch: VLAN table, PVIDs, scheme, salt, refused writes in a row
    requests,   \* datagrams on their way to the switch
    replies,    \* datagrams on their way to the clients
    pc,         \* what each client is waiting for, or how its last call ended
    op,         \* the call
    change,     \* the TLV the call is to write
    scheme,     \* UdpNsdpClient._auth_scheme
    seq,        \* UdpNsdpClient._sequence
    held,       \* history: what the call asks for has been so since it began
    forced,     \* history: some call has passed force
    lost, stray, started

client == <<pc, op, change, scheme, seq>>
vars   == <<sw, requests, replies, client, held, forced, lost, stray, started>>

-----------------------------------------------------------------------------
(***************************************************************************)
(* Calls, and the TLV that each of them writes.                            *)
(***************************************************************************)
VlanMode == {"tagged", "untagged", "excluded"}
Resting  == {"idle", "ok", "present", "refused", "failed", "denied", "diverged"}
Waiting  == {"before", "pvids", "encpass", "salt", "write", "after"}

\* Bug: set_pvid does not ask _guard.
GuardNotForPvid(o) ==
    \/ o.kind = "membership" /\ o.port \in Protected /\ ~o.force
    \/ o.kind = "delete" /\ ~o.force

GuardRaises(o) ==
    \/ o.kind \in {"membership", "pvid"} /\ o.port \in Protected /\ ~o.force
    \/ o.kind = "delete" /\ ~o.force

\* Fields an operation has no use for are as in its first instance, and force
\* is passed only where it makes a difference.
AnyPort == CHOOSE p \in Port : TRUE

Calls ==
    LET Call(kind, ports, modes) ==
            [kind : {kind}, vlan : Vlan, port : ports, mode : modes, force : Forces]
        all == UNION {Call("membership", Port, VlanMode), Call("pvid", Port, {"tagged"}),
                      Call("create", {AnyPort}, {"tagged"}),
                      Call("delete", {AnyPort}, {"tagged"})}
    IN  {o \in all : o.force => GuardRaises([o EXCEPT !.force = FALSE])}

NoCall == [kind |-> "none", vlan |-> DefaultVlan, port |-> AnyPort, mode |-> "tagged",
           force |-> FALSE]

NoMembers == [member |-> {}, tagged |-> {}]
Of(members, v) == IF v \in DOMAIN members THEN members[v] ELSE NoMembers

\* Bug: the record is built from nothing, not from what was read.
MembersFresh(was, port, mode) ==
    [member |-> IF mode = "excluded" THEN {} ELSE {port},
     tagged |-> IF mode = "tagged" THEN {port} ELSE {}]

MembersAfter(was, port, mode) ==
    [member |-> IF mode = "excluded" THEN was.member \ {port} ELSE was.member \cup {port},
     tagged |-> IF mode = "tagged" THEN was.tagged \cup {port} ELSE was.tagged \ {port}]

NoChange == [tag |-> "none", vlan |-> DefaultVlan, port |-> AnyPort, to |-> NoMembers]

\* The TLV to write, given what get_vlans has returned.
ChangeFor(o, members) ==
    [tag  |-> CASE o.kind = "pvid" -> "pvid" [] o.kind = "delete" -> "destroy"
                [] OTHER -> "members",
     vlan |-> o.vlan, port |-> o.port,
     to   |-> IF o.kind = "membership"
              THEN MembersAfter(Of(members, o.vlan), o.port, o.mode) ELSE NoMembers]

\* What a call asks for is so, in a table and a PVID list.
Effected(o, members, pvids) ==
    LET at == Of(members, o.vlan) IN
    CASE o.kind = "membership" ->
           IF o.mode = "excluded" THEN o.port \notin at.member
           ELSE o.port \in at.member /\ (o.port \in at.tagged <=> o.mode = "tagged")
      [] o.kind = "pvid"   -> o.port \in DOMAIN pvids /\ pvids[o.port] = o.vlan
      [] o.kind = "create" -> o.vlan \in DOMAIN members
      [] o.kind = "delete" -> o.vlan \notin DOMAIN members
      [] o.kind = "none"   -> FALSE

-----------------------------------------------------------------------------
(***************************************************************************)
(* The switch.  A salt is fresh each time it is read, so it is named after *)
(* the datagram that drew it.                                              *)
(***************************************************************************)
None   == <<>>
NoSalt == <<>>

\* A reply and the TLVs in it; a tag that is not carried is None.
Reply(d, is) ==
    [client |-> d.client, seq |-> d.seq, copy |-> d.copy, is |-> is,
     model   |-> d.what \in {"vlans", "pvids"},
     members |-> IF d.what = "vlans" THEN sw.table ELSE None,
     pvids   |-> IF d.what = "pvids" THEN sw.pvid ELSE None,
     scheme  |-> IF d.what = "encpass" THEN <<sw.auth>> ELSE None,
     salt    |-> IF d.what = "salt" THEN <<d.client, d.seq, d.copy>> ELSE None]

Apply(s, c) ==
    CASE c.tag = "pvid" -> [s EXCEPT !.pvid[c.port] = c.vlan]
      [] c.tag = "members" ->
           [s EXCEPT !.table =
               [v \in DOMAIN s.table \cup {c.vlan} |-> IF v = c.vlan THEN c.to ELSE s.table[v]]]
      [] c.tag = "destroy" ->
           [s EXCEPT !.table = [v \in DOMAIN s.table \ {c.vlan} |-> s.table[v]],
                     !.pvid = [p \in Port |->
                         IF c.vlan \in DOMAIN s.table /\ @[p] = c.vlan THEN DefaultVlan ELSE @[p]]]

Authentic(d) ==
    IF sw.auth = "v1" THEN d.auth = "v1"
    ELSE d.auth = "v2" /\ sw.salt # NoSalt /\ d.token = sw.salt

Silent == sw.auth = "v2" /\ sw.failures > SilenceAt

ServeRead(d) ==
    /\ d.what # "write"
    /\ replies' = replies \cup {Reply(d, "read")}
    /\ sw' = IF d.what = "salt" THEN [sw EXCEPT !.salt = <<d.client, d.seq, d.copy>>] ELSE sw

ServeWrite(d) ==
    /\ d.what = "write"
    /\ IF Silent THEN UNCHANGED <<sw, replies>>
       ELSE IF Authentic(d)
       THEN /\ sw' = [Apply(sw, d.change) EXCEPT !.failures = 0]
            /\ replies' = replies \cup {Reply(d, "written")}
       ELSE /\ sw' = [sw EXCEPT !.failures = IF sw.auth = "v2" THEN @ + 1 ELSE @]
            /\ replies' = replies \cup {Reply(d, "denied")}

Serve ==
    /\ \E d \in requests :
         /\ ServeRead(d) \/ ServeWrite(d)
         /\ requests' = requests \ {d}
    /\ held' = [w \in Writer |-> held[w] \/ Effected(op[w], sw'.table, sw'.pvid)]
    /\ UNCHANGED <<client, forced, lost, stray, started>>

-----------------------------------------------------------------------------
(***************************************************************************)
(* The network.                                                            *)
(***************************************************************************)
Lose ==
    /\ lost + stray < MaxFaults /\ lost' = lost + 1
    /\ \/ \E d \in requests : requests' = requests \ {d} /\ UNCHANGED replies
       \/ \E d \in replies : replies' = replies \ {d} /\ UNCHANGED requests
    /\ UNCHANGED <<sw, client, held, forced, stray, started>>

Duplicate ==
    /\ lost + stray < MaxFaults /\ stray' = stray + 1
    /\ \/ /\ \E d \in requests : requests' = requests \cup {[d EXCEPT !.copy = stray']}
          /\ UNCHANGED replies
       \/ /\ \E d \in replies : replies' = replies \cup {[d EXCEPT !.copy = stray']}
          /\ UNCHANGED requests
    /\ UNCHANGED <<sw, client, held, forced, lost, started>>

\* A datagram that arrives when no socket is open, between two exchanges.
Discard ==
    /\ \E d \in replies :
         /\ pc[d.client] \in Resting \/ d.seq # seq[d.client]
         /\ replies' = replies \ {d}
    /\ UNCHANGED <<sw, requests, client, held, forced, lost, stray, started>>

-----------------------------------------------------------------------------
(***************************************************************************)
(* A call.                                                                 *)
(***************************************************************************)
Init ==
    /\ sw \in [table : Tables, pvid : {[p \in Port |-> DefaultVlan]}, auth : Auth,
               salt : {NoSalt}, failures : {0}]
    /\ requests = {} /\ replies = {}
    /\ pc = [w \in Writer |-> "idle"]
    /\ op = [w \in Writer |-> NoCall]
    /\ change = [w \in Writer |-> NoChange]
    /\ scheme = [w \in Writer |-> "auto"]
    /\ seq = [w \in Writer |-> 0]
    /\ held = [w \in Writer |-> FALSE]
    /\ forced = FALSE
    /\ lost = 0 /\ stray = 0 /\ started = 0

\* Opens a socket and sends: the client waits for at.
Exchange(w, at, what, c, auth, token) ==
    /\ seq' = [seq EXCEPT ![w] = @ + 1]
    /\ requests' = requests \cup
         {[client |-> w, seq |-> seq'[w], copy |-> 0, what |-> what,
           change |-> c, auth |-> auth, token |-> token]}
    /\ pc' = [pc EXCEPT ![w] = at]

Read(w, at, what) == Exchange(w, at, what, NoChange, "none", NoSalt)

End(w, how) ==
    /\ pc' = [pc EXCEPT ![w] = how]
    /\ op' = [op EXCEPT ![w] = NoCall]
    /\ change' = [change EXCEPT ![w] = NoChange]
    /\ UNCHANGED <<requests, seq, scheme>>

Invoke(w) ==
    /\ pc[w] \in Resting
    /\ started < MaxOps /\ started' = started + 1
    /\ \E o \in Calls :
         /\ held' = [held EXCEPT ![w] = Effected(o, sw.table, sw.pvid)]
         /\ forced' = (forced \/ o.force)
         /\ IF GuardRaises(o) THEN End(w, "refused")
            ELSE /\ op' = [op EXCEPT ![w] = o]
                 /\ Read(w, "before", "vlans")
                 /\ UNCHANGED <<change, scheme>>
    /\ UNCHANGED <<sw, replies, lost, stray>>

\* The first datagram to reach the open socket ends the exchange.
Take(w, at, d) ==
    /\ pc[w] = at
    /\ d.client = w
    /\ replies' = replies \ {d}
    /\ UNCHANGED <<sw, held, forced, lost, stray, started>>

\* read() checks the operation, parse_device that there is a MODEL.
Parses(d) == d.is = "read" /\ d.model

\* _build_write, as far as its next exchange.
Authenticate(w, how, c) ==
    CASE how = "auto" -> Read(w, "encpass", "encpass")
      [] how = "v2"   -> Read(w, "salt", "salt")
      [] how = "v1"   -> Exchange(w, "write", "write", c, "v1", NoSalt)

GetVlans(w, d) ==
    /\ Take(w, "before", d)
    /\ LET c == ChangeFor(op[w], d.members) IN
       IF ~Parses(d) THEN End(w, "failed")
       ELSE IF op[w].kind = "create" /\ op[w].vlan \in DOMAIN d.members
       THEN End(w, "present")
       ELSE IF op[w].kind = "pvid" /\ op[w].vlan \notin DOMAIN d.members
       THEN End(w, "refused")
       ELSE /\ change' = [change EXCEPT ![w] = c]
            /\ UNCHANGED <<op, scheme>>
            /\ IF op[w].kind = "pvid" THEN Read(w, "pvids", "pvids")
               ELSE Authenticate(w, scheme[w], c)

GetPvids(w, d) ==
    /\ Take(w, "pvids", d)
    /\ IF ~Parses(d) THEN End(w, "failed")
       ELSE Authenticate(w, scheme[w], change[w]) /\ UNCHANGED <<op, change, scheme>>

\* Bug: the value that announces v2 is not recognised.
AlwaysV1(d) == "v1"

\* encpass_is_v2: no value is v1.
SchemeOf(d) == IF d.scheme = <<"v2">> THEN "v2" ELSE "v1"

ResolveScheme(w, d) ==
    /\ Take(w, "encpass", d)
    /\ IF d.is # "read" THEN End(w, "failed")
       ELSE /\ scheme' = [scheme EXCEPT ![w] = SchemeOf(d)]
            /\ Authenticate(w, scheme'[w], change[w])
            /\ UNCHANGED <<op, change>>

GetSalt(w, d) ==
    /\ Take(w, "salt", d)
    /\ IF d.is # "read" \/ d.salt = None THEN End(w, "failed")
       ELSE /\ Exchange(w, "write", "write", change[w], "v2", d.salt)
            /\ UNCHANGED <<op, change, scheme>>

Written(w, d) ==
    /\ Take(w, "write", d)
    /\ CASE d.is = "read"    -> End(w, "failed")
         [] d.is = "denied"  -> End(w, "denied")
         [] d.is = "written" ->
              /\ Read(w, "after", IF op[w].kind = "pvid" THEN "pvids" ELSE "vlans")
              /\ UNCHANGED <<op, change, scheme>>

\* Bug: the answer to the write is trusted.
TrustTheAnswer(w, d) == TRUE
Verified(w, d) == Effected(op[w], d.members, d.pvids)

Verify(w, d) ==
    /\ Take(w, "after", d)
    /\ End(w, IF ~Parses(d) THEN "failed" ELSE IF Verified(w, d) THEN "ok" ELSE "diverged")

GiveUp(w) ==
    /\ pc[w] \in Waiting
    /\ LET alive == \E d \in requests \cup replies : d.client = w /\ d.seq = seq[w]
       IN  IF alive THEN lost + stray < MaxFaults /\ stray' = stray + 1 ELSE UNCHANGED stray
    /\ End(w, "failed")
    /\ UNCHANGED <<sw, replies, held, forced, lost, started>>

Step(w) ==
    \/ \E d \in replies :
         \/ GetVlans(w, d) \/ GetPvids(w, d) \/ ResolveScheme(w, d)
         \/ GetSalt(w, d) \/ Written(w, d) \/ Verify(w, d)
    \/ GiveUp(w)

Next ==
    \/ \E w \in Writer : Invoke(w) \/ Step(w)
    \/ Serve \/ Lose \/ Duplicate \/ Discard

Spec == Init /\ [][Next]_vars

-----------------------------------------------------------------------------
MaxSeq == 6 * MaxOps    \* a call makes six exchanges at most

TypeOK ==
    /\ sw.table \in Table
    /\ sw.pvid \in [Port -> Vlan]
    /\ sw.failures \in 0..SilenceAt + 1
    /\ \A d \in requests \cup replies :
         d.client \in Writer /\ d.seq \in 1..MaxSeq /\ d.copy \in 0..MaxFaults
    /\ \A d \in requests : d.change \in
         [tag : {"none", "members", "pvid", "destroy"}, vlan : Vlan, port : Port, to : Membership]
    /\ \A d \in replies : d.members \in Table
    /\ pc \in [Writer -> Resting \cup Waiting]
    /\ op \in [Writer -> Calls \cup {NoCall}]
    /\ scheme \in [Writer -> {"auto", "v1", "v2"}]
    /\ seq \in [Writer -> 0..MaxSeq]
    /\ held \in [Writer -> BOOLEAN]

(***************************************************************************)
(* Whatever is lost, and however clients interleave between reading a VLAN *)
(* and writing it back whole, a protected port stays in its VLANs, tagged  *)
(* or untagged as it was, with its PVID, as long as nobody has passed      *)
(* force and no datagram is stray (nsdp_write.py _guard, _members_after).  *)
(***************************************************************************)
In(s, p, v)     == p \in Of(s.table, v).member
Tagged(s, p, v) == p \in Of(s.table, v).tagged

ProtectedKept ==
    [][(~forced /\ stray = 0) => \A p \in Protected :
         /\ sw'.pvid[p] = sw.pvid[p]
         /\ \A v \in Vlan : /\ In(sw', p, v) <=> In(sw, p, v)
                            /\ Tagged(sw', p, v) <=> Tagged(sw, p, v)]_vars

(***************************************************************************)
(* A client that has the right password, and no datagram of whose is       *)
(* stray, is refused only because another client has read a salt between   *)
(* its own reading one and writing, lost replies and given-up writes       *)
(* notwithstanding (nsdp_udp.py _resolve_scheme, _build_write).            *)
(***************************************************************************)
RefusedOnlyByRival ==
    [][\A d \in requests :
         (stray = 0 /\ d \notin requests' /\ sw'.failures > sw.failures)
           => sw.salt # NoSalt /\ sw.salt[1] # d.client]_vars

(***************************************************************************)
(* A call that returns did not succeed in silence: what it asks for has    *)
(* been so at some moment since it was made.  The answer to the write and  *)
(* the read-back protect against one stray datagram between them; a        *)
(* create_vlan that finds the VLAN listed has neither, and is safe only    *)
(* with none.                                                              *)
(***************************************************************************)
NoSilentSuccess ==
    \A w \in Writer :
        /\ pc[w] = "ok" /\ stray <= 1 => held[w]
        /\ pc[w] = "present" /\ stray = 0 => held[w]

Called(w) == pc[w] # "idle"

(***************************************************************************)
(* With one client at work and nothing stray, a write moves the port the call was  *)
(* made for, in the VLAN it was made for, and no other, though it carries  *)
(* the whole VLAN: what is written back is what is there.                  *)
(***************************************************************************)
OnlyNamedPortMoves ==
    [][stray = 0 /\ (\A w, x \in Writer : Called(w) /\ Called(x) => w = x) =>
         \A v \in DOMAIN sw.table \cap DOMAIN sw'.table, p \in Port :
           ~(/\ In(sw', p, v) <=> In(sw, p, v)
             /\ Tagged(sw', p, v) <=> Tagged(sw, p, v))
           => \E w \in Writer : op[w].kind = "membership" /\ op[w].vlan = v /\ op[w].port = p]_vars
=============================================================================
