-------------------------- MODULE NsdpWriterProofs --------------------------
(***************************************************************************)
(* What TLAPS proves of NsdpWriter, for any number of clients, ports,      *)
(* VLANs, calls and lost datagrams.                                        *)
(***************************************************************************)
EXTENDS NsdpWriter, TLAPS

\* Nobody has forced anything, and no datagram has outlived its exchange.
Calm == ~forced /\ stray = 0

SameBits(m, n, p) == (p \in m.member <=> p \in n.member) /\ (p \in m.tagged <=> p \in n.tagged)

\* A table that tells the truth about every protected port.
Tells(t) == \A p \in Protected, v \in Vlan : SameBits(Of(t, v), Of(sw.table, v), p)

\* A change that leaves every protected port as it is.
SafeChange(c) ==
    /\ c.vlan \in Vlan
    /\ \/ c.tag = "pvid" /\ c.port \in Port \ Protected
       \/ /\ c.tag = "members"
          /\ \A p \in Protected : SameBits(c.to, Of(sw.table, c.vlan), p)

SafeCall(o) ==
    /\ o.kind \in {"membership", "pvid", "create"}
    /\ o.vlan \in Vlan
    /\ o.kind \in {"membership", "pvid"} => o.port \in Port \ Protected

(***************************************************************************)
(* The inductive invariant.                                                *)
(***************************************************************************)
Shaped(s) ==
    /\ s = [table |-> s.table, pvid |-> s.pvid, auth |-> s.auth, salt |-> s.salt,
            failures |-> s.failures]
    /\ DOMAIN s.pvid = Port

\* A client has at most one datagram under way, and it belongs to the
\* exchange that the client is in.
OneDatagram ==
    /\ \A d, e \in requests : d.client = e.client => d = e
    /\ \A d, e \in replies : d.client = e.client => d = e
    /\ \A d \in requests, e \in replies : d.client # e.client

Fits(d) == d.client \in Writer /\ pc[d.client] \in Waiting /\ d.seq = seq[d.client]

RequestFits(d) ==
    /\ Fits(d)
    /\ pc[d.client] = "before" => d.what = "vlans"
    /\ d.what = "write" => SafeChange(d.change)

ReplyFits(d) ==
    /\ Fits(d)
    /\ d.is \in {"read", "denied", "written"}
    /\ pc[d.client] = "before" => Tells(d.members)

ClientSafe(w) ==
    /\ pc[w] = "before" => SafeCall(op[w])
    /\ pc[w] \in {"pvids", "encpass", "salt"} => SafeChange(change[w])

CalmInv ==
    /\ Shaped(sw)
    /\ DOMAIN pc = Writer /\ DOMAIN op = Writer /\ DOMAIN change = Writer
    /\ DOMAIN seq = Writer
    /\ scheme \in [Writer -> {"auto", "v1", "v2"}]
    /\ OneDatagram
    /\ \A d \in requests : RequestFits(d)
    /\ \A d \in replies : ReplyFits(d)
    /\ \A w \in Writer : ClientSafe(w)

Inv == stray \in Nat /\ forced \in BOOLEAN /\ (Calm => CalmInv)

KeepsBits ==
    \A p \in Protected :
        /\ sw'.pvid[p] = sw.pvid[p]
        /\ \A v \in Vlan : SameBits(Of(sw'.table, v), Of(sw.table, v), p)

-----------------------------------------------------------------------------
(***************************************************************************)
(* The change of a call, and its effect.                                   *)
(***************************************************************************)
LEMMA ChangeIsSafe ==
    ASSUME NEW o, SafeCall(o), NEW t, Tells(t),
           o.kind = "create" => o.vlan \notin DOMAIN t
    PROVE  SafeChange(ChangeFor(o, t))
<1> DEFINE c == ChangeFor(o, t)
<1>1. c.vlan \in Vlan /\ c.vlan = o.vlan /\ c.port = o.port
  BY DEF ChangeFor, SafeCall
<1>2. CASE o.kind = "pvid"
  BY <1>1, <1>2 DEF ChangeFor, SafeCall, SafeChange
<1>3. CASE o.kind = "create"
  <2>1. c.tag = "members" /\ c.to = NoMembers
    BY <1>3 DEF ChangeFor
  <2>2. Of(t, o.vlan) = NoMembers
    BY <1>3 DEF Of
  <2> HIDE DEF c
  <2>3. \A p \in Protected : SameBits(c.to, Of(sw.table, c.vlan), p)
    BY <1>1, <2>1, <2>2 DEF Tells, SafeCall
  <2> QED BY <1>1, <2>1, <2>3 DEF SafeChange, c
<1>4. CASE o.kind = "membership"
  <2>1. c.tag = "members" /\ c.to = MembersAfter(Of(t, o.vlan), o.port, o.mode)
    BY <1>4 DEF ChangeFor
  <2> HIDE DEF c
  <2>2. \A p \in Protected : SameBits(c.to, Of(t, o.vlan), p)
    BY <1>4, <2>1 DEF MembersAfter, SameBits, SafeCall
  <2>3. \A p \in Protected : SameBits(c.to, Of(sw.table, c.vlan), p)
    BY <1>1, <2>2 DEF Tells, SafeCall, SameBits
  <2> QED BY <1>1, <2>1, <2>3 DEF SafeChange, c
<1> QED BY <1>2, <1>3, <1>4 DEF SafeCall

LEMMA SafeChangeKeepsBits ==
    ASSUME Shaped(sw), NEW c, SafeChange(c), NEW f,
           sw' = [Apply(sw, c) EXCEPT !.failures = f]
    PROVE  Shaped(sw') /\ KeepsBits
<1>1. CASE c.tag = "pvid"
  <2>1. Apply(sw, c) = [sw EXCEPT !.pvid[c.port] = c.vlan]
    BY <1>1 DEF Apply
  <2>2. /\ sw'.table = sw.table /\ sw'.pvid = [sw.pvid EXCEPT ![c.port] = c.vlan]
        /\ sw' = [table |-> sw'.table, pvid |-> sw'.pvid, auth |-> sw'.auth,
                  salt |-> sw'.salt, failures |-> sw'.failures]
    BY <2>1 DEF Shaped
  <2>3. c.port \in Port \ Protected
    BY <1>1 DEF SafeChange
  <2>4. DOMAIN sw'.pvid = Port
    BY <2>2 DEF Shaped
  <2>5. \A p \in Protected : sw'.pvid[p] = sw.pvid[p]
    BY <2>2, <2>3, NsdpAssumption DEF Shaped
  <2>6. \A p \in Protected, v \in Vlan : SameBits(Of(sw'.table, v), Of(sw.table, v), p)
    BY <2>2 DEF SameBits
  <2> QED BY <2>2, <2>4, <2>5, <2>6 DEF Shaped, KeepsBits
<1>2. CASE c.tag = "members"
  <2> DEFINE t == [v \in DOMAIN sw.table \cup {c.vlan} |->
                     IF v = c.vlan THEN c.to ELSE sw.table[v]]
  <2>1. Apply(sw, c) = [sw EXCEPT !.table = t]
    BY <1>2 DEF Apply
  <2>2. \A v : Of(t, v) = IF v = c.vlan THEN c.to ELSE Of(sw.table, v)
    BY DEF Of
  <2> HIDE DEF t
  <2>3. /\ sw'.table = t /\ sw'.pvid = sw.pvid
        /\ sw' = [table |-> sw'.table, pvid |-> sw'.pvid, auth |-> sw'.auth,
                  salt |-> sw'.salt, failures |-> sw'.failures]
    BY <2>1 DEF Shaped
  <2>4. \A p \in Protected, v \in Vlan : SameBits(Of(t, v), Of(sw.table, v), p)
    BY <1>2, <2>2 DEF SafeChange, SameBits
  <2> QED BY <2>3, <2>4 DEF Shaped, KeepsBits
<1> QED BY <1>1, <1>2 DEF SafeChange

\* What is true of the protected ports stays true while their bits are kept.
LEMMA TruthKept ==
    ASSUME KeepsBits
    PROVE  /\ \A t : Tells(t) => Tells(t)'
           /\ \A c : SafeChange(c) => SafeChange(c)'
<1>1. ASSUME NEW t, Tells(t) PROVE Tells(t)'
  BY <1>1 DEF Tells, KeepsBits, SameBits
<1>2. ASSUME NEW c, SafeChange(c) PROVE SafeChange(c)'
  BY <1>2 DEF SafeChange, KeepsBits, SameBits
<1> QED BY <1>1, <1>2

-----------------------------------------------------------------------------
(***************************************************************************)
(* What the steps of a client have in common.                              *)
(***************************************************************************)

\* No datagram of the client's is under way once it has taken its answer.
Quiet(w) ==
    /\ \A d \in requests : d.client # w
    /\ \A d \in replies' : d \in replies /\ d.client # w

OnlyOwn(w) ==
    /\ UNCHANGED sw
    /\ DOMAIN op' = Writer /\ DOMAIN change' = Writer
    /\ \A x \in Writer \ {w} : op'[x] = op[x] /\ change'[x] = change[x]
    /\ scheme' \in [Writer -> {"auto", "v1", "v2"}]

LEMMA ExchangeKeepsInv ==
    ASSUME CalmInv, NEW w \in Writer, NEW at \in Waiting, NEW what, NEW c, NEW auth, NEW token,
           Exchange(w, at, what, c, auth, token), Quiet(w), OnlyOwn(w),
           at = "before" => what = "vlans" /\ SafeCall(op'[w]),
           at \in {"pvids", "encpass", "salt"} => SafeChange(change'[w]),
           what = "write" => SafeChange(c)
    PROVE  CalmInv'
<1> DEFINE n == [client |-> w, seq |-> seq'[w], copy |-> 0, what |-> what,
                 change |-> c, auth |-> auth, token |-> token]
<1>1. /\ DOMAIN pc' = Writer /\ DOMAIN op' = Writer /\ DOMAIN change' = Writer
      /\ DOMAIN seq' = Writer
  BY DEF CalmInv, Exchange, OnlyOwn
<1>2. /\ pc'[w] = at
      /\ \A x \in Writer \ {w} : /\ pc'[x] = pc[x] /\ op'[x] = op[x]
                                /\ change'[x] = change[x] /\ seq'[x] = seq[x]
  BY DEF CalmInv, Exchange, OnlyOwn
<1>3. requests' = requests \cup {n}
  BY DEF Exchange
<1>4. n.client = w /\ n.seq = seq'[w] /\ n.what = what /\ n.change = c
  OBVIOUS
<1> HIDE DEF n
<1>5. \A c1 : SafeChange(c1) => SafeChange(c1)'
  BY DEF OnlyOwn, SafeChange
<1>6. \A t : Tells(t) => Tells(t)'
  BY DEF OnlyOwn, Tells
<1>7. Shaped(sw)'
  BY DEF CalmInv, OnlyOwn
<1>8. OneDatagram'
  BY <1>3, <1>4 DEF CalmInv, OneDatagram, Quiet
<1>9. ASSUME NEW d \in requests' PROVE RequestFits(d)'
  <2>1. CASE d = n
    BY <1>2, <1>4, <1>5, <2>1 DEF RequestFits, Fits
  <2>2. CASE d \in requests
    <3>1. RequestFits(d) /\ d.client # w
      BY <2>2 DEF CalmInv, Quiet
    <3> QED BY <1>2, <1>5, <3>1 DEF RequestFits, Fits
  <2> QED BY <1>3, <2>1, <2>2
<1>10. ASSUME NEW d \in replies' PROVE ReplyFits(d)'
  <2>1. ReplyFits(d) /\ d.client # w
    BY <1>10 DEF CalmInv, Quiet
  <2> QED BY <1>2, <1>6, <2>1 DEF ReplyFits, Fits
<1>11. ASSUME NEW x \in Writer PROVE ClientSafe(x)'
  <2>1. CASE x = w
    BY <1>2, <1>5, <2>1 DEF ClientSafe
  <2>2. CASE x # w
    <3>1. ClientSafe(x)
      BY DEF CalmInv
    <3> QED BY <1>2, <1>5, <2>2, <3>1 DEF ClientSafe
  <2> QED BY <2>1, <2>2
<1> QED BY <1>1, <1>7, <1>8, <1>9, <1>10, <1>11 DEF CalmInv, OnlyOwn

LEMMA EndKeepsInv ==
    ASSUME CalmInv, NEW w \in Writer, NEW how \in Resting, End(w, how), Quiet(w), UNCHANGED sw
    PROVE  CalmInv'
<1>1. /\ DOMAIN pc' = Writer /\ DOMAIN op' = Writer /\ DOMAIN change' = Writer
      /\ seq' = seq /\ scheme' = scheme
  BY DEF CalmInv, End
<1>2. /\ pc'[w] = how
      /\ \A x \in Writer \ {w} : pc'[x] = pc[x] /\ op'[x] = op[x] /\ change'[x] = change[x]
  BY DEF CalmInv, End
<1>3. requests' = requests
  BY DEF End
<1>4. pc'[w] \notin {"before", "pvids", "encpass", "salt"}
  BY <1>2 DEF Resting
<1>5. \A c1 : SafeChange(c1) => SafeChange(c1)'
  BY DEF SafeChange
<1>6. \A t : Tells(t) => Tells(t)'
  BY DEF Tells
<1>7. Shaped(sw)'
  BY DEF CalmInv
<1>8. OneDatagram'
  BY <1>3 DEF CalmInv, OneDatagram, Quiet
<1>9. ASSUME NEW d \in requests' PROVE RequestFits(d)'
  <2>1. RequestFits(d) /\ d.client # w
    BY <1>3 DEF CalmInv, Quiet
  <2> QED BY <1>1, <1>2, <1>5, <2>1 DEF RequestFits, Fits
<1>10. ASSUME NEW d \in replies' PROVE ReplyFits(d)'
  <2>1. ReplyFits(d) /\ d.client # w
    BY <1>10 DEF CalmInv, Quiet
  <2> QED BY <1>1, <1>2, <1>6, <2>1 DEF ReplyFits, Fits
<1>11. ASSUME NEW x \in Writer PROVE ClientSafe(x)'
  <2>1. CASE x = w
    BY <1>4, <2>1 DEF ClientSafe
  <2>2. CASE x # w
    <3>1. ClientSafe(x)
      BY DEF CalmInv
    <3> QED BY <1>2, <1>5, <2>2, <3>1 DEF ClientSafe
  <2> QED BY <2>1, <2>2
<1> QED BY <1>1, <1>7, <1>8, <1>9, <1>10, <1>11 DEF CalmInv

\* Taking the answer leaves nothing of the client's under way.
LEMMA TakeIsQuiet ==
    ASSUME CalmInv, NEW w, NEW at, NEW d \in replies, Take(w, at, d)
    PROVE  Quiet(w) /\ UNCHANGED sw
BY DEF CalmInv, OneDatagram, Take, Quiet

LEMMA AuthenticateKeepsInv ==
    ASSUME CalmInv, NEW w \in Writer, NEW how \in {"auto", "v1", "v2"}, NEW c,
           Authenticate(w, how, c), Quiet(w), OnlyOwn(w), SafeChange(c), change'[w] = c
    PROVE  CalmInv'
<1>1. CASE how = "auto"
  <2>1. Exchange(w, "encpass", "encpass", NoChange, "none", NoSalt)
    BY <1>1 DEF Authenticate, Read
  <2> QED BY <2>1, ExchangeKeepsInv DEF Waiting
<1>2. CASE how = "v2"
  <2>1. Exchange(w, "salt", "salt", NoChange, "none", NoSalt)
    BY <1>2 DEF Authenticate, Read
  <2> QED BY <2>1, ExchangeKeepsInv DEF Waiting
<1>3. CASE how = "v1"
  <2>1. Exchange(w, "write", "write", c, "v1", NoSalt)
    BY <1>3 DEF Authenticate
  <2> QED BY <2>1, ExchangeKeepsInv DEF Waiting
<1> QED BY <1>1, <1>2, <1>3

-----------------------------------------------------------------------------
(***************************************************************************)
(* One lemma per action, in a calm state and into one.                     *)
(***************************************************************************)
LEMMA InvokeKeepsInv ==
    ASSUME CalmInv, Calm', NEW w \in Writer, Invoke(w)
    PROVE  CalmInv' /\ UNCHANGED sw
<1>1. pc[w] \notin Waiting
  BY DEF Invoke, Resting, Waiting
<1>2. UNCHANGED <<sw, replies>>
  BY DEF Invoke
<1>3. Quiet(w)
  BY <1>1, <1>2 DEF CalmInv, RequestFits, ReplyFits, Fits, Quiet
<1>4. PICK o \in Calls :
         /\ forced' = (forced \/ o.force)
         /\ IF GuardRaises(o) THEN End(w, "refused")
            ELSE /\ op' = [op EXCEPT ![w] = o]
                 /\ Read(w, "before", "vlans")
                 /\ UNCHANGED <<change, scheme>>
  BY DEF Invoke
<1>5. CASE GuardRaises(o)
  BY <1>2, <1>3, <1>4, <1>5, EndKeepsInv DEF Resting
<1>6. CASE ~GuardRaises(o)
  <2>1. ~o.force
    BY <1>4 DEF Calm
  <2>2. /\ o.vlan \in Vlan /\ o.kind \in {"membership", "pvid", "create", "delete"}
        /\ o.kind \in {"membership", "pvid"} => o.port \in Port
    BY <1>4 DEF Calls
  <2>3. SafeCall(o)
    BY <1>6, <2>1, <2>2 DEF GuardRaises, SafeCall
  <2>4. /\ op'[w] = o /\ DOMAIN op' = Writer /\ DOMAIN change' = Writer
        /\ \A x \in Writer \ {w} : op'[x] = op[x] /\ change'[x] = change[x]
    BY <1>4, <1>6 DEF CalmInv
  <2>6. OnlyOwn(w)
    BY <1>2, <1>4, <1>6, <2>4 DEF CalmInv, OnlyOwn
  <2>7. Exchange(w, "before", "vlans", NoChange, "none", NoSalt)
    BY <1>4, <1>6 DEF Read
  <2> QED BY <1>2, <1>3, <2>3, <2>4, <2>6, <2>7, ExchangeKeepsInv DEF Waiting
<1> QED BY <1>5, <1>6

\* A step that leaves the scheme, the call and the change alone is the client's own.
LEMMA UnchangedIsOwn ==
    ASSUME CalmInv, NEW w \in Writer, UNCHANGED <<sw, op, scheme>>,
           change' = change \/ \E c : change' = [change EXCEPT ![w] = c]
    PROVE  OnlyOwn(w)
BY DEF CalmInv, OnlyOwn

LEMMA GetVlansKeepsInv ==
    ASSUME CalmInv, NEW w \in Writer, NEW d \in replies, GetVlans(w, d)
    PROVE  CalmInv' /\ UNCHANGED sw
<1> DEFINE c == ChangeFor(op[w], d.members)
<1>1. Take(w, "before", d)
  BY DEF GetVlans
<1>2. Quiet(w) /\ UNCHANGED sw
  BY <1>1, TakeIsQuiet
<1>3. CASE \E how \in {"failed", "present", "refused"} : End(w, how)
  BY <1>2, <1>3, EndKeepsInv DEF Resting
<1>4. CASE /\ ~(op[w].kind = "create" /\ op[w].vlan \in DOMAIN d.members)
           /\ change' = [change EXCEPT ![w] = c]
           /\ UNCHANGED <<op, scheme>>
           /\ IF op[w].kind = "pvid" THEN Read(w, "pvids", "pvids")
              ELSE Authenticate(w, scheme[w], c)
  <2>1. SafeCall(op[w]) /\ Tells(d.members)
    BY <1>1 DEF CalmInv, ClientSafe, ReplyFits, Take
  <2>2. SafeChange(c)
    BY <1>4, <2>1, ChangeIsSafe
  <2>3. change'[w] = c
    BY <1>4 DEF CalmInv
  <2> HIDE DEF c
  <2>4. OnlyOwn(w)
    BY <1>2, <1>4, UnchangedIsOwn
  <2>5. CASE op[w].kind = "pvid"
    <3>1. Exchange(w, "pvids", "pvids", NoChange, "none", NoSalt)
      BY <1>4, <2>5 DEF Read
    <3> QED BY <1>2, <2>2, <2>3, <2>4, <3>1, ExchangeKeepsInv DEF Waiting
  <2>6. CASE op[w].kind # "pvid"
    <3>1. scheme[w] \in {"auto", "v1", "v2"} /\ Authenticate(w, scheme[w], c)
      BY <1>4, <2>6 DEF CalmInv
    <3> QED BY <1>2, <2>2, <2>3, <2>4, <3>1, AuthenticateKeepsInv
  <2> QED BY <2>5, <2>6
<1> QED BY <1>2, <1>3, <1>4 DEF GetVlans

LEMMA GetPvidsKeepsInv ==
    ASSUME CalmInv, NEW w \in Writer, NEW d \in replies, GetPvids(w, d)
    PROVE  CalmInv' /\ UNCHANGED sw
<1>1. Take(w, "pvids", d)
  BY DEF GetPvids
<1>2. Quiet(w) /\ UNCHANGED sw
  BY <1>1, TakeIsQuiet
<1>3. CASE End(w, "failed")
  BY <1>2, <1>3, EndKeepsInv DEF Resting
<1>4. CASE Authenticate(w, scheme[w], change[w]) /\ UNCHANGED <<op, change, scheme>>
  <2>1. SafeChange(change[w]) /\ scheme[w] \in {"auto", "v1", "v2"}
    BY <1>1 DEF CalmInv, ClientSafe, Take
  <2>2. OnlyOwn(w)
    BY <1>2, <1>4, UnchangedIsOwn
  <2> QED BY <1>2, <1>4, <2>1, <2>2, AuthenticateKeepsInv
<1> QED BY <1>2, <1>3, <1>4 DEF GetPvids

LEMMA ResolveSchemeKeepsInv ==
    ASSUME CalmInv, NEW w \in Writer, NEW d \in replies, ResolveScheme(w, d)
    PROVE  CalmInv' /\ UNCHANGED sw
<1>1. Take(w, "encpass", d)
  BY DEF ResolveScheme
<1>2. Quiet(w) /\ UNCHANGED sw
  BY <1>1, TakeIsQuiet
<1>3. CASE End(w, "failed")
  BY <1>2, <1>3, EndKeepsInv DEF Resting
<1>4. CASE /\ scheme' = [scheme EXCEPT ![w] = SchemeOf(d)]
           /\ Authenticate(w, scheme'[w], change[w])
           /\ UNCHANGED <<op, change>>
  <2>1. SafeChange(change[w])
    BY <1>1 DEF CalmInv, ClientSafe, Take
  <2>2. SchemeOf(d) \in {"v1", "v2"}
    BY DEF SchemeOf
  <2>3. scheme'[w] \in {"auto", "v1", "v2"} /\ scheme' \in [Writer -> {"auto", "v1", "v2"}]
    BY <1>4, <2>2 DEF CalmInv
  <2>5. OnlyOwn(w)
    BY <1>2, <1>4, <2>3 DEF CalmInv, OnlyOwn
  <2> QED BY <1>2, <1>4, <2>1, <2>3, <2>5, AuthenticateKeepsInv
<1> QED BY <1>2, <1>3, <1>4 DEF ResolveScheme

LEMMA GetSaltKeepsInv ==
    ASSUME CalmInv, NEW w \in Writer, NEW d \in replies, GetSalt(w, d)
    PROVE  CalmInv' /\ UNCHANGED sw
<1>1. Take(w, "salt", d)
  BY DEF GetSalt
<1>2. Quiet(w) /\ UNCHANGED sw
  BY <1>1, TakeIsQuiet
<1>3. CASE End(w, "failed")
  BY <1>2, <1>3, EndKeepsInv DEF Resting
<1>4. CASE /\ Exchange(w, "write", "write", change[w], "v2", d.salt)
           /\ UNCHANGED <<op, change, scheme>>
  <2>1. SafeChange(change[w])
    BY <1>1 DEF CalmInv, ClientSafe, Take
  <2>2. OnlyOwn(w)
    BY <1>2, <1>4, UnchangedIsOwn
  <2> QED BY <1>2, <1>4, <2>1, <2>2, ExchangeKeepsInv DEF Waiting
<1> QED BY <1>2, <1>3, <1>4 DEF GetSalt

LEMMA WrittenKeepsInv ==
    ASSUME CalmInv, NEW w \in Writer, NEW d \in replies, Written(w, d)
    PROVE  CalmInv' /\ UNCHANGED sw
<1>1. Take(w, "write", d)
  BY DEF Written
<1>2. Quiet(w) /\ UNCHANGED sw
  BY <1>1, TakeIsQuiet
<1>3. d.is \in {"read", "denied", "written"}
  BY DEF CalmInv, ReplyFits
<1>4. CASE d.is \in {"read", "denied"}
  <2>1. End(w, "failed") \/ End(w, "denied")
    BY <1>4 DEF Written
  <2> QED BY <1>2, <2>1, EndKeepsInv DEF Resting
<1>5. CASE d.is = "written"
  <2>1. /\ Read(w, "after", IF op[w].kind = "pvid" THEN "pvids" ELSE "vlans")
        /\ UNCHANGED <<op, change, scheme>>
    BY <1>5 DEF Written
  <2>2. OnlyOwn(w)
    BY <1>2, <2>1, UnchangedIsOwn
  <2>3. PICK what \in {"pvids", "vlans"} : Exchange(w, "after", what, NoChange, "none", NoSalt)
    <3>1. /\ op[w].kind = "pvid" => Read(w, "after", "pvids")
          /\ op[w].kind # "pvid" => Read(w, "after", "vlans")
      BY <2>1
    <3> QED BY <3>1 DEF Read
  <2> QED BY <1>2, <2>2, <2>3, ExchangeKeepsInv DEF Waiting
<1> QED BY <1>3, <1>4, <1>5

LEMMA VerifyKeepsInv ==
    ASSUME CalmInv, NEW w \in Writer, NEW d \in replies, Verify(w, d)
    PROVE  CalmInv' /\ UNCHANGED sw
<1>1. Quiet(w) /\ UNCHANGED sw
  BY TakeIsQuiet DEF Verify
<1>2. \E how \in {"failed", "ok", "diverged"} : End(w, how)
  BY DEF Verify
<1> QED BY <1>1, <1>2, EndKeepsInv DEF Resting

\* A client that gives up and leaves nothing behind has nothing under way.
LEMMA GiveUpKeepsInv ==
    ASSUME CalmInv, stray \in Nat, Calm, Calm', NEW w \in Writer, GiveUp(w)
    PROVE  CalmInv' /\ UNCHANGED sw
<1>1. \A d \in requests \cup replies : ~(d.client = w /\ d.seq = seq[w])
  BY DEF GiveUp, Calm
<1>2. Quiet(w)
  BY <1>1 DEF GiveUp, CalmInv, RequestFits, ReplyFits, Fits, Quiet
<1> QED BY <1>2, EndKeepsInv DEF GiveUp, Resting

\* Losing datagrams on the way, or at a closed port.
LEMMA FewerDatagramsKeepInv ==
    ASSUME CalmInv, UNCHANGED <<sw, client>>,
           requests' \subseteq requests, replies' \subseteq replies
    PROVE  CalmInv'
<1>1. /\ \A c : SafeChange(c) => SafeChange(c)'
      /\ \A t : Tells(t) => Tells(t)'
  BY DEF SafeChange, Tells
<1>2. \A d \in requests' : RequestFits(d)'
  BY <1>1 DEF CalmInv, RequestFits, Fits, client
<1>3. \A d \in replies' : ReplyFits(d)'
  BY <1>1 DEF CalmInv, ReplyFits, Fits, client
<1>4. \A w \in Writer : ClientSafe(w)'
  BY <1>1 DEF CalmInv, ClientSafe, client
<1>5. OneDatagram'
  BY DEF CalmInv, OneDatagram
<1> QED BY <1>2, <1>3, <1>4, <1>5 DEF CalmInv, client

\* The answer to a datagram takes its place.
LEMMA AnswerKeepsInv ==
    ASSUME CalmInv, UNCHANGED client, Shaped(sw'), KeepsBits, NEW d \in requests, NEW r,
           requests' = requests \ {d}, replies' = replies \cup {r} \/ replies' = replies,
           r.client = d.client, r.seq = d.seq, r.is \in {"read", "denied", "written"},
           d.what = "vlans" => r.members = sw.table
    PROVE  CalmInv'
<1>1. /\ \A c : SafeChange(c) => SafeChange(c)'
      /\ \A t : Tells(t) => Tells(t)'
  BY TruthKept
<1>2. ASSUME NEW e \in requests' PROVE RequestFits(e)'
  BY <1>1, <1>2 DEF CalmInv, RequestFits, Fits, client
<1>3. ASSUME NEW e \in replies' PROVE ReplyFits(e)'
  <2>1. CASE e \in replies
    BY <1>1, <2>1 DEF CalmInv, ReplyFits, Fits, client
  <2>2. CASE e = r
    <3>1. RequestFits(d)
      BY DEF CalmInv
    <3>2. Fits(e)'
      BY <2>2, <3>1 DEF RequestFits, Fits, client
    <3>3. Tells(sw.table)
      BY DEF Tells, SameBits
    <3>4. pc'[e.client] = "before" => Tells(e.members)'
      BY <1>1, <2>2, <3>1, <3>3 DEF RequestFits, client
    <3> QED BY <2>2, <3>2, <3>4 DEF ReplyFits
  <2> QED BY <1>3, <2>1, <2>2
<1>4. \A w \in Writer : ClientSafe(w)'
  BY <1>1 DEF CalmInv, ClientSafe, client
<1>5. OneDatagram'
  BY DEF CalmInv, OneDatagram
<1> QED BY <1>2, <1>3, <1>4, <1>5 DEF CalmInv, client

LEMMA ServeKeepsInv ==
    ASSUME CalmInv, Serve
    PROVE  CalmInv' /\ KeepsBits
<1>1. PICK d \in requests : (ServeRead(d) \/ ServeWrite(d)) /\ requests' = requests \ {d}
  BY DEF Serve
<1>2. UNCHANGED client
  BY DEF Serve
<1>3. \A is : /\ Reply(d, is).client = d.client /\ Reply(d, is).seq = d.seq
              /\ Reply(d, is).is = is
              /\ d.what = "vlans" => Reply(d, is).members = sw.table
  BY DEF Reply
<1>4. CASE ServeRead(d)
  <2>1. sw'.table = sw.table /\ sw'.pvid = sw.pvid /\ Shaped(sw')
    BY <1>4 DEF ServeRead, CalmInv, Shaped
  <2>2. KeepsBits
    BY <2>1 DEF KeepsBits, SameBits
  <2>3. replies' = replies \cup {Reply(d, "read")}
    BY <1>4 DEF ServeRead
  <2> QED BY <1>1, <1>2, <1>3, <2>1, <2>2, <2>3, AnswerKeepsInv
<1>5. CASE ServeWrite(d)
  <2>1. d.what = "write" /\ SafeChange(d.change)
    BY <1>5 DEF ServeWrite, CalmInv, RequestFits
  <2>2. \/ /\ sw' = sw
           /\ replies' = replies
        \/ /\ sw' = [Apply(sw, d.change) EXCEPT !.failures = 0]
           /\ replies' = replies \cup {Reply(d, "written")}
        \/ /\ sw' = [sw EXCEPT !.failures = IF sw.auth = "v2" THEN @ + 1 ELSE @]
           /\ replies' = replies \cup {Reply(d, "denied")}
    BY <1>5 DEF ServeWrite
  <2>3. Shaped(sw') /\ KeepsBits
    <3>1. CASE sw' = sw
      BY <3>1 DEF CalmInv, KeepsBits, SameBits
    <3>2. CASE sw' = [Apply(sw, d.change) EXCEPT !.failures = 0]
      BY <2>1, <3>2, SafeChangeKeepsBits DEF CalmInv
    <3>3. CASE sw' = [sw EXCEPT !.failures = IF sw.auth = "v2" THEN @ + 1 ELSE @]
      <4>1. sw'.table = sw.table /\ sw'.pvid = sw.pvid /\ Shaped(sw')
        BY <3>3 DEF CalmInv, Shaped
      <4> QED BY <4>1 DEF KeepsBits, SameBits
    <3> QED BY <2>2, <3>1, <3>2, <3>3
  <2>4. PICK r : /\ replies' = replies \cup {r} \/ replies' = replies
                 /\ r.client = d.client /\ r.seq = d.seq
                 /\ r.is \in {"read", "denied", "written"}
                 /\ d.what = "vlans" => r.members = sw.table
    <3>1. PICK is \in {"denied", "written"} :
            replies' = replies \cup {Reply(d, is)} \/ replies' = replies
      BY <2>2
    <3>2. WITNESS Reply(d, is)
    <3> QED BY <1>3, <3>1
  <2> HIDE DEF Serve
  <2> QED BY <1>1, <1>2, <2>3, <2>4, AnswerKeepsInv
<1> QED BY <1>1, <1>4, <1>5

-----------------------------------------------------------------------------
(***************************************************************************)
(* The inductive invariant, and what follows from it.                      *)
(***************************************************************************)
LEMMA InitInv == Init => Inv
<1> SUFFICES ASSUME Init PROVE Inv
  OBVIOUS
<1>1. Shaped(sw)
  BY DEF Init, Shaped
<1>2. scheme \in [Writer -> {"auto", "v1", "v2"}]
  BY DEF Init
<1>3. \A w \in Writer : ClientSafe(w)
  BY DEF Init, ClientSafe
<1>4. stray \in Nat /\ forced \in BOOLEAN
  BY DEF Init
<1>5. /\ OneDatagram
      /\ \A d \in requests : RequestFits(d)
      /\ \A d \in replies : ReplyFits(d)
  BY DEF Init, OneDatagram
<1>6. DOMAIN pc = Writer /\ DOMAIN op = Writer /\ DOMAIN change = Writer /\ DOMAIN seq = Writer
  BY DEF Init
<1> QED BY <1>1, <1>2, <1>3, <1>4, <1>5, <1>6 DEF Inv, CalmInv

LEMMA StepTakes ==
    ASSUME NEW w, Step(w)
    PROVE  GiveUp(w) \/ \E d \in replies, at \in Waiting : Take(w, at, d)
<1>1. ASSUME NEW d \in replies,
             \/ GetVlans(w, d) \/ GetPvids(w, d) \/ ResolveScheme(w, d)
             \/ GetSalt(w, d) \/ Written(w, d) \/ Verify(w, d)
      PROVE  \E at \in Waiting : Take(w, at, d)
  <2>1. \/ Take(w, "before", d) \/ Take(w, "pvids", d) \/ Take(w, "encpass", d)
        \/ Take(w, "salt", d) \/ Take(w, "write", d) \/ Take(w, "after", d)
    BY <1>1 DEF GetVlans, GetPvids, ResolveScheme, GetSalt, Written, Verify
  <2> QED BY <2>1 DEF Waiting
<1> QED BY <1>1 DEF Step

\* Strays and forced calls are never taken back.
LEMMA CalmBefore ==
    ASSUME stray \in Nat, forced \in BOOLEAN, Next
    PROVE  stray' \in Nat /\ forced' \in BOOLEAN /\ (Calm' => Calm)
<1>1. ASSUME NEW w \in Writer, Invoke(w)
      PROVE  stray' = stray /\ forced' \in BOOLEAN /\ (forced => forced')
  <2>1. PICK o \in Calls : forced' = (forced \/ o.force)
    BY <1>1 DEF Invoke
  <2>2. o.force \in BOOLEAN
    BY NsdpAssumption DEF Calls
  <2>3. stray' = stray
    BY <1>1 DEF Invoke
  <2>4. forced' \in BOOLEAN /\ (forced => forced')
    BY <2>1, <2>2, Zenon
  <2> QED BY <2>3, <2>4
<1>2. ASSUME NEW w \in Writer, Step(w)
      PROVE  stray' \in Nat /\ (stray' = 0 => stray = 0) /\ forced' = forced
  <2>1. CASE GiveUp(w)
    BY <2>1 DEF GiveUp
  <2>2. CASE \E d \in replies, at \in Waiting : Take(w, at, d)
    BY <2>2 DEF Take
  <2> QED BY <1>2, <2>1, <2>2, StepTakes
<1>3. ASSUME Serve \/ Lose \/ Duplicate \/ Discard
      PROVE  stray' \in Nat /\ (stray' = 0 => stray = 0) /\ forced' = forced
  BY <1>3 DEF Serve, Lose, Duplicate, Discard
<1> QED BY <1>1, <1>2, <1>3 DEF Next, Calm

LEMMA StepKeepsInv ==
    ASSUME Inv, Next, Calm'
    PROVE  CalmInv' /\ KeepsBits
<1>1. stray \in Nat /\ forced \in BOOLEAN /\ Calm /\ CalmInv
  BY CalmBefore DEF Inv
<1>2. UNCHANGED sw => KeepsBits
  BY DEF KeepsBits, SameBits
<1>3. ASSUME NEW w \in Writer, Invoke(w) PROVE CalmInv' /\ UNCHANGED sw
  BY <1>1, <1>3, InvokeKeepsInv
<1>4. ASSUME NEW w \in Writer, Step(w) PROVE CalmInv' /\ UNCHANGED sw
  <2>1. CASE GiveUp(w)
    BY <1>1, <2>1, GiveUpKeepsInv
  <2>2. ASSUME NEW d \in replies,
               \/ GetVlans(w, d) \/ GetPvids(w, d) \/ ResolveScheme(w, d)
               \/ GetSalt(w, d) \/ Written(w, d) \/ Verify(w, d)
        PROVE  CalmInv' /\ UNCHANGED sw
    BY <1>1, <2>2, GetVlansKeepsInv, GetPvidsKeepsInv, ResolveSchemeKeepsInv,
       GetSaltKeepsInv, WrittenKeepsInv, VerifyKeepsInv
  <2> QED BY <1>4, <2>1, <2>2 DEF Step
<1>5. CASE Serve
  BY <1>1, <1>5, ServeKeepsInv
<1>6. CASE Lose \/ Discard
  <2>1. UNCHANGED <<sw, client>> /\ requests' \subseteq requests /\ replies' \subseteq replies
    BY <1>6 DEF Lose, Discard
  <2> QED BY <1>1, <1>2, <2>1, FewerDatagramsKeepInv
<1>7. CASE Duplicate
  BY <1>1, <1>7 DEF Duplicate, Calm
<1> QED BY <1>2, <1>3, <1>4, <1>5, <1>6, <1>7 DEF Next

LEMMA StutterKeepsInv ==
    ASSUME Inv, UNCHANGED vars
    PROVE  Inv' /\ KeepsBits
<1>1. UNCHANGED <<sw, requests, replies, client, forced, stray>>
  BY DEF vars
<1>2. CalmInv => CalmInv'
  BY <1>1, FewerDatagramsKeepInv
<1>3. KeepsBits
  BY <1>1 DEF KeepsBits, SameBits
<1> QED BY <1>1, <1>2, <1>3 DEF Inv, Calm

LEMMA InvIsInductive == Spec => []Inv
<1>1. Inv /\ Next => Inv'
  BY StepKeepsInv, CalmBefore DEF Inv
<1>2. Inv /\ UNCHANGED vars => Inv'
  BY StutterKeepsInv
<1>3. Inv /\ [Next]_vars => Inv'
  BY <1>1, <1>2
<1> QED BY InitInv, <1>3, PTL DEF Spec

\* Only the switch's own turn changes the switch.
LEMMA OnlyServeWrites ==
    ASSUME Next
    PROVE  Serve \/ UNCHANGED sw
<1>1. ASSUME NEW w \in Writer, Step(w) PROVE UNCHANGED sw
  BY <1>1, StepTakes DEF Take, GiveUp
<1> QED BY <1>1 DEF Next, Invoke, Lose, Duplicate, Discard

(***************************************************************************)
(* For any number of clients, ports, VLANs, calls and datagrams lost: a    *)
(* protected port keeps its VLANs, its tagging and its PVID while nobody   *)
(* passes force and no datagram is stray (nsdp_write.py _guard,            *)
(* _members_after).  Two clients that read a VLAN and write it back whole  *)
(* do undo each other's changes, but never to a protected port, whose bits *)
(* every list under way carries as they are.                               *)
(***************************************************************************)
THEOREM ProtectedPortsKept == Spec => ProtectedKept
<1> DEFINE Kept ==
      (~forced /\ stray = 0) => \A p \in Protected :
         /\ sw'.pvid[p] = sw.pvid[p]
         /\ \A v \in Vlan : /\ In(sw', p, v) <=> In(sw, p, v)
                            /\ Tagged(sw', p, v) <=> Tagged(sw, p, v)
<1>1. KeepsBits => Kept
  BY DEF KeepsBits, SameBits, In, Tagged
<1>2. ASSUME Inv, Next, Calm PROVE KeepsBits
  <2>1. CASE Serve
    BY <1>2, <2>1, ServeKeepsInv DEF Inv
  <2>2. CASE UNCHANGED sw
    BY <2>2 DEF KeepsBits, SameBits
  <2> QED BY <1>2, <2>1, <2>2, OnlyServeWrites
<1>3. Inv /\ UNCHANGED vars => KeepsBits
  BY StutterKeepsInv
<1>4. Calm \/ Kept
  BY DEF Calm
<1>5. Inv /\ [Next]_vars => Kept
  <2> HIDE DEF Kept
  <2> QED BY <1>1, <1>2, <1>3, <1>4
<1>6. Inv /\ [Next]_vars => [Kept]_vars
  BY <1>5
<1> QED BY <1>6, InvIsInductive, PTL DEF Spec, ProtectedKept

-----------------------------------------------------------------------------
(***************************************************************************)
(* Stray datagrams.  A datagram is known by its client, its sequence       *)
(* number and its copy; the current ones are of the exchange that their    *)
(* client is in.  With one stray in a behaviour a client has at most one   *)
(* datagram under way that is not what it waits for.                       *)
(***************************************************************************)
Key(d)     == <<d.client, d.seq, d.copy>>
Flying     == {Key(d) : d \in requests} \cup {Key(d) : d \in replies}
Current(k) == pc[k[1]] \in Waiting /\ k[2] = seq[k[1]]

OneEach ==
    /\ \A d, e \in requests : Key(d) = Key(e) => d = e
    /\ \A d, e \in replies : Key(d) = Key(e) => d = e
    /\ \A d \in requests, e \in replies : Key(d) # Key(e)

Numbered ==
    \A k \in Flying :
        k[1] \in Writer /\ k[2] \in Nat /\ k[2] <= seq[k[1]] /\ k[3] \in Nat /\ k[3] <= stray

FewStrays ==
    /\ \A k \in Flying : ~Current(k) => stray >= 1
    /\ \A k, l \in Flying : k[1] = l[1] /\ k # l => stray >= 1 /\ (Current(k) \/ Current(l))
    /\ \A k, l, m \in Flying : k[1] = l[1] /\ l[1] = m[1] => k = l \/ l = m \/ k = m

Typed ==
    /\ stray \in Nat
    /\ pc \in [Writer -> Resting \cup Waiting]
    /\ seq \in [Writer -> Nat]
    /\ DOMAIN op = Writer /\ DOMAIN change = Writer /\ DOMAIN held = Writer
    /\ scheme \in [Writer -> {"auto", "v1", "v2"}]
    /\ Shaped(sw) /\ sw.failures \in Nat /\ sw.auth \in {"v1", "v2"}

Formed ==
    /\ \A d \in requests :
         d = [client |-> d.client, seq |-> d.seq, copy |-> d.copy, what |-> d.what,
              change |-> d.change, auth |-> d.auth, token |-> d.token]
    /\ \A d \in replies :
         d = [client |-> d.client, seq |-> d.seq, copy |-> d.copy, is |-> d.is, model |-> d.model,
              members |-> d.members, pvids |-> d.pvids, scheme |-> d.scheme, salt |-> d.salt]

Ordered == Typed /\ Formed /\ OneEach /\ Numbered /\ FewStrays

\* The client w has at most one of the datagrams K, and none if there are no strays.
Spare(w, K) ==
    /\ K \subseteq Flying
    /\ \A k, l \in K : k[1] = w /\ l[1] = w => k = l /\ stray' >= 1

\* What is under way after the answer was taken and before the next is sent.
Rest(w) == {Key(d) : d \in requests} \cup {Key(d) : d \in replies'}

LEMMA TakeSpares ==
    ASSUME Ordered, NEW w \in Writer, NEW at \in Waiting, NEW d \in replies, Take(w, at, d)
    PROVE  /\ Spare(w, Rest(w)) /\ Key(d) \notin Rest(w) /\ stray' = stray
           /\ ~Current(Key(d)) =>
                stray >= 1 /\ \A k \in Rest(w) : k[1] = w => Current(k)
<1>1. replies' = replies \ {d} /\ d.client = w /\ pc[w] = at /\ stray' = stray
  BY DEF Take
<1>2. Rest(w) \subseteq Flying /\ Key(d) \in Flying /\ Key(d)[1] = w
  BY <1>1 DEF Rest, Flying, Key
<1>3. Key(d) \notin Rest(w)
  BY <1>1 DEF Rest, Ordered, OneEach
<1>4. ASSUME NEW k \in Rest(w), k[1] = w
      PROVE  stray >= 1 /\ (Current(Key(d)) \/ Current(k))
  BY <1>2, <1>3, <1>4 DEF Ordered, FewStrays
<1>5. ASSUME NEW k \in Rest(w), NEW l \in Rest(w), k[1] = w, l[1] = w
      PROVE  k = l
  BY <1>2, <1>3, <1>5 DEF Ordered, FewStrays
<1>6. ~Current(Key(d)) => stray >= 1
  BY <1>2 DEF Ordered, FewStrays
<1> QED BY <1>1, <1>2, <1>3, <1>4, <1>5, <1>6 DEF Spare

LEMMA RestingSpares ==
    ASSUME Ordered, NEW w \in Writer, pc[w] \notin Waiting, UNCHANGED <<stray, replies>>
    PROVE  Spare(w, Rest(w))
<1>1. Rest(w) = Flying
  BY DEF Rest, Flying
<1>2. ASSUME NEW k \in Flying, NEW l \in Flying, k[1] = w, l[1] = w
      PROVE  k = l /\ stray >= 1
  BY <1>2 DEF Ordered, FewStrays, Current
<1> QED BY <1>1, <1>2 DEF Spare

\* The other clients are where they were.
Apart(w) ==
    /\ UNCHANGED sw
    /\ DOMAIN op' = Writer /\ DOMAIN change' = Writer /\ DOMAIN held' = Writer
    /\ scheme' \in [Writer -> {"auto", "v1", "v2"}]
    /\ \A x \in Writer \ {w} :
         op'[x] = op[x] /\ change'[x] = change[x] /\ scheme'[x] = scheme[x] /\ held'[x] = held[x]
    /\ replies' \subseteq replies

LEMMA SendOrders ==
    ASSUME Ordered, NEW w \in Writer, NEW at \in Waiting, NEW what, NEW c, NEW auth, NEW token,
           Exchange(w, at, what, c, auth, token), Spare(w, Rest(w)), Apart(w), stray' = stray
    PROVE  /\ Ordered' /\ Rest(w) \subseteq Flying'
           /\ \A d \in requests' \ requests : Current(Key(d))'
           /\ \A k \in Rest(w) : k[1] = w => ~Current(k)'
           /\ \A k \in Rest(w) : k[1] # w => (Current(k)' <=> Current(k))
<1> DEFINE n == [client |-> w, seq |-> seq'[w], copy |-> 0, what |-> what,
                 change |-> c, auth |-> auth, token |-> token]
<1>1. /\ pc' = [pc EXCEPT ![w] = at] /\ seq' = [seq EXCEPT ![w] = @ + 1]
      /\ requests' = requests \cup {n}
  BY DEF Exchange
<1>2. n.client = w /\ n.seq = seq'[w] /\ n.copy = 0
  OBVIOUS
<1>3. n = [client |-> n.client, seq |-> n.seq, copy |-> n.copy, what |-> n.what,
            change |-> n.change, auth |-> n.auth, token |-> n.token]
  OBVIOUS
<1> HIDE DEF n
<1>4. /\ pc' \in [Writer -> Resting \cup Waiting] /\ seq' \in [Writer -> Nat]
      /\ pc'[w] = at /\ seq'[w] = seq[w] + 1 /\ seq[w] \in Nat
      /\ \A x \in Writer \ {w} : pc'[x] = pc[x] /\ seq'[x] = seq[x]
  BY <1>1 DEF Ordered, Typed
<1>5. PICK m : m = <<w, seq[w] + 1, 0>>
  OBVIOUS
<1>6. Key(n) = m
  BY <1>2, <1>4, <1>5 DEF Key
<1>7. Flying' = Rest(w) \cup {m}
  BY <1>1, <1>6 DEF Flying, Rest, Key
<1>8. \A k \in Rest(w) : k[1] \in Writer /\ k[2] \in Nat /\ k[2] <= seq[k[1]] /\ k[3] \in Nat /\ k[3] <= stray
  BY DEF Spare, Ordered, Numbered
<1>9. Typed'
  BY <1>4 DEF Ordered, Typed, Apart
<1>10. \A k \in Rest(w) : k[1] = w => ~Current(k)'
  BY <1>4, <1>8 DEF Current
<1>11. \A k \in Rest(w) : k[1] # w => (Current(k)' <=> Current(k))
  BY <1>4, <1>8 DEF Current
<1>12. Current(m)'
  BY <1>4, <1>5 DEF Current
<1>13. m \notin Rest(w)
  BY <1>4, <1>5, <1>8
<1>14. OneEach'
  <2>1. \A d \in requests : Key(d) \in Rest(w)
    BY DEF Rest
  <2>2. \A d \in replies' : Key(d) \in Rest(w) /\ d \in replies
    BY DEF Rest, Apart
  <2>3. \A d \in requests : Key(n) # Key(d)
    BY <1>6, <1>13, <2>1
  <2>4. \A d \in replies' : Key(n) # Key(d)
    BY <1>6, <1>13, <2>2
  <2> QED BY <1>1, <2>2, <2>3, <2>4 DEF Ordered, OneEach, Key
<1>15. Numbered'
  <2>1. ASSUME NEW k \in Rest(w)
        PROVE  k[1] \in Writer /\ k[2] \in Nat /\ k[2] <= seq'[k[1]] /\ k[3] \in Nat /\ k[3] <= stray'
    BY <1>4, <1>8
  <2>2. stray \in Nat
    BY DEF Ordered, Typed
  <2> QED BY <1>4, <1>5, <1>7, <2>1, <2>2 DEF Numbered
<1>16. FewStrays'
  <2>1. Rest(w) \subseteq Flying
    BY DEF Spare
  <2>2. \A k \in Flying' : ~Current(k)' => stray' >= 1
    <3>1. ASSUME NEW k \in Rest(w), ~Current(k)' PROVE stray' >= 1
      <4>1. CASE k[1] = w
        BY <4>1 DEF Spare
      <4>2. CASE k[1] # w
        BY <1>11, <2>1, <3>1, <4>2 DEF Ordered, FewStrays
      <4> QED BY <4>1, <4>2
    <3> QED BY <1>7, <1>12, <3>1
  <2>3. \A k, l \in Flying' : k[1] = l[1] /\ k # l => stray' >= 1 /\ (Current(k)' \/ Current(l)')
    <3>1. ASSUME NEW k \in Rest(w), NEW l \in Rest(w), k[1] = l[1], k # l
          PROVE  stray' >= 1 /\ (Current(k)' \/ Current(l)')
      <4>1. k[1] # w
        BY <3>1 DEF Spare
      <4>2. stray >= 1 /\ (Current(k) \/ Current(l))
        BY <2>1, <3>1 DEF Ordered, FewStrays
      <4> QED BY <1>11, <3>1, <4>1, <4>2
    <3>2. ASSUME NEW k \in Rest(w), k[1] = w PROVE stray' >= 1
      BY <3>2 DEF Spare
    <3>3. m[1] = w
      BY <1>5
    <3> QED BY <1>7, <1>12, <3>1, <3>2, <3>3
  <2>4. \A k, l, j \in Flying' : k[1] = l[1] /\ l[1] = j[1] => k = l \/ l = j \/ k = j
    <3>1. \A k, l, j \in Rest(w) : k[1] = l[1] /\ l[1] = j[1] => k = l \/ l = j \/ k = j
      BY <2>1 DEF Ordered, FewStrays
    <3>2. \A k, l \in Rest(w) : k[1] = w /\ l[1] = w => k = l
      BY DEF Spare
    <3>3. m[1] = w
      BY <1>5
    <3> QED BY <1>7, <3>1, <3>2, <3>3
  <2> QED BY <2>2, <2>3, <2>4 DEF FewStrays
<1>17. Formed'
  BY <1>1, <1>3 DEF Ordered, Formed, Apart
<1>18. \A d \in requests' \ requests : Current(Key(d))'
  <2>1. ASSUME NEW d \in requests', d \notin requests PROVE Current(Key(d))'
    <3>1. d = n
      BY <1>1, <2>1
    <3>2. d.client = w /\ d.seq = seq'[w]
      BY <1>2, <3>1
    <3> QED BY <1>4, <3>2 DEF Current, Key
  <2> QED BY <2>1
<1> QED BY <1>7, <1>9, <1>10, <1>11, <1>14, <1>15, <1>16, <1>17, <1>18 DEF Ordered

LEMMA EndOrders ==
    ASSUME Ordered, NEW w \in Writer, NEW how \in Resting, End(w, how), Spare(w, Rest(w)),
           Apart(w), stray' \in Nat, stray' >= stray
    PROVE  /\ Ordered' /\ Flying' = Rest(w)
           /\ \A k \in Rest(w) : k[1] = w => ~Current(k)'
           /\ \A k \in Rest(w) : k[1] # w => (Current(k)' <=> Current(k))
<1>1. pc' = [pc EXCEPT ![w] = how] /\ seq' = seq /\ requests' = requests
  BY DEF End
<1>2. how \notin Waiting
  BY DEF Resting, Waiting
<1>3. /\ pc' \in [Writer -> Resting \cup Waiting] /\ pc'[w] = how
      /\ \A x \in Writer \ {w} : pc'[x] = pc[x]
  BY <1>1 DEF Ordered, Typed
<1>4. Flying' = Rest(w)
  BY <1>1 DEF Flying, Rest, Key
<1>5. \A k \in Rest(w) : k[1] \in Writer /\ k[2] \in Nat /\ k[2] <= seq[k[1]] /\ k[3] \in Nat /\ k[3] <= stray
  BY DEF Spare, Ordered, Numbered
<1>6. Typed'
  BY <1>1, <1>3 DEF Ordered, Typed, Apart
<1>7. \A k \in Rest(w) : k[1] = w => ~Current(k)'
  BY <1>2, <1>3 DEF Current
<1>8. \A k \in Rest(w) : k[1] # w => (Current(k)' <=> Current(k))
  BY <1>1, <1>3, <1>5 DEF Current
<1>9. OneEach'
  <2>2. \A d \in replies' : d \in replies
    BY DEF Apart
  <2> QED BY <1>1, <2>2 DEF Ordered, OneEach, Key
<1>10. Numbered'
  <2>2. stray \in Nat
    BY DEF Ordered, Typed
  <2> QED BY <1>1, <1>4, <1>5, <2>2 DEF Numbered
<1>11. FewStrays'
  <2>1. Rest(w) \subseteq Flying /\ stray \in Nat
    BY DEF Spare, Ordered, Typed
  <2>2. ASSUME NEW k \in Rest(w), ~Current(k)' PROVE stray' >= 1
    <3>1. CASE k[1] = w
      BY <3>1 DEF Spare
    <3>2. CASE k[1] # w
      <4>1. stray >= 1
        BY <1>8, <2>1, <2>2, <3>2 DEF Ordered, FewStrays
      <4> QED BY <2>1, <4>1
    <3> QED BY <3>1, <3>2
  <2>3. ASSUME NEW k \in Rest(w), NEW l \in Rest(w), k[1] = l[1], k # l
        PROVE  stray' >= 1 /\ (Current(k)' \/ Current(l)')
    <3>1. k[1] # w
      BY <2>3 DEF Spare
    <3>2. stray >= 1 /\ (Current(k) \/ Current(l))
      BY <2>1, <2>3 DEF Ordered, FewStrays
    <3>3. stray' >= 1
      BY <2>1, <3>2
    <3> QED BY <1>8, <2>3, <3>1, <3>2, <3>3
  <2>4. \A k, l, m \in Rest(w) : k[1] = l[1] /\ l[1] = m[1] => k = l \/ l = m \/ k = m
    BY <2>1 DEF Ordered, FewStrays
  <2> QED BY <1>4, <2>2, <2>3, <2>4 DEF FewStrays
<1>12. Formed'
  BY <1>1 DEF Ordered, Formed, Apart
<1> QED BY <1>4, <1>6, <1>7, <1>8, <1>9, <1>10, <1>11, <1>12 DEF Ordered

\* The same datagrams or fewer, and nobody moves.
LEMMA FewerOrders ==
    ASSUME Ordered, Flying' \subseteq Flying, UNCHANGED <<client, stray>>, Typed', Formed', OneEach'
    PROVE  Ordered' /\ \A k : Current(k)' <=> Current(k)
<1>1. \A k : Current(k)' <=> Current(k)
  BY DEF Current, client
<1>2. Numbered'
  BY DEF Ordered, Numbered, client
<1>3. FewStrays'
  BY <1>1 DEF Ordered, FewStrays
<1> QED BY <1>1, <1>2, <1>3 DEF Ordered

LEMMA LossOrders ==
    ASSUME Ordered, requests' \subseteq requests, replies' \subseteq replies,
           UNCHANGED <<sw, client, held, stray>>
    PROVE  Ordered' /\ \A k : Current(k)' <=> Current(k)
<1>1. Flying' \subseteq Flying
  BY DEF Flying, Key
<1>2. Typed'
  BY DEF Ordered, Typed, client
<1>3. OneEach'
  BY DEF Ordered, OneEach, Key
<1>4. Formed'
  BY DEF Ordered, Formed
<1> QED BY <1>1, <1>2, <1>3, <1>4, FewerOrders

\* A datagram and its answer have one key.
LEMMA AnswerOrders ==
    ASSUME Ordered, NEW d \in requests, NEW r, Key(r) = Key(d), requests' = requests \ {d},
           replies' = replies \cup {r} \/ replies' = replies,
           UNCHANGED <<client, stray>>, Typed', Formed'
    PROVE  Ordered' /\ \A k : Current(k)' <=> Current(k)
<1>1. Flying' \subseteq Flying
  BY DEF Flying, Key
<1>2. OneEach'
  <2>1. \A e \in requests' : e \in requests /\ Key(e) # Key(d)
    BY DEF Ordered, OneEach
  <2>2. \A e \in replies : Key(e) # Key(d)
    BY DEF Ordered, OneEach
  <2>3. \A e \in replies' : e \in replies \/ e = r
    OBVIOUS
  <2> QED BY <2>1, <2>2, <2>3 DEF Ordered, OneEach, Key
<1> QED BY <1>1, <1>2, FewerOrders

\* The first duplicate.
LEMMA CopyOrders ==
    ASSUME Ordered, Duplicate, stray' <= 1
    PROVE  /\ Ordered' /\ stray = 0 /\ stray' = 1 /\ UNCHANGED <<sw, client, held>>
           /\ \A k : Current(k)' <=> Current(k)
           /\ \/ \E d \in requests : /\ requests' = requests \cup {[d EXCEPT !.copy = stray']}
                                     /\ UNCHANGED replies
              \/ \E d \in replies : /\ replies' = replies \cup {[d EXCEPT !.copy = stray']}
                                    /\ UNCHANGED requests
<1>1. /\ stray = 0 /\ stray' = 1 /\ UNCHANGED <<sw, client, held>>
      /\ \/ \E d \in requests : /\ requests' = requests \cup {[d EXCEPT !.copy = stray']}
                                /\ UNCHANGED replies
         \/ \E d \in replies : /\ replies' = replies \cup {[d EXCEPT !.copy = stray']}
                               /\ UNCHANGED requests
  BY DEF Duplicate, Ordered, Typed
<1>2. \A k : Current(k)' <=> Current(k)
  BY <1>1 DEF Current, client
<1>3. \A k \in Flying : /\ Current(k) /\ k[3] = 0 /\ k[1] \in Writer /\ k[2] \in Nat
                        /\ k[2] <= seq[k[1]]
  BY <1>1 DEF Ordered, FewStrays, Numbered
<1>4. \A k, l \in Flying : k[1] = l[1] => k = l
  BY <1>1 DEF Ordered, FewStrays
<1>5. Typed'
  BY <1>1 DEF Ordered, Typed, client
<1>6. PICK d \in requests \cup replies :
        \/ d \in requests /\ requests' = requests \cup {[d EXCEPT !.copy = stray']} /\ UNCHANGED replies
        \/ d \in replies /\ replies' = replies \cup {[d EXCEPT !.copy = stray']} /\ UNCHANGED requests
  BY <1>1
<1>7. PICK e : e = [d EXCEPT !.copy = stray']
  OBVIOUS
<1>8. Key(d) \in Flying
  BY <1>6 DEF Flying
<1>9. /\ e.client = d.client /\ e.seq = d.seq /\ e.copy = 1
      /\ \/ /\ requests' = requests \cup {e} /\ replies' = replies
            /\ e = [client |-> e.client, seq |-> e.seq, copy |-> e.copy, what |-> e.what,
                    change |-> e.change, auth |-> e.auth, token |-> e.token]
         \/ /\ replies' = replies \cup {e} /\ requests' = requests
            /\ e = [client |-> e.client, seq |-> e.seq, copy |-> e.copy, is |-> e.is,
                    model |-> e.model, members |-> e.members, pvids |-> e.pvids,
                    scheme |-> e.scheme, salt |-> e.salt]
  <2>1. CASE d \in requests /\ requests' = requests \cup {e} /\ replies' = replies
    <3>1. d = [client |-> d.client, seq |-> d.seq, copy |-> d.copy, what |-> d.what,
               change |-> d.change, auth |-> d.auth, token |-> d.token]
      BY <2>1 DEF Ordered, Formed
    <3> QED BY <1>1, <1>7, <2>1, <3>1
  <2>2. CASE d \in replies /\ replies' = replies \cup {e} /\ requests' = requests
    <3>1. d = [client |-> d.client, seq |-> d.seq, copy |-> d.copy, is |-> d.is, model |-> d.model,
               members |-> d.members, pvids |-> d.pvids, scheme |-> d.scheme, salt |-> d.salt]
      BY <2>2 DEF Ordered, Formed
    <3> QED BY <1>1, <1>7, <2>2, <3>1
  <2> QED BY <1>6, <1>7, <2>1, <2>2
<1>10. \/ requests' = requests \cup {e} /\ replies' = replies
       \/ replies' = replies \cup {e} /\ requests' = requests
  BY <1>6, <1>7
<1>11. Formed'
  <2>1. Formed
    BY DEF Ordered
  <2> QED BY <1>9, <2>1 DEF Formed
<1>12. Flying' = Flying \cup {Key(e)} /\ Key(e) \notin Flying
  <2>1. Key(e)[3] = 1
    BY <1>9 DEF Key
  <2>2. Key(e) \notin Flying
    BY <1>3, <2>1
  <2>3. \A f : Key(f)' = Key(f)
    BY DEF Key
  <2>4. Flying' = {Key(f) : f \in requests'} \cup {Key(f) : f \in replies'}
    BY DEF Flying, Key
  <2> QED BY <1>10, <2>2, <2>4 DEF Flying
<1>13. Key(e)[1] = Key(d)[1] /\ Key(e)[2] = Key(d)[2] /\ Key(e)[3] = 1 /\ Current(Key(e))
  BY <1>3, <1>8, <1>9 DEF Key, Current
<1>14. OneEach'
  <2>1. \A f \in requests \cup replies : Key(f) \in Flying
    BY DEF Flying
  <2>2. /\ \A f, g \in requests : Key(f) = Key(g) => f = g
        /\ \A f, g \in replies : Key(f) = Key(g) => f = g
        /\ \A f \in requests, g \in replies : Key(f) # Key(g)
    BY DEF Ordered, OneEach
  <2>3. \A f \in requests \cup replies : Key(f) # Key(e)
    BY <1>12, <2>1
  <2> QED BY <1>10, <2>2, <2>3 DEF OneEach, Key
<1>15. Numbered'
  <2>1. seq' = seq
    BY <1>1 DEF client
  <2> QED BY <1>1, <1>3, <1>8, <1>12, <1>13, <2>1 DEF Numbered
<1>16. FewStrays'
  <2>1. PICK n : n = Key(e)
    OBVIOUS
  <2>2. Flying' = Flying \cup {n} /\ n[1] = Key(d)[1]
    BY <1>12, <1>13, <2>1
  <2>3. \A k \in Flying : Current(k) /\ Current(k)'
    BY <1>2, <1>3
  <2>4. \A k, l, j \in Flying' : k[1] = l[1] /\ l[1] = j[1] => k = l \/ l = j \/ k = j
    BY <1>4, <2>2
  <2>5. Current(n)'
    BY <1>2, <1>13, <2>1
  <2> QED BY <1>1, <2>2, <2>3, <2>4, <2>5 DEF FewStrays
<1> QED BY <1>1, <1>2, <1>5, <1>11, <1>14, <1>15, <1>16 DEF Ordered

-----------------------------------------------------------------------------
(***************************************************************************)
(* What the datagrams and the clients carry.  The first group holds with   *)
(* one stray, the second, the Clean parts, with none.                      *)
(***************************************************************************)
Planning    == {"pvids", "encpass", "salt"}
Writable(c) == c.tag \in {"pvid", "members", "destroy"}

\* The change is the one that the call asks for.
Does(c, o) ==
    /\ c.vlan = o.vlan /\ c.port = o.port
    /\ c.tag = (CASE o.kind = "pvid" -> "pvid" [] o.kind = "delete" -> "destroy"
                  [] OTHER -> "members")
    /\ o.kind = "membership" =>
         IF o.mode = "excluded" THEN o.port \notin c.to.member
         ELSE o.port \in c.to.member /\ (o.port \in c.to.tagged <=> o.mode = "tagged")

Asks(at, kind) ==
    CASE at = "before" -> "vlans"
      [] at = "after"  -> IF kind = "pvid" THEN "pvids" ELSE "vlans"
      [] OTHER -> at

RequestSuits(d) ==
    /\ d.what = "write" => Writable(d.change)
    /\ Current(Key(d)) =>
         /\ d.what = Asks(pc[d.client], op[d.client].kind)
         /\ d.what = "write" => Does(d.change, op[d.client])

\* What a current reply shows to be so has been so since the call began.
ReplySuits(d) ==
    /\ d.is \in {"read", "denied", "written"}
    /\ Current(Key(d)) =>
         LET w == d.client IN
         /\ d.is = "read" <=> pc[w] # "write"
         /\ pc[w] \in {"before", "after"} /\ Effected(op[w], d.members, d.pvids) => held[w]
         /\ d.is = "written" => held[w]

\* A client that reads back a write which was not carried out was misled by
\* the one stray there may be, and has nothing else that could mislead it.
Doubts(w) ==
    pc[w] = "after" /\ ~held[w] =>
      /\ stray >= 1
      /\ \A d \in requests : d.client = w => Current(Key(d)) \/ d.what = "write"
      /\ \A d \in replies : d.client = w => Current(Key(d)) \/ d.is # "read"

ClientSuits(w) ==
    /\ pc[w] \in Waiting => op[w] \in Calls
    /\ pc[w] \in Planning => Does(change[w], op[w])
    /\ Doubts(w)
    /\ pc[w] = "ok" => held[w]
    /\ pc[w] = "present" /\ stray = 0 => held[w]

Suits ==
    /\ \A d \in requests : RequestSuits(d)
    /\ \A d \in replies : ReplySuits(d)
    /\ \A w \in Writer : ClientSuits(w)

\* A salt that only another client's reading one can have replaced.
FreshSalt(w, t) == sw.salt # NoSalt /\ (sw.salt[1] = w => sw.salt = t)

Alone == \A w, x \in Writer : Called(w) /\ Called(x) => w = x

\* The change moves no port but the one of the call.
Narrow(c, o) ==
    c.tag = "members" =>
      \A p \in Port : (o.kind = "membership" /\ p = o.port) \/ SameBits(c.to, Of(sw.table, c.vlan), p)

CleanRequest(d) ==
    d.what = "write" =>
      /\ d.auth = sw.auth
      /\ sw.auth = "v2" => FreshSalt(d.client, d.token)
      /\ Alone => Narrow(d.change, op[d.client])

CleanReply(d) ==
    /\ pc[d.client] = "encpass" => d.scheme = <<sw.auth>>
    /\ pc[d.client] = "salt" => FreshSalt(d.client, d.salt)
    /\ Alone /\ pc[d.client] = "before" => d.members = sw.table

CleanClient(w) ==
    /\ scheme[w] \in {"auto", sw.auth}
    /\ pc[w] = "salt" => sw.auth = "v2"
    /\ Alone /\ pc[w] \in Planning => Narrow(change[w], op[w])

Clean ==
    stray = 0 =>
      /\ \A d \in requests : CleanRequest(d)
      /\ \A d \in replies : CleanReply(d)
      /\ \A w \in Writer : CleanClient(w)

Told == Ordered /\ Suits /\ Clean

StrayInv == stray \in Nat /\ (stray <= 1 => Told)

-----------------------------------------------------------------------------
(***************************************************************************)
(* The change that a call asks for, and what it makes of the switch.       *)
(***************************************************************************)
LEMMA CallFields ==
    ASSUME NEW o \in Calls
    PROVE  /\ o.kind \in {"membership", "pvid", "create", "delete"}
           /\ o.vlan \in Vlan
           /\ o.kind = "pvid" => o.port \in Port
BY DEF Calls

LEMMA ChangeDoes ==
    ASSUME NEW o, NEW t
    PROVE  Does(ChangeFor(o, t), o)
<1> DEFINE c == ChangeFor(o, t)
           m == MembersAfter(Of(t, o.vlan), o.port, o.mode)
<1>1. /\ c.vlan = o.vlan /\ c.port = o.port
      /\ c.tag = (CASE o.kind = "pvid" -> "pvid" [] o.kind = "delete" -> "destroy"
                    [] OTHER -> "members")
      /\ o.kind = "membership" => c.to = m
  BY DEF ChangeFor
<1>2. IF o.mode = "excluded" THEN o.port \notin m.member
      ELSE o.port \in m.member /\ (o.port \in m.tagged <=> o.mode = "tagged")
  BY DEF MembersAfter
<1> HIDE DEF c, m
<1> QED BY <1>1, <1>2 DEF Does, c

LEMMA DoesWrites ==
    ASSUME NEW c, NEW o, Does(c, o)
    PROVE  Writable(c)
BY DEF Does, Writable

LEMMA ChangeNarrow ==
    ASSUME NEW o \in Calls, o.kind = "create" => o.vlan \notin DOMAIN sw.table
    PROVE  Narrow(ChangeFor(o, sw.table), o)
<1> DEFINE c == ChangeFor(o, sw.table)
           m == MembersAfter(Of(sw.table, o.vlan), o.port, o.mode)
<1>1. /\ c.vlan = o.vlan
      /\ o.kind = "pvid" => c.tag = "pvid"
      /\ o.kind = "delete" => c.tag = "destroy"
      /\ o.kind = "membership" => c.to = m
      /\ o.kind = "create" => c.to = NoMembers
  BY DEF ChangeFor
<1>2. \A p \in Port : p = o.port \/ SameBits(m, Of(sw.table, o.vlan), p)
  BY DEF MembersAfter, SameBits
<1>3. o.kind = "create" => Of(sw.table, o.vlan) = NoMembers
  BY DEF Of
<1> HIDE DEF c, m
<1> QED BY <1>1, <1>2, <1>3, CallFields DEF Narrow, SameBits, c

LEMMA Applied ==
    ASSUME Shaped(sw), NEW c, Writable(c), sw' = [Apply(sw, c) EXCEPT !.failures = 0]
    PROVE  /\ Shaped(sw') /\ sw'.auth = sw.auth /\ sw'.salt = sw.salt /\ sw'.failures = 0
           /\ c.tag = "pvid" => /\ sw'.table = sw.table
                                /\ c.port \in Port => sw'.pvid[c.port] = c.vlan
           /\ c.tag = "members" =>
                /\ DOMAIN sw'.table = DOMAIN sw.table \cup {c.vlan}
                /\ \A v : Of(sw'.table, v) = IF v = c.vlan THEN c.to ELSE Of(sw.table, v)
           /\ c.tag = "destroy" =>
                /\ DOMAIN sw'.table = DOMAIN sw.table \ {c.vlan}
                /\ \A v \in DOMAIN sw'.table : sw'.table[v] = sw.table[v]
<1>1. CASE c.tag = "pvid"
  <2>1. Apply(sw, c) = [sw EXCEPT !.pvid[c.port] = c.vlan]
    BY <1>1 DEF Apply
  <2> QED BY <1>1, <2>1 DEF Shaped
<1>2. CASE c.tag = "members"
  <2> DEFINE t == [v \in DOMAIN sw.table \cup {c.vlan} |->
                     IF v = c.vlan THEN c.to ELSE sw.table[v]]
  <2>1. Apply(sw, c) = [sw EXCEPT !.table = t]
    BY <1>2 DEF Apply
  <2>2. /\ DOMAIN t = DOMAIN sw.table \cup {c.vlan}
        /\ \A v : Of(t, v) = IF v = c.vlan THEN c.to ELSE Of(sw.table, v)
    BY DEF Of
  <2> HIDE DEF t
  <2>3. /\ sw'.table = t /\ sw'.pvid = sw.pvid /\ sw'.auth = sw.auth /\ sw'.salt = sw.salt
        /\ sw'.failures = 0
        /\ sw' = [table |-> sw'.table, pvid |-> sw'.pvid, auth |-> sw'.auth,
                  salt |-> sw'.salt, failures |-> sw'.failures]
    BY <2>1 DEF Shaped
  <2> QED BY <1>2, <2>2, <2>3 DEF Shaped
<1>3. CASE c.tag = "destroy"
  <2> DEFINE t == [v \in DOMAIN sw.table \ {c.vlan} |-> sw.table[v]]
             q == [p \in Port |-> IF c.vlan \in DOMAIN sw.table /\ sw.pvid[p] = c.vlan
                                  THEN DefaultVlan ELSE sw.pvid[p]]
  <2>1. Apply(sw, c) = [sw EXCEPT !.table = t, !.pvid = q]
    BY <1>3 DEF Apply
  <2>2. DOMAIN t = DOMAIN sw.table \ {c.vlan} /\ (\A v \in DOMAIN t : t[v] = sw.table[v]) /\ DOMAIN q = Port
    OBVIOUS
  <2> HIDE DEF t, q
  <2>3. /\ sw'.table = t /\ sw'.pvid = q /\ sw'.auth = sw.auth /\ sw'.salt = sw.salt
        /\ sw'.failures = 0
        /\ sw' = [table |-> sw'.table, pvid |-> sw'.pvid, auth |-> sw'.auth,
                  salt |-> sw'.salt, failures |-> sw'.failures]
    BY <2>1 DEF Shaped
  <2> QED BY <1>3, <2>2, <2>3 DEF Shaped
<1> QED BY <1>1, <1>2, <1>3 DEF Writable

\* Once the write is applied, what the call asks for is so.
LEMMA AppliedEffect ==
    ASSUME Shaped(sw), NEW c, NEW o \in Calls, Does(c, o),
           sw' = [Apply(sw, c) EXCEPT !.failures = 0]
    PROVE  Effected(o, sw'.table, sw'.pvid)
<1>1. Writable(c)
  BY DoesWrites
<1> HIDE DEF Writable
<1> DEFINE t == sw'.table
           q == sw'.pvid
<1>2. /\ DOMAIN q = Port
      /\ c.tag = "pvid" /\ c.port \in Port => q[c.port] = c.vlan
      /\ c.tag = "members" => c.vlan \in DOMAIN t /\ Of(t, c.vlan) = c.to
      /\ c.tag = "destroy" => c.vlan \notin DOMAIN t
  BY <1>1, Applied DEF Shaped
<1> HIDE DEF t, q
<1>3. o.kind \in {"membership", "pvid", "create", "delete"} /\ (o.kind = "pvid" => o.port \in Port)
  BY CallFields
<1>4. Effected(o, t, q)
  <2>1. CASE o.kind = "membership"
    BY <1>2, <2>1 DEF Does, Effected
  <2>2. CASE o.kind = "pvid"
    BY <1>2, <1>3, <2>2 DEF Does, Effected
  <2>3. CASE o.kind = "create"
    BY <1>2, <2>3 DEF Does, Effected
  <2>4. CASE o.kind = "delete"
    BY <1>2, <2>4 DEF Does, Effected
  <2> QED BY <1>3, <2>1, <2>2, <2>3, <2>4
<1> QED BY <1>4 DEF t, q

-----------------------------------------------------------------------------
(***************************************************************************)
(* A client sends, or ends its call.                                       *)
(***************************************************************************)
Proper(w, at, what, c, auth, token) ==
    /\ op'[w] \in Calls
    /\ what = Asks(at, op'[w].kind)
    /\ what = "write" => Does(c, op'[w])
    /\ at \in Planning => Does(change'[w], op'[w])
    /\ at = "after" /\ ~held'[w] =>
         /\ stray >= 1
         /\ \A d \in requests : d.client = w => d.what = "write"
         /\ \A d \in replies' : d.client = w => d.is # "read"
    /\ stray = 0 =>
         /\ scheme'[w] \in {"auto", sw.auth}
         /\ at = "salt" => sw.auth = "v2"
         /\ what = "write" => auth = sw.auth /\ (sw.auth = "v2" => FreshSalt(w, token))
         /\ Alone' /\ at \in Planning => Narrow(change'[w], op'[w])
         /\ Alone' /\ what = "write" => Narrow(c, op'[w])

LEMMA SendKeeps ==
    ASSUME Told, NEW w \in Writer, NEW at \in Waiting, NEW what, NEW c, NEW auth, NEW token,
           Exchange(w, at, what, c, auth, token), Spare(w, Rest(w)), Apart(w), stray' = stray,
           Proper(w, at, what, c, auth, token)
    PROVE  Told'
<1>1. /\ Ordered' /\ Rest(w) \subseteq Flying'
      /\ \A d \in requests' \ requests : Current(Key(d))'
      /\ \A k \in Rest(w) : k[1] = w => ~Current(k)'
      /\ \A k \in Rest(w) : k[1] # w => (Current(k)' <=> Current(k))
  BY SendOrders DEF Told
<1> DEFINE n == [client |-> w, seq |-> seq'[w], copy |-> 0, what |-> what,
                 change |-> c, auth |-> auth, token |-> token]
<1>2. /\ pc' = [pc EXCEPT ![w] = at] /\ requests' = requests \cup {n}
  BY DEF Exchange
<1>3. n.client = w /\ n.what = what /\ n.change = c /\ n.auth = auth /\ n.token = token
  OBVIOUS
<1> HIDE DEF n
<1>4. /\ pc'[w] = at /\ pc' \in [Writer -> Resting \cup Waiting]
      /\ \A x \in Writer \ {w} : pc'[x] = pc[x] /\ op'[x] = op[x] /\ change'[x] = change[x]
                                /\ scheme'[x] = scheme[x] /\ held'[x] = held[x]
      /\ sw' = sw /\ \A d \in replies' : d \in replies
  BY <1>2 DEF Told, Ordered, Typed, Apart
<1>5. /\ \A d \in requests : Key(d) \in Rest(w) /\ Key(d)[1] = d.client /\ d.client \in Writer
      /\ \A d \in replies' : Key(d) \in Rest(w) /\ Key(d)[1] = d.client /\ d.client \in Writer
  <2>1. \A k \in Rest(w) : k[1] \in Writer
    BY DEF Spare, Told, Ordered, Numbered
  <2>2. \A d : Key(d)[1] = d.client
    BY DEF Key
  <2>3. /\ \A d \in requests : Key(d) \in Rest(w)
        /\ \A d \in replies' : Key(d) \in Rest(w)
    BY DEF Rest
  <2> QED BY <2>1, <2>2, <2>3
<1>6. Suits'
  <2>1. ASSUME NEW d \in requests' PROVE RequestSuits(d)'
    <3>1. CASE d = n
      <4>1. what = "write" => Writable(c)
        BY DoesWrites DEF Proper
      <4> QED BY <1>3, <1>4, <3>1, <4>1 DEF RequestSuits, Proper, Writable
    <3>2. CASE d \in requests
      <4>1. RequestSuits(d)
        BY <3>2 DEF Told, Suits
      <4>2. CASE d.client = w
        BY <1>1, <1>5, <3>2, <4>1, <4>2 DEF RequestSuits, Key, Writable
      <4>3. CASE d.client # w
        <5>1. Current(Key(d))' <=> Current(Key(d))
          BY <1>1, <1>5, <3>2, <4>3
        <5> QED BY <1>4, <1>5, <3>2, <4>1, <4>3, <5>1 DEF RequestSuits, Key, Writable
      <4> QED BY <4>2, <4>3
    <3> QED BY <1>2, <3>1, <3>2
  <2>2. ASSUME NEW d \in replies' PROVE ReplySuits(d)'
    <3>1. ReplySuits(d)
      BY <1>4, <2>2 DEF Told, Suits
    <3>2. CASE d.client = w
      BY <1>1, <1>5, <2>2, <3>1, <3>2 DEF ReplySuits, Key
    <3>3. CASE d.client # w
      <4>1. Current(Key(d))' <=> Current(Key(d))
        BY <1>1, <1>5, <2>2, <3>3
      <4> QED BY <1>4, <1>5, <2>2, <3>1, <3>3, <4>1 DEF ReplySuits, Key
    <3> QED BY <3>2, <3>3
  <2>3. ASSUME NEW x \in Writer PROVE ClientSuits(x)'
    <3>1. CASE x = w
      <4>1. Doubts(w)'
        <5>1. ASSUME (pc[w] = "after" /\ ~held[w])' PROVE stray' >= 1
          BY <1>4, <5>1 DEF Proper
        <5>2. ASSUME (pc[w] = "after" /\ ~held[w])', NEW d \in requests', d.client = w
              PROVE  Current(Key(d))' \/ d.what = "write"
          <6>1. CASE d \in requests
            BY <1>4, <5>2, <6>1 DEF Proper
          <6> QED BY <1>1, <5>2, <6>1
        <5>3. ASSUME (pc[w] = "after" /\ ~held[w])', NEW d \in replies', d.client = w
              PROVE  Current(Key(d))' \/ d.is # "read"
          BY <1>4, <5>3 DEF Proper
        <5> QED BY <5>1, <5>2, <5>3 DEF Doubts
      <4> QED BY <1>4, <3>1, <4>1 DEF ClientSuits, Proper, Waiting
    <3>2. CASE x # w
      <4>1. ClientSuits(x)
        BY DEF Told, Suits
      <4>2. Doubts(x)'
        <5>1. ASSUME pc[x] = "after" /\ ~held[x] PROVE
                /\ stray' >= 1
                /\ \A d \in requests' : d.client = x => Current(Key(d))' \/ d.what = "write"
                /\ \A d \in replies' : d.client = x => Current(Key(d))' \/ d.is # "read"
          BY <1>1, <1>2, <1>3, <1>4, <1>5, <3>2, <4>1, <5>1 DEF ClientSuits, Doubts
        <5> QED BY <1>4, <3>2, <5>1 DEF Doubts, Key
      <4> QED BY <1>4, <3>2, <4>1, <4>2 DEF ClientSuits
    <3> QED BY <3>1, <3>2
  <2> QED BY <2>1, <2>2, <2>3 DEF Suits
<1>7. Clean'
  <2> SUFFICES ASSUME stray' = 0
               PROVE  /\ \A d \in requests' : CleanRequest(d)'
                      /\ \A d \in replies' : CleanReply(d)'
                      /\ \A x \in Writer : CleanClient(x)'
    BY DEF Clean
  <2>1. /\ \A d \in requests : CleanRequest(d) /\ d.client # w
        /\ \A d \in replies' : CleanReply(d) /\ d.client # w
        /\ \A x \in Writer : CleanClient(x)
    <3>1. \A k \in Rest(w) : Current(k)'
      BY <1>1 DEF Ordered, FewStrays
    <3> QED BY <1>1, <1>4, <1>5, <3>1 DEF Told, Clean
  <2>2. Alone' => Alone
    BY <1>4 DEF Alone, Called, Waiting
  <2>3. ASSUME NEW d \in requests' PROVE CleanRequest(d)'
    <3>1. CASE d = n
      BY <1>3, <1>4, <3>1 DEF CleanRequest, Proper, FreshSalt, Narrow
    <3>2. CASE d \in requests
      <4>1. CleanRequest(d) /\ d.client \in Writer \ {w}
        BY <1>5, <2>1, <3>2
      <4> QED BY <1>4, <2>2, <4>1 DEF CleanRequest, FreshSalt, Narrow
    <3> QED BY <1>2, <3>1, <3>2
  <2>4. ASSUME NEW d \in replies' PROVE CleanReply(d)'
    <3>1. CleanReply(d) /\ d.client \in Writer \ {w}
      BY <1>5, <2>1
    <3> QED BY <1>4, <2>2, <3>1 DEF CleanReply, FreshSalt
  <2>5. ASSUME NEW x \in Writer PROVE CleanClient(x)'
    <3>1. CASE x = w
      BY <1>4, <3>1 DEF CleanClient, Proper, Narrow
    <3>2. CASE x # w
      BY <1>4, <2>1, <2>2, <3>2 DEF CleanClient, Narrow
    <3> QED BY <3>1, <3>2
  <2> QED BY <2>3, <2>4, <2>5
<1> QED BY <1>1, <1>6, <1>7 DEF Told

LEMMA EndKeeps ==
    ASSUME Told, NEW w \in Writer, NEW how \in Resting \ {"idle"}, End(w, how),
           Spare(w, Rest(w)), Apart(w), stray' \in Nat, stray' >= stray,
           how = "ok" => held'[w], how = "present" /\ stray' = 0 => held'[w]
    PROVE  Told'
<1>1. /\ Ordered' /\ Flying' = Rest(w)
      /\ \A k \in Rest(w) : k[1] = w => ~Current(k)'
      /\ \A k \in Rest(w) : k[1] # w => (Current(k)' <=> Current(k))
  BY EndOrders DEF Told
<1>2. pc' = [pc EXCEPT ![w] = how] /\ requests' = requests /\ scheme' = scheme /\ how \notin Waiting
  BY DEF End, Resting, Waiting
<1>3. /\ pc'[w] = how /\ pc' \in [Writer -> Resting \cup Waiting] /\ stray \in Nat
      /\ \A x \in Writer \ {w} : pc'[x] = pc[x] /\ op'[x] = op[x] /\ change'[x] = change[x]
                                /\ scheme'[x] = scheme[x] /\ held'[x] = held[x]
      /\ sw' = sw /\ \A d \in replies' : d \in replies
  BY <1>2 DEF Told, Ordered, Typed, Apart
<1>4. /\ \A d \in requests : Key(d) \in Rest(w) /\ Key(d)[1] = d.client /\ d.client \in Writer
      /\ \A d \in replies' : Key(d) \in Rest(w) /\ Key(d)[1] = d.client /\ d.client \in Writer
  <2>1. \A k \in Rest(w) : k[1] \in Writer
    BY DEF Spare, Told, Ordered, Numbered
  <2>2. \A d : Key(d)[1] = d.client
    BY DEF Key
  <2>3. /\ \A d \in requests : Key(d) \in Rest(w)
        /\ \A d \in replies' : Key(d) \in Rest(w)
    BY DEF Rest
  <2> QED BY <2>1, <2>2, <2>3
<1>5. Suits'
  <2>1. ASSUME NEW d \in requests' PROVE RequestSuits(d)'
    <3>1. RequestSuits(d)
      BY <1>2, <2>1 DEF Told, Suits
    <3>2. CASE d.client = w
      BY <1>1, <1>2, <1>4, <2>1, <3>1, <3>2 DEF RequestSuits, Key, Writable
    <3>3. CASE d.client # w
      <4>1. Current(Key(d))' <=> Current(Key(d))
        BY <1>1, <1>2, <1>4, <2>1, <3>3
      <4> QED BY <1>2, <1>3, <1>4, <2>1, <3>1, <3>3, <4>1 DEF RequestSuits, Key, Writable
    <3> QED BY <3>2, <3>3
  <2>2. ASSUME NEW d \in replies' PROVE ReplySuits(d)'
    <3>1. ReplySuits(d)
      BY <1>3, <2>2 DEF Told, Suits
    <3>2. CASE d.client = w
      BY <1>1, <1>4, <2>2, <3>1, <3>2 DEF ReplySuits, Key
    <3>3. CASE d.client # w
      <4>1. Current(Key(d))' <=> Current(Key(d))
        BY <1>1, <1>4, <2>2, <3>3
      <4> QED BY <1>3, <1>4, <2>2, <3>1, <3>3, <4>1 DEF ReplySuits, Key
    <3> QED BY <3>2, <3>3
  <2>3. ASSUME NEW x \in Writer PROVE ClientSuits(x)'
    <3>1. CASE x = w
      BY <1>2, <1>3, <3>1 DEF ClientSuits, Doubts, Waiting, Planning
    <3>2. CASE x # w
      <4>1. ClientSuits(x)
        BY DEF Told, Suits
      <4>2. Doubts(x)'
        <5>1. ASSUME pc[x] = "after" /\ ~held[x]
              PROVE  /\ stray' >= 1
                     /\ \A d \in requests' : d.client = x => Current(Key(d))' \/ d.what = "write"
                     /\ \A d \in replies' : d.client = x => Current(Key(d))' \/ d.is # "read"
          <6>1. Doubts(x)
            BY <4>1 DEF ClientSuits
          <6>2. stray' >= 1
            BY <1>3, <5>1, <6>1 DEF Doubts
          <6> QED BY <1>1, <1>2, <1>3, <1>4, <3>2, <5>1, <6>1, <6>2 DEF Doubts
        <5> QED BY <1>3, <3>2, <5>1 DEF Doubts, Key
      <4>3. stray' = 0 => stray = 0
        BY <1>3
      <4> QED BY <1>3, <3>2, <4>1, <4>2, <4>3 DEF ClientSuits
    <3> QED BY <3>1, <3>2
  <2> QED BY <2>1, <2>2, <2>3 DEF Suits
<1>6. Clean'
  <2> SUFFICES ASSUME stray' = 0
               PROVE  /\ \A d \in requests' : CleanRequest(d)'
                      /\ \A d \in replies' : CleanReply(d)'
                      /\ \A x \in Writer : CleanClient(x)'
    BY DEF Clean
  <2>1. /\ \A d \in requests : CleanRequest(d) /\ d.client # w
        /\ \A d \in replies' : CleanReply(d) /\ d.client # w
        /\ \A x \in Writer : CleanClient(x)
    <3>1. \A k \in Rest(w) : Current(k)'
      BY <1>1 DEF Ordered, FewStrays
    <3>2. stray = 0
      BY <1>3
    <3> QED BY <1>1, <1>3, <1>4, <3>1, <3>2 DEF Told, Clean
  <2>2. Alone' => Alone
    BY <1>3 DEF Alone, Called
  <2>3. ASSUME NEW d \in requests' PROVE CleanRequest(d)'
    <3>1. CleanRequest(d) /\ d.client \in Writer \ {w}
      BY <1>2, <1>4, <2>1, <2>3
    <3> QED BY <1>3, <2>2, <3>1 DEF CleanRequest, FreshSalt, Narrow
  <2>4. ASSUME NEW d \in replies' PROVE CleanReply(d)'
    <3>1. CleanReply(d) /\ d.client \in Writer \ {w}
      BY <1>4, <2>1, <2>4
    <3> QED BY <1>3, <2>2, <3>1 DEF CleanReply, FreshSalt
  <2>5. ASSUME NEW x \in Writer PROVE CleanClient(x)'
    <3>1. CASE x = w
      BY <1>2, <1>3, <2>1, <3>1 DEF CleanClient, Planning, Waiting
    <3>2. CASE x # w
      BY <1>3, <2>1, <2>2, <3>2 DEF CleanClient, Narrow
    <3> QED BY <3>1, <3>2
  <2> QED BY <2>3, <2>4, <2>5
<1> QED BY <1>1, <1>5, <1>6 DEF Told

-----------------------------------------------------------------------------
(***************************************************************************)
(* The steps of a client.                                                  *)
(***************************************************************************)
\* What a client may take for its answer, and what is left of its datagrams.
LEMMA Taken ==
    ASSUME Told, stray <= 1, NEW w \in Writer, NEW at \in Waiting, NEW d \in replies, Take(w, at, d)
    PROVE  /\ Spare(w, Rest(w)) /\ UNCHANGED <<sw, stray, held>> /\ replies' \subseteq replies
           /\ pc[w] = at /\ d.client = w /\ op[w] \in Calls /\ d.is \in {"read", "denied", "written"}
           /\ at \in Planning => Does(change[w], op[w])
           /\ Current(Key(d)) =>
                /\ d.is = "read" <=> at # "write"
                /\ at \in {"before", "after"} /\ Effected(op[w], d.members, d.pvids) => held[w]
                /\ d.is = "written" => held[w]
           /\ ~Current(Key(d)) =>
                /\ stray >= 1
                /\ \A e \in requests : e.client = w => e.what = Asks(at, op[w].kind)
                /\ \A e \in replies' : e.client = w => (e.is = "read" <=> at # "write")
           /\ stray = 0 =>
                /\ CleanReply(d) /\ CleanClient(w)
                /\ Current(Key(d))
<1>1. /\ Spare(w, Rest(w)) /\ Key(d) \notin Rest(w) /\ stray' = stray
      /\ ~Current(Key(d)) => stray >= 1 /\ \A k \in Rest(w) : k[1] = w => Current(k)
  BY TakeSpares DEF Told
<1>2. /\ pc[w] = at /\ d.client = w /\ replies' \subseteq replies /\ UNCHANGED <<sw, stray, held>>
  BY DEF Take
<1>3. ReplySuits(d) /\ ClientSuits(w)
  BY DEF Told, Suits
<1>4. ASSUME ~Current(Key(d)), NEW e \in requests, e.client = w
      PROVE  e.what = Asks(at, op[w].kind)
  <2>1. Key(e) \in Rest(w) /\ Key(e)[1] = w
    BY <1>4 DEF Rest, Key
  <2>2. RequestSuits(e)
    BY DEF Told, Suits
  <2> QED BY <1>1, <1>2, <1>4, <2>1, <2>2 DEF RequestSuits
<1>5. ASSUME ~Current(Key(d)), NEW e \in replies', e.client = w
      PROVE  e.is = "read" <=> at # "write"
  <2>1. Key(e) \in Rest(w) /\ Key(e)[1] = w
    BY <1>5 DEF Rest, Key
  <2>2. ReplySuits(e)
    BY <1>2, <1>5 DEF Told, Suits
  <2> QED BY <1>1, <1>2, <1>5, <2>1, <2>2 DEF ReplySuits
<1>6. stray = 0 => CleanReply(d) /\ CleanClient(w) /\ Current(Key(d))
  BY <1>1 DEF Told, Clean
<1>7. op[w] \in Calls /\ (at \in Planning => Does(change[w], op[w]))
  BY <1>2, <1>3 DEF ClientSuits
<1>8. d.is \in {"read", "denied", "written"}
  BY <1>3 DEF ReplySuits
<1>9. Current(Key(d)) =>
        /\ d.is = "read" <=> at # "write"
        /\ at \in {"before", "after"} /\ Effected(op[w], d.members, d.pvids) => held[w]
        /\ d.is = "written" => held[w]
  BY <1>2, <1>3 DEF ReplySuits
<1> QED BY <1>1, <1>2, <1>4, <1>5, <1>6, <1>7, <1>8, <1>9

LEMMA AuthenticateKeeps ==
    ASSUME Told, NEW w \in Writer, NEW how \in {"auto", "v1", "v2"}, NEW c,
           Authenticate(w, how, c), Spare(w, Rest(w)), Apart(w), stray' = stray,
           op'[w] \in Calls, Does(c, op'[w]), Does(change'[w], op'[w]),
           stray = 0 =>
             /\ scheme'[w] \in {"auto", sw.auth} /\ how \in {"auto", sw.auth}
             /\ Alone' => Narrow(c, op'[w]) /\ Narrow(change'[w], op'[w])
    PROVE  Told'
<1>1. CASE how = "auto"
  <2>1. Exchange(w, "encpass", "encpass", NoChange, "none", NoSalt)
    BY <1>1 DEF Authenticate, Read
  <2>2. Proper(w, "encpass", "encpass", NoChange, "none", NoSalt)
    BY DEF Proper, Asks
  <2> QED BY <2>1, <2>2, SendKeeps DEF Waiting
<1>2. CASE how = "v2"
  <2>1. Exchange(w, "salt", "salt", NoChange, "none", NoSalt)
    BY <1>2 DEF Authenticate, Read
  <2>2. Proper(w, "salt", "salt", NoChange, "none", NoSalt)
    BY <1>2 DEF Proper, Asks
  <2> QED BY <2>1, <2>2, SendKeeps DEF Waiting
<1>3. CASE how = "v1"
  <2>1. Exchange(w, "write", "write", c, "v1", NoSalt)
    BY <1>3 DEF Authenticate
  <2>2. Proper(w, "write", "write", c, "v1", NoSalt)
    BY <1>3 DEF Proper, Asks, Planning
  <2> QED BY <2>1, <2>2, SendKeeps DEF Waiting
<1> QED BY <1>1, <1>2, <1>3

\* When a client ends its call it is apart from the others.
LEMMA EndTaken ==
    ASSUME Told, stray <= 1, NEW w \in Writer, NEW at \in Waiting, NEW d \in replies, Take(w, at, d),
           NEW how \in {"present", "refused", "failed", "denied", "diverged", "ok"}, End(w, how),
           how = "ok" => held[w], how = "present" /\ stray = 0 => held[w]
    PROVE  Told'
<1>1. Spare(w, Rest(w)) /\ UNCHANGED <<sw, stray, held>> /\ replies' \subseteq replies
  BY Taken
<1>2. Apart(w)
  BY <1>1 DEF Apart, End, Told, Ordered, Typed
<1>3. stray' \in Nat /\ stray' >= stray
  BY <1>1 DEF Told, Ordered, Typed
<1> QED BY <1>1, <1>2, <1>3, EndKeeps DEF Resting

LEMMA InvokeKeeps ==
    ASSUME Told, NEW w \in Writer, Invoke(w)
    PROVE  Told'
<1>1. PICK o \in Calls :
        /\ held' = [held EXCEPT ![w] = Effected(o, sw.table, sw.pvid)]
        /\ IF GuardRaises(o) THEN End(w, "refused")
           ELSE /\ op' = [op EXCEPT ![w] = o]
                /\ Read(w, "before", "vlans")
                /\ UNCHANGED <<change, scheme>>
  BY DEF Invoke
<1>2. pc[w] \notin Waiting /\ UNCHANGED <<sw, replies, stray>>
  BY DEF Invoke, Resting, Waiting
<1>3. Spare(w, Rest(w))
  BY <1>2, RestingSpares DEF Told
<1>4. stray \in Nat /\ stray' = stray
  BY <1>2 DEF Told, Ordered, Typed
<1>5. CASE GuardRaises(o)
  <2>1. End(w, "refused")
    BY <1>1, <1>5
  <2>2. Apart(w)
    BY <1>1, <1>2, <2>1 DEF Apart, End, Told, Ordered, Typed
  <2> QED BY <1>3, <1>4, <2>1, <2>2, EndKeeps DEF Resting
<1>6. CASE ~GuardRaises(o)
  <2>1. /\ op' = [op EXCEPT ![w] = o] /\ UNCHANGED <<change, scheme>>
        /\ Exchange(w, "before", "vlans", NoChange, "none", NoSalt)
    BY <1>1, <1>6 DEF Read
  <2>2. Apart(w) /\ op'[w] = o
    BY <1>1, <1>2, <2>1 DEF Apart, Told, Ordered, Typed
  <2>3. stray = 0 => scheme'[w] \in {"auto", sw.auth}
    BY <2>1 DEF Told, Clean, CleanClient
  <2>4. Proper(w, "before", "vlans", NoChange, "none", NoSalt)
    BY <2>2, <2>3 DEF Proper, Asks, Planning
  <2> QED BY <1>3, <1>4, <2>1, <2>2, <2>4, SendKeeps DEF Waiting
<1> QED BY <1>5, <1>6

LEMMA GetVlansKeeps ==
    ASSUME Told, stray <= 1, NEW w \in Writer, NEW d \in replies, GetVlans(w, d)
    PROVE  Told'
<1> DEFINE o == op[w]
           c == ChangeFor(o, d.members)
<1>1. Take(w, "before", d)
  BY DEF GetVlans
<1>2. /\ Spare(w, Rest(w)) /\ UNCHANGED <<sw, stray, held>> /\ replies' \subseteq replies
      /\ pc[w] = "before" /\ d.client = w /\ o \in Calls
      /\ Current(Key(d)) => (Effected(o, d.members, d.pvids) => held[w])
      /\ stray = 0 => CleanReply(d) /\ CleanClient(w) /\ Current(Key(d))
  BY <1>1, Taken DEF Waiting
<1>3. \/ End(w, "failed")
      \/ End(w, "present") /\ o.kind = "create" /\ o.vlan \in DOMAIN d.members
      \/ End(w, "refused")
      \/ /\ ~(o.kind = "create" /\ o.vlan \in DOMAIN d.members)
         /\ change' = [change EXCEPT ![w] = c] /\ UNCHANGED <<op, scheme>>
         /\ IF o.kind = "pvid" THEN Read(w, "pvids", "pvids") ELSE Authenticate(w, scheme[w], c)
  BY DEF GetVlans
<1>4. CASE End(w, "failed") \/ End(w, "refused")
  BY <1>1, <1>4, EndTaken DEF Waiting
<1>5. CASE End(w, "present") /\ o.kind = "create" /\ o.vlan \in DOMAIN d.members
  <2>1. Effected(o, d.members, d.pvids)
    BY <1>5 DEF Effected
  <2> HIDE DEF o
  <2> QED BY <1>1, <1>2, <1>5, <2>1, EndTaken DEF Waiting
<1>6. CASE /\ ~(o.kind = "create" /\ o.vlan \in DOMAIN d.members)
           /\ change' = [change EXCEPT ![w] = c] /\ UNCHANGED <<op, scheme>>
           /\ IF o.kind = "pvid" THEN Read(w, "pvids", "pvids") ELSE Authenticate(w, scheme[w], c)
  <2>1. Does(c, o)
    BY ChangeDoes
  <2>2. Apart(w) /\ change'[w] = c /\ op'[w] = o /\ stray' = stray /\ scheme' = scheme
    BY <1>2, <1>6 DEF Apart, Told, Ordered, Typed
  <2>3. Alone' => Alone
    <3>1. \E at \in Waiting : pc' = [pc EXCEPT ![w] = at]
      BY <1>6 DEF Read, Authenticate, Exchange, Waiting, Told, Ordered, Typed
    <3> QED BY <3>1 DEF Alone, Called, Waiting, Told, Ordered, Typed
  <2>4. stray = 0 /\ Alone' => Narrow(c, o)
    <3>1. stray = 0 /\ Alone' => d.members = sw.table
      BY <1>2, <2>3 DEF CleanReply
    <3>2. (o.kind = "create" => o.vlan \notin DOMAIN sw.table) => Narrow(ChangeFor(o, sw.table), o)
      BY <1>2, ChangeNarrow
    <3> QED BY <1>6, <3>1, <3>2
  <2>5. /\ scheme[w] \in {"auto", "v1", "v2"}
        /\ stray = 0 => scheme[w] \in {"auto", sw.auth}
    BY <1>2 DEF Told, Ordered, Typed, CleanClient
  <2> HIDE DEF c, o
  <2>6. CASE o.kind = "pvid"
    <3>1. Exchange(w, "pvids", "pvids", NoChange, "none", NoSalt)
      BY <1>6, <2>6 DEF Read
    <3>2. Proper(w, "pvids", "pvids", NoChange, "none", NoSalt)
      BY <1>2, <2>1, <2>2, <2>4, <2>5 DEF Proper, Asks
    <3> QED BY <1>2, <2>2, <3>1, <3>2, SendKeeps DEF Waiting
  <2>7. CASE o.kind # "pvid"
    <3>1. Authenticate(w, scheme[w], c)
      BY <1>6, <2>7
    <3> QED BY <1>2, <2>1, <2>2, <2>4, <2>5, <3>1, AuthenticateKeeps
  <2> QED BY <2>6, <2>7
<1> QED BY <1>3, <1>4, <1>5, <1>6

LEMMA GetPvidsKeeps ==
    ASSUME Told, stray <= 1, NEW w \in Writer, NEW d \in replies, GetPvids(w, d)
    PROVE  Told'
<1>1. Take(w, "pvids", d)
  BY DEF GetPvids
<1>2. /\ Spare(w, Rest(w)) /\ UNCHANGED <<sw, stray, held>> /\ replies' \subseteq replies
      /\ pc[w] = "pvids" /\ op[w] \in Calls /\ Does(change[w], op[w])
      /\ stray = 0 => CleanClient(w)
  BY <1>1, Taken DEF Waiting, Planning
<1>3. CASE End(w, "failed")
  BY <1>1, <1>3, EndTaken DEF Waiting
<1>4. CASE Authenticate(w, scheme[w], change[w]) /\ UNCHANGED <<op, change, scheme>>
  <2>1. Apart(w) /\ stray' = stray
    BY <1>2, <1>4 DEF Apart, Told, Ordered, Typed
  <2>2. Alone' => Alone
    <3>1. \E at \in Waiting : pc' = [pc EXCEPT ![w] = at]
      BY <1>4 DEF Read, Authenticate, Exchange, Waiting, Told, Ordered, Typed
    <3> QED BY <3>1 DEF Alone, Called, Waiting, Told, Ordered, Typed
  <2>3. /\ scheme[w] \in {"auto", "v1", "v2"}
        /\ stray = 0 => scheme[w] \in {"auto", sw.auth}
        /\ stray = 0 /\ Alone' => Narrow(change[w], op[w])
    BY <1>2, <2>2 DEF Told, Ordered, Typed, CleanClient, Planning
  <2> QED BY <1>2, <1>4, <2>1, <2>3, AuthenticateKeeps
<1> QED BY <1>3, <1>4 DEF GetPvids

LEMMA ResolveSchemeKeeps ==
    ASSUME Told, stray <= 1, NEW w \in Writer, NEW d \in replies, ResolveScheme(w, d)
    PROVE  Told'
<1>1. Take(w, "encpass", d)
  BY DEF ResolveScheme
<1>2. /\ Spare(w, Rest(w)) /\ UNCHANGED <<sw, stray, held>> /\ replies' \subseteq replies
      /\ pc[w] = "encpass" /\ d.client = w /\ op[w] \in Calls /\ Does(change[w], op[w])
      /\ stray = 0 => CleanReply(d) /\ CleanClient(w)
  BY <1>1, Taken DEF Waiting, Planning
<1>3. CASE End(w, "failed")
  BY <1>1, <1>3, EndTaken DEF Waiting
<1>4. CASE /\ scheme' = [scheme EXCEPT ![w] = SchemeOf(d)]
           /\ Authenticate(w, scheme'[w], change[w])
           /\ UNCHANGED <<op, change>>
  <2>1. SchemeOf(d) \in {"v1", "v2"} /\ scheme'[w] = SchemeOf(d)
    BY <1>4 DEF SchemeOf, Told, Ordered, Typed
  <2>2. Apart(w) /\ stray' = stray
    BY <1>2, <1>4, <2>1 DEF Apart, Told, Ordered, Typed
  <2>3. Alone' => Alone
    <3>1. \E at \in Waiting : pc' = [pc EXCEPT ![w] = at]
      BY <1>4, <2>1 DEF Read, Authenticate, Exchange, Waiting
    <3> QED BY <3>1 DEF Alone, Called, Waiting, Told, Ordered, Typed
  <2>4. stray = 0 => SchemeOf(d) = sw.auth
    BY <1>2 DEF CleanReply, SchemeOf, Told, Ordered, Typed
  <2>5. stray = 0 /\ Alone' => Narrow(change[w], op[w])
    BY <1>2, <2>3 DEF CleanClient, Planning
  <2> QED BY <1>2, <1>4, <2>1, <2>2, <2>4, <2>5, AuthenticateKeeps
<1> QED BY <1>3, <1>4 DEF ResolveScheme

LEMMA GetSaltKeeps ==
    ASSUME Told, stray <= 1, NEW w \in Writer, NEW d \in replies, GetSalt(w, d)
    PROVE  Told'
<1>1. Take(w, "salt", d)
  BY DEF GetSalt
<1>2. /\ Spare(w, Rest(w)) /\ UNCHANGED <<sw, stray, held>> /\ replies' \subseteq replies
      /\ pc[w] = "salt" /\ d.client = w /\ op[w] \in Calls /\ Does(change[w], op[w])
      /\ stray = 0 => CleanReply(d) /\ CleanClient(w)
  BY <1>1, Taken DEF Waiting, Planning
<1>3. CASE End(w, "failed")
  BY <1>1, <1>3, EndTaken DEF Waiting
<1>4. CASE /\ Exchange(w, "write", "write", change[w], "v2", d.salt)
           /\ UNCHANGED <<op, change, scheme>>
  <2>1. Apart(w) /\ stray' = stray
    BY <1>2, <1>4 DEF Apart, Told, Ordered, Typed
  <2>2. Alone' => Alone
    <3>1. pc' = [pc EXCEPT ![w] = "write"]
      BY <1>4 DEF Exchange
    <3> QED BY <3>1 DEF Alone, Called, Told, Ordered, Typed
  <2>3. stray = 0 => /\ sw.auth = "v2" /\ FreshSalt(w, d.salt)
                     /\ scheme[w] \in {"auto", sw.auth}
                     /\ Alone' => Narrow(change[w], op[w])
    BY <1>2, <2>2 DEF CleanReply, CleanClient, Planning
  <2>4. Proper(w, "write", "write", change[w], "v2", d.salt)
    BY <1>2, <1>4, <2>3 DEF Proper, Asks, Planning
  <2> QED BY <1>2, <1>4, <2>1, <2>4, SendKeeps DEF Waiting
<1> QED BY <1>3, <1>4 DEF GetSalt

LEMMA WrittenKeeps ==
    ASSUME Told, stray <= 1, NEW w \in Writer, NEW d \in replies, Written(w, d)
    PROVE  Told'
<1> DEFINE what == IF op[w].kind = "pvid" THEN "pvids" ELSE "vlans"
<1>1. Take(w, "write", d)
  BY DEF Written
<1>2. /\ Spare(w, Rest(w)) /\ UNCHANGED <<sw, stray, held>> /\ replies' \subseteq replies
      /\ pc[w] = "write" /\ op[w] \in Calls /\ d.is \in {"read", "denied", "written"}
      /\ Current(Key(d)) /\ d.is = "written" => held[w]
      /\ ~Current(Key(d)) =>
           /\ stray >= 1
           /\ \A e \in requests : e.client = w => e.what = Asks("write", op[w].kind)
           /\ \A e \in replies' : e.client = w => e.is # "read"
      /\ stray = 0 => CleanClient(w)
  BY <1>1, Taken DEF Waiting
<1>3. CASE d.is \in {"read", "denied"}
  <2>1. End(w, "failed") \/ End(w, "denied")
    BY <1>3 DEF Written
  <2> QED BY <1>1, <2>1, EndTaken DEF Waiting
<1>4. CASE d.is = "written"
  <2>1. Exchange(w, "after", what, NoChange, "none", NoSalt) /\ UNCHANGED <<op, change, scheme>>
    BY <1>4 DEF Written, Read
  <2>2. Apart(w) /\ stray' = stray
    BY <1>2, <2>1 DEF Apart, Told, Ordered, Typed
  <2>3. Asks("write", op[w].kind) = "write" /\ what = Asks("after", op[w].kind) /\ what # "write"
    BY DEF Asks
  <2> HIDE DEF what
  <2>4. ~held[w] => ~Current(Key(d))
    BY <1>2, <1>4
  <2>5. stray = 0 => scheme[w] \in {"auto", sw.auth}
    BY <1>2 DEF CleanClient
  <2>6. Proper(w, "after", what, NoChange, "none", NoSalt)
    BY <1>2, <2>1, <2>3, <2>4, <2>5 DEF Proper, Planning
  <2> QED BY <1>2, <2>1, <2>2, <2>6, SendKeeps DEF Waiting
<1> QED BY <1>2, <1>3, <1>4

LEMMA VerifyKeeps ==
    ASSUME Told, stray <= 1, NEW w \in Writer, NEW d \in replies, Verify(w, d)
    PROVE  Told'
<1>1. Take(w, "after", d)
  BY DEF Verify
<1>2. /\ pc[w] = "after" /\ d.client = w
      /\ Current(Key(d)) /\ Effected(op[w], d.members, d.pvids) => held[w]
  BY <1>1, Taken DEF Waiting
<1>3. Doubts(w)
  BY DEF Told, Suits, ClientSuits
<1>4. CASE End(w, "failed") \/ End(w, "diverged")
  BY <1>1, <1>4, EndTaken DEF Waiting
<1>5. CASE End(w, "ok") /\ Parses(d) /\ Verified(w, d)
  <2>1. held[w]
    BY <1>2, <1>3, <1>5 DEF Doubts, Parses, Verified
  <2> QED BY <1>1, <1>5, <2>1, EndTaken DEF Waiting
<1> QED BY <1>4, <1>5 DEF Verify

LEMMA GiveUpKeeps ==
    ASSUME Told, stray' <= 1, NEW w \in Writer, GiveUp(w)
    PROVE  Told'
<1> DEFINE alive == \E d \in requests \cup replies : d.client = w /\ d.seq = seq[w]
<1>1. /\ pc[w] \in Waiting /\ End(w, "failed") /\ UNCHANGED <<sw, replies, held>>
      /\ IF alive THEN stray' = stray + 1 ELSE stray' = stray
  BY DEF GiveUp
<1>2. stray \in Nat
  BY DEF Told, Ordered, Typed
<1>3. Rest(w) = Flying
  BY <1>1 DEF Rest, Flying
<1>4. Spare(w, Rest(w))
  <2>1. CASE alive
    <3>1. stray = 0 /\ stray' = 1
      BY <1>1, <1>2, <2>1
    <3> QED BY <1>3, <3>1 DEF Spare, Told, Ordered, FewStrays
  <2>2. CASE ~alive
    <3>1. \A k \in Flying : k[1] = w => ~Current(k)
      BY <2>2 DEF Flying, Key, Current
    <3> QED BY <1>1, <1>3, <2>2, <3>1 DEF Spare, Told, Ordered, FewStrays
  <2> QED BY <2>1, <2>2
<1>5. Apart(w)
  BY <1>1 DEF Apart, End, Told, Ordered, Typed
<1>6. stray' \in Nat /\ stray' >= stray
  BY <1>1, <1>2
<1> QED BY <1>1, <1>4, <1>5, <1>6, EndKeeps DEF Resting

-----------------------------------------------------------------------------
(***************************************************************************)
(* The network and the switch.                                             *)
(***************************************************************************)
LEMMA LossKeeps ==
    ASSUME Told, requests' \subseteq requests, replies' \subseteq replies,
           UNCHANGED <<sw, client, held, stray>>
    PROVE  Told'
<1>1. Ordered' /\ \A k : Current(k)' <=> Current(k)
  BY LossOrders DEF Told
<1>2. /\ UNCHANGED <<sw, pc, op, change, scheme, held, stray>>
      /\ \A d : Current(Key(d))' <=> Current(Key(d))
  BY <1>1 DEF client, Key
<1>3. Suits'
  <2>1. ASSUME NEW d \in requests' PROVE RequestSuits(d)'
    BY <1>2 DEF Told, Suits, RequestSuits, Writable
  <2>2. ASSUME NEW d \in replies' PROVE ReplySuits(d)'
    BY <1>2 DEF Told, Suits, ReplySuits
  <2>3. ASSUME NEW x \in Writer PROVE ClientSuits(x)'
    <3>1. ClientSuits(x)
      BY DEF Told, Suits
    <3>2. Doubts(x)'
      BY <1>2, <3>1 DEF ClientSuits, Doubts
    <3> QED BY <1>2, <3>1, <3>2 DEF ClientSuits
  <2> QED BY <2>1, <2>2, <2>3 DEF Suits
<1>4. Clean'
  <2>1. ASSUME stray = 0, NEW d \in requests' PROVE CleanRequest(d)'
    <3>1. CleanRequest(d)
      BY <2>1 DEF Told, Clean
    <3> QED BY <1>2, <3>1 DEF CleanRequest, FreshSalt, Narrow, Alone, Called
  <2>2. ASSUME stray = 0, NEW d \in replies' PROVE CleanReply(d)'
    <3>1. CleanReply(d)
      BY <2>2 DEF Told, Clean
    <3> QED BY <1>2, <3>1 DEF CleanReply, FreshSalt, Alone, Called
  <2>3. ASSUME stray = 0, NEW x \in Writer PROVE CleanClient(x)'
    <3>1. CleanClient(x)
      BY <2>3 DEF Told, Clean
    <3> QED BY <1>2, <3>1 DEF CleanClient, Narrow, Alone, Called
  <2> QED BY <1>2, <2>1, <2>2, <2>3 DEF Clean
<1> QED BY <1>1, <1>3, <1>4 DEF Told

\* The copy is current if the original is, and carries the same.
LEMMA CopyKeeps ==
    ASSUME Told, Duplicate, stray' <= 1
    PROVE  Told'
<1>1. /\ Ordered' /\ stray = 0 /\ stray' = 1 /\ UNCHANGED <<sw, client, held>>
      /\ \A k : Current(k)' <=> Current(k)
      /\ \/ \E d \in requests : /\ requests' = requests \cup {[d EXCEPT !.copy = stray']}
                                /\ UNCHANGED replies
         \/ \E d \in replies : /\ replies' = replies \cup {[d EXCEPT !.copy = stray']}
                               /\ UNCHANGED requests
  BY CopyOrders DEF Told
<1>2. /\ UNCHANGED <<sw, pc, seq, op, change, scheme, held>>
      /\ \A d : Current(Key(d)) <=> pc[d.client] \in Waiting /\ d.seq = seq[d.client]
      /\ \A d : Current(Key(d))' <=> pc[d.client] \in Waiting /\ d.seq = seq[d.client]
  BY <1>1 DEF client, Key, Current
<1>3. ASSUME NEW e \in requests'
      PROVE  \E d \in requests : /\ e.client = d.client /\ e.seq = d.seq /\ e.what = d.what
                                 /\ e.change = d.change
  <2>1. CASE e \in requests
    BY <2>1
  <2>2. ASSUME NEW d \in requests, e = [d EXCEPT !.copy = stray'] PROVE
          e.client = d.client /\ e.seq = d.seq /\ e.what = d.what /\ e.change = d.change
    BY <2>2
  <2> QED BY <1>1, <2>1, <2>2
<1>4. ASSUME NEW e \in replies'
      PROVE  \E d \in replies : /\ e.client = d.client /\ e.seq = d.seq /\ e.is = d.is
                                /\ e.members = d.members /\ e.pvids = d.pvids
  <2>1. CASE e \in replies
    BY <2>1
  <2>2. ASSUME NEW d \in replies, e = [d EXCEPT !.copy = stray'] PROVE
          /\ e.client = d.client /\ e.seq = d.seq /\ e.is = d.is
          /\ e.members = d.members /\ e.pvids = d.pvids
    BY <2>2
  <2> QED BY <1>1, <2>1, <2>2
<1>5. Suits'
  <2>1. ASSUME NEW e \in requests' PROVE RequestSuits(e)'
    <3>1. PICK d \in requests : /\ e.client = d.client /\ e.seq = d.seq /\ e.what = d.what
                                /\ e.change = d.change
      BY <1>3
    <3>2. RequestSuits(d)
      BY DEF Told, Suits
    <3> QED BY <1>2, <3>1, <3>2 DEF RequestSuits, Writable
  <2>2. ASSUME NEW e \in replies' PROVE ReplySuits(e)'
    <3>1. PICK d \in replies : /\ e.client = d.client /\ e.seq = d.seq /\ e.is = d.is
                               /\ e.members = d.members /\ e.pvids = d.pvids
      BY <1>4
    <3>2. ReplySuits(d)
      BY DEF Told, Suits
    <3> QED BY <1>2, <3>1, <3>2 DEF ReplySuits
  <2>3. ASSUME NEW x \in Writer PROVE ClientSuits(x)'
    <3>1. ClientSuits(x)
      BY DEF Told, Suits
    <3> QED BY <1>1, <1>2, <3>1 DEF ClientSuits, Doubts
  <2> QED BY <2>1, <2>2, <2>3 DEF Suits
<1>6. Clean'
  BY <1>1 DEF Clean
<1> QED BY <1>1, <1>5, <1>6 DEF Told

LEMMA ReplyFields ==
    ASSUME NEW d, NEW is
    PROVE  LET r == Reply(d, is) IN
           /\ r = [client |-> r.client, seq |-> r.seq, copy |-> r.copy, is |-> r.is,
                   model |-> r.model, members |-> r.members, pvids |-> r.pvids,
                   scheme |-> r.scheme, salt |-> r.salt]
           /\ Key(r) = Key(d) /\ r.client = d.client /\ r.seq = d.seq /\ r.is = is
           /\ d.what = "vlans" => r.members = sw.table /\ r.pvids = None
           /\ d.what = "pvids" => r.members = None /\ r.pvids = sw.pvid
           /\ d.what = "encpass" => r.scheme = <<sw.auth>>
           /\ d.what = "salt" => r.salt = <<d.client, d.seq, d.copy>>
BY DEF Reply, Key

LEMMA EffectedReads ==
    ASSUME NEW o \in Calls, NEW t, NEW q,
           Effected(o, t, None) \/ (o.kind = "pvid" /\ Effected(o, None, q))
    PROVE  Effected(o, t, q)
<1>1. o.kind \in {"membership", "pvid", "create", "delete"}
  BY CallFields
<1>2. DOMAIN None = {}
  BY DEF None
<1> HIDE DEF None
<1>3. CASE o.kind = "membership"
  BY <1>3 DEF Effected
<1>4. CASE o.kind = "pvid"
  BY <1>2, <1>4 DEF Effected
<1>5. CASE o.kind = "create"
  BY <1>5 DEF Effected
<1>6. CASE o.kind = "delete"
  BY <1>6 DEF Effected
<1> QED BY <1>1, <1>3, <1>4, <1>5, <1>6

\* What a turn of the switch does to a datagram d.
Served(d, is) ==
    /\ requests' = requests \ {d}
    /\ replies' = replies \cup {Reply(d, is)} \/ replies' = replies
    /\ is \in {"read", "denied", "written"}
    /\ is = "read" <=> d.what # "write"
    /\ Shaped(sw') /\ sw'.auth = sw.auth /\ sw'.failures \in Nat
    /\ IF is = "written" THEN sw' = [Apply(sw, d.change) EXCEPT !.failures = 0]
       ELSE sw'.table = sw.table /\ sw'.pvid = sw.pvid
    /\ sw'.salt = IF d.what = "salt" THEN <<d.client, d.seq, d.copy>> ELSE sw.salt
    /\ UNCHANGED <<client, stray>>
    /\ held' = [w \in Writer |-> held[w] \/ Effected(op[w], sw'.table, sw'.pvid)]

LEMMA ServeServes ==
    ASSUME Told, Serve
    PROVE  \E d \in requests, is \in {"read", "denied", "written"} : Served(d, is)
<1>1. PICK d \in requests : (ServeRead(d) \/ ServeWrite(d)) /\ requests' = requests \ {d}
  BY DEF Serve
<1>2. /\ UNCHANGED <<client, stray>>
      /\ held' = [w \in Writer |-> held[w] \/ Effected(op[w], sw'.table, sw'.pvid)]
  BY DEF Serve
<1>3. Shaped(sw) /\ sw.failures \in Nat
  BY DEF Told, Ordered, Typed
<1>4. d.what = "write" => Writable(d.change)
  BY DEF Told, Suits, RequestSuits
<1>5. CASE ServeRead(d)
  <2>1. /\ d.what # "write" /\ replies' = replies \cup {Reply(d, "read")}
        /\ sw' = IF d.what = "salt" THEN [sw EXCEPT !.salt = <<d.client, d.seq, d.copy>>] ELSE sw
    BY <1>5 DEF ServeRead
  <2>2. /\ sw'.table = sw.table /\ sw'.pvid = sw.pvid /\ sw'.auth = sw.auth
        /\ sw'.failures = sw.failures /\ Shaped(sw')
        /\ sw'.salt = IF d.what = "salt" THEN <<d.client, d.seq, d.copy>> ELSE sw.salt
    BY <1>3, <2>1 DEF Shaped
  <2>3. Served(d, "read")
    BY <1>1, <1>2, <1>3, <2>1, <2>2 DEF Served
  <2> QED BY <2>3
<1>6. CASE ServeWrite(d)
  <2>1. /\ d.what = "write"
        /\ \/ sw' = sw /\ replies' = replies
           \/ /\ sw' = [Apply(sw, d.change) EXCEPT !.failures = 0]
              /\ replies' = replies \cup {Reply(d, "written")}
           \/ /\ sw' = [sw EXCEPT !.failures = IF sw.auth = "v2" THEN @ + 1 ELSE @]
              /\ replies' = replies \cup {Reply(d, "denied")}
    BY <1>6 DEF ServeWrite
  <2>2. CASE sw' = sw /\ replies' = replies
    <3>1. Served(d, "denied")
      BY <1>1, <1>2, <1>3, <2>1, <2>2 DEF Served
    <3> QED BY <3>1
  <2>3. CASE /\ sw' = [Apply(sw, d.change) EXCEPT !.failures = 0]
             /\ replies' = replies \cup {Reply(d, "written")}
    <3>1. Shaped(sw') /\ sw'.auth = sw.auth /\ sw'.salt = sw.salt /\ sw'.failures = 0
      BY <1>3, <1>4, <2>1, <2>3, Applied
    <3>2. Served(d, "written")
      BY <1>1, <1>2, <2>1, <2>3, <3>1 DEF Served
    <3> QED BY <3>2
  <2>4. CASE /\ sw' = [sw EXCEPT !.failures = IF sw.auth = "v2" THEN @ + 1 ELSE @]
             /\ replies' = replies \cup {Reply(d, "denied")}
    <3>1. /\ sw'.table = sw.table /\ sw'.pvid = sw.pvid /\ sw'.auth = sw.auth
          /\ sw'.failures \in Nat /\ Shaped(sw') /\ sw'.salt = sw.salt
      BY <1>3, <2>4 DEF Shaped
    <3>2. Served(d, "denied")
      BY <1>1, <1>2, <2>1, <2>4, <3>1 DEF Served
    <3> QED BY <3>2
  <2> QED BY <2>1, <2>2, <2>3, <2>4
<1> QED BY <1>1, <1>5, <1>6

LEMMA ServedOrders ==
    ASSUME Told, NEW d \in requests, NEW is, Served(d, is)
    PROVE  Ordered' /\ \A k : Current(k)' <=> Current(k)
<1> DEFINE r == Reply(d, is)
<1>1. /\ Key(r) = Key(d)
      /\ r = [client |-> r.client, seq |-> r.seq, copy |-> r.copy, is |-> r.is,
              model |-> r.model, members |-> r.members, pvids |-> r.pvids,
              scheme |-> r.scheme, salt |-> r.salt]
  BY ReplyFields
<1>2. /\ requests' = requests \ {d}
      /\ replies' = replies \cup {r} \/ replies' = replies
      /\ UNCHANGED <<client, stray>>
  BY DEF Served
<1> HIDE DEF r
<1>3. Typed'
  BY DEF Served, Told, Ordered, Typed, client
<1>4. Formed'
  BY <1>1, <1>2 DEF Told, Ordered, Formed
<1> QED BY <1>1, <1>2, <1>3, <1>4, AnswerOrders DEF Told

\* The answer to a current datagram shows nothing that is not so.
LEMMA ServedReply ==
    ASSUME Told, NEW d \in requests, NEW is, Served(d, is), Current(Key(d))
    PROVE  LET w == d.client
               r == Reply(d, is) IN
           /\ w \in Writer /\ pc[w] \in Waiting /\ d.what = Asks(pc[w], op[w].kind)
           /\ is = "read" <=> pc[w] # "write"
           /\ pc[w] \in {"before", "after"} /\ Effected(op[w], r.members, r.pvids) => held'[w]
           /\ is = "written" => held'[w]
<1> DEFINE w == d.client
           r == Reply(d, is)
<1>1. w \in Writer /\ pc[w] \in Waiting
  <2>1. Key(d) \in Flying /\ Key(d)[1] = w
    BY DEF Flying, Key
  <2> QED BY <2>1 DEF Told, Ordered, Numbered, Current
<1>2. /\ d.what = Asks(pc[w], op[w].kind)
      /\ d.what = "write" => Does(d.change, op[w])
  BY DEF Told, Suits, RequestSuits
<1>3. op[w] \in Calls
  BY <1>1 DEF Told, Suits, ClientSuits
<1>4. d.what = "write" <=> pc[w] = "write"
  BY <1>1, <1>2 DEF Asks, Waiting
<1>5. is = "read" <=> d.what # "write"
  BY DEF Served
<1>6. held'[w] <=> held[w] \/ Effected(op[w], sw'.table, sw'.pvid)
  BY <1>1 DEF Served
<1>7. is = "written" => held'[w]
  <2> SUFFICES ASSUME is = "written" PROVE Effected(op[w], sw'.table, sw'.pvid)
    BY <1>6
  <2>1. sw' = [Apply(sw, d.change) EXCEPT !.failures = 0]
    BY DEF Served
  <2>2. Does(d.change, op[w])
    BY <1>2, <1>5
  <2>3. Shaped(sw)
    BY DEF Told, Ordered, Typed
  <2> QED BY <1>3, <2>1, <2>2, <2>3, AppliedEffect
<1>8. ASSUME pc[w] \in {"before", "after"}, Effected(op[w], r.members, r.pvids) PROVE held'[w]
  <2>1. sw'.table = sw.table /\ sw'.pvid = sw.pvid
    BY <1>4, <1>5, <1>8 DEF Served
  <2>2. \/ r.members = sw.table /\ r.pvids = None
        \/ op[w].kind = "pvid" /\ r.members = None /\ r.pvids = sw.pvid
    <3>1. d.what = "vlans" \/ (op[w].kind = "pvid" /\ d.what = "pvids")
      BY <1>2, <1>8 DEF Asks
    <3> QED BY <3>1, ReplyFields
  <2> HIDE DEF r
  <2>3. Effected(op[w], sw.table, sw.pvid)
    BY <1>3, <1>8, <2>2, EffectedReads
  <2> QED BY <1>6, <2>1, <2>3
<1> HIDE DEF r
<1> QED BY <1>1, <1>2, <1>4, <1>5, <1>7, <1>8 DEF r

LEMMA ServeKeeps ==
    ASSUME Told, Serve
    PROVE  Told'
<1>1. PICK d \in requests, is \in {"read", "denied", "written"} : Served(d, is)
  BY ServeServes
<1>2. Ordered' /\ \A k : Current(k)' <=> Current(k)
  BY <1>1, ServedOrders
<1>3. PICK r : r = Reply(d, is)
  OBVIOUS
<1>4. /\ requests' = requests \ {d} /\ \A e \in replies' : e \in replies \/ e = r
      /\ UNCHANGED <<pc, seq, op, change, scheme, stray>>
      /\ \A w \in Writer : held[w] => held'[w]
      /\ sw'.auth = sw.auth
      /\ is # "written" => sw'.table = sw.table
      /\ is = "read" <=> d.what # "write"
      /\ is \in {"read", "denied", "written"}
      /\ sw'.salt = IF d.what = "salt" THEN <<d.client, d.seq, d.copy>> ELSE sw.salt
  BY <1>1, <1>3 DEF Served, client
<1>5. /\ Key(r) = Key(d) /\ r.client = d.client /\ r.seq = d.seq /\ r.is = is
      /\ d.what = "vlans" => r.members = sw.table /\ r.pvids = None
      /\ d.what = "pvids" => r.members = None /\ r.pvids = sw.pvid
      /\ d.what = "encpass" => r.scheme = <<sw.auth>>
      /\ d.what = "salt" => r.salt = <<d.client, d.seq, d.copy>>
  BY <1>3, ReplyFields
<1>6. Current(Key(d)) =>
        /\ d.client \in Writer /\ pc[d.client] \in Waiting
        /\ d.what = Asks(pc[d.client], op[d.client].kind)
        /\ is = "read" <=> pc[d.client] # "write"
        /\ pc[d.client] \in {"before", "after"} /\ Effected(op[d.client], r.members, r.pvids)
             => held'[d.client]
        /\ is = "written" => held'[d.client]
  BY <1>1, <1>3, ServedReply
<1>7. /\ \A e \in requests \cup replies : e.client \in Writer
      /\ \A e : Current(Key(e))' <=> Current(Key(e))
      /\ \A e : Current(Key(e)) => pc[e.client] \in Waiting
  <2>1. \A e \in requests \cup replies : Key(e) \in Flying /\ Key(e)[1] = e.client
    BY DEF Flying, Key
  <2>2. \A e : Key(e)' = Key(e)
    BY DEF Key
  <2> QED BY <1>2, <2>1 DEF Told, Ordered, Numbered, Current, Key
<1>8. Suits'
  <2>1. ASSUME NEW e \in requests' PROVE RequestSuits(e)'
    BY <1>4, <1>7 DEF Told, Suits, RequestSuits, Writable
  <2>2. ASSUME NEW e \in replies' PROVE ReplySuits(e)'
    <3>1. CASE e \in replies
      BY <1>4, <1>7, <3>1 DEF Told, Suits, ReplySuits
    <3>2. CASE e = r
      <4>1. Current(Key(e))' <=> Current(Key(d))
        BY <1>5, <1>7, <3>2
      <4> QED BY <1>4, <1>5, <1>6, <3>2, <4>1 DEF ReplySuits
    <3> QED BY <1>4, <3>1, <3>2
  <2>3. ASSUME NEW x \in Writer PROVE ClientSuits(x)'
    <3>1. ClientSuits(x)
      BY DEF Told, Suits
    <3>2. Doubts(x)'
      <4> SUFFICES ASSUME pc'[x] = "after", ~held'[x]
                   PROVE  /\ stray' >= 1
                          /\ \A e \in requests' : e.client = x => Current(Key(e))' \/ e.what = "write"
                          /\ \A e \in replies' : e.client = x => Current(Key(e))' \/ e.is # "read"
        BY DEF Doubts
      <4>1. pc[x] = "after" /\ ~held[x] /\ Doubts(x)
        BY <1>4, <3>1 DEF ClientSuits
      <4>2. ASSUME d.client = x PROVE Current(Key(d))' \/ is # "read"
        BY <1>4, <1>7, <4>1, <4>2 DEF Doubts
      <4>3. Current(Key(r))' <=> Current(Key(d))'
        BY <1>5, <1>7
      <4> QED BY <1>4, <1>5, <1>7, <4>1, <4>2, <4>3 DEF Doubts
    <3> QED BY <1>4, <3>1, <3>2 DEF ClientSuits
  <2> QED BY <2>1, <2>2, <2>3 DEF Suits
<1>9. Clean'
  <2> SUFFICES ASSUME stray' = 0
               PROVE  /\ \A e \in requests' : CleanRequest(e)'
                      /\ \A e \in replies' : CleanReply(e)'
                      /\ \A x \in Writer : CleanClient(x)'
    BY DEF Clean
  <2>1. /\ \A e \in requests : CleanRequest(e)
        /\ \A e \in replies : CleanReply(e)
        /\ \A x \in Writer : CleanClient(x)
        /\ Alone' <=> Alone
    BY <1>4 DEF Told, Clean, Alone, Called
  <2>2. /\ \A e \in requests \cup replies : Current(Key(e)) /\ Key(e) \in Flying /\ Key(e)[1] = e.client
        /\ \A k, l \in Flying : k[1] = l[1] => k = l
    <3>1. \A e \in requests \cup replies : Key(e) \in Flying /\ Key(e)[1] = e.client
      BY DEF Flying, Key
    <3>2. stray = 0
      BY <1>4
    <3> QED BY <3>1, <3>2 DEF Told, Ordered, FewStrays
  <2>3. \A e \in (requests \ {d}) \cup replies : e.client # d.client
    <3>1. \A e \in (requests \ {d}) \cup replies : Key(e) # Key(d)
      BY DEF Told, Ordered, OneEach
    <3> QED BY <2>2, <3>1
  <2>4. \A e \in requests \cup replies : Called(e.client)
    BY <1>7, <2>2 DEF Called, Waiting
  <2>5. \A e \in (requests \ {d}) \cup replies : ~Alone
    BY <1>7, <2>3, <2>4 DEF Alone
  <2>6. \A w, t : w # d.client /\ FreshSalt(w, t) => FreshSalt(w, t)'
    <3>1. <<d.client, d.seq, d.copy>> # NoSalt /\ <<d.client, d.seq, d.copy>>[1] = d.client
      BY DEF NoSalt
    <3> QED BY <1>4, <3>1 DEF FreshSalt
  <2>7. FreshSalt(d.client, <<d.client, d.seq, d.copy>>)' \/ d.what # "salt"
    <3>1. <<d.client, d.seq, d.copy>> # NoSalt
      BY DEF NoSalt
    <3> QED BY <1>4, <3>1 DEF FreshSalt
  <2>8. ASSUME NEW e \in requests' PROVE CleanRequest(e)'
    <3>1. CleanRequest(e) /\ e.client # d.client /\ ~Alone'
      BY <1>4, <2>1, <2>3, <2>5
    <3> QED BY <1>4, <2>6, <3>1 DEF CleanRequest
  <2>9. ASSUME NEW e \in replies' PROVE CleanReply(e)'
    <3>1. CASE e \in replies
      <4>1. CleanReply(e) /\ e.client # d.client /\ ~Alone'
        BY <2>1, <2>3, <2>5, <3>1
      <4> QED BY <1>4, <2>6, <4>1 DEF CleanReply
    <3>2. CASE e = r
      <4>1. d.what = Asks(pc[d.client], op[d.client].kind) /\ (is = "read" <=> pc[d.client] # "write")
        BY <1>6, <2>2
      <4>2. pc[d.client] = "encpass" => r.scheme = <<sw'.auth>>
        BY <1>4, <1>5, <4>1 DEF Asks
      <4>3. pc[d.client] = "salt" => FreshSalt(d.client, r.salt)'
        BY <1>5, <2>7, <4>1 DEF Asks
      <4>4. pc[d.client] = "before" => r.members = sw'.table
        BY <1>4, <1>5, <4>1 DEF Asks
      <4> QED BY <1>4, <1>5, <3>2, <4>2, <4>3, <4>4 DEF CleanReply
    <3> QED BY <1>4, <3>1, <3>2
  <2>10. ASSUME NEW x \in Writer PROVE CleanClient(x)'
    <3>1. ASSUME Alone, pc[x] \in Planning PROVE sw'.table = sw.table
      <4>1. Called(x)
        BY <3>1 DEF Called, Planning
      <4>2. x = d.client
        BY <1>7, <2>4, <3>1, <4>1 DEF Alone
      <4> QED BY <1>4, <1>6, <2>2, <3>1, <4>2 DEF Planning
    <3> QED BY <1>4, <2>1, <3>1 DEF CleanClient, Narrow
  <2> QED BY <2>8, <2>9, <2>10
<1> QED BY <1>2, <1>8, <1>9 DEF Told

-----------------------------------------------------------------------------
(***************************************************************************)
(* StrayInv is inductive, and what follows from it.                        *)
(***************************************************************************)
LEMMA StrayGrows ==
    ASSUME stray \in Nat, Next
    PROVE  stray' \in Nat /\ stray' >= stray
<1>1. ASSUME NEW w \in Writer, Step(w) PROVE stray' = stray \/ stray' = stray + 1
  <2>1. CASE GiveUp(w)
    BY <2>1 DEF GiveUp
  <2>2. CASE \E d \in replies, at \in Waiting : Take(w, at, d)
    BY <2>2 DEF Take
  <2> QED BY <1>1, <2>1, <2>2, StepTakes
<1>2. ASSUME NEW w \in Writer, Invoke(w) PROVE stray' = stray
  BY <1>2 DEF Invoke
<1>3. ASSUME Serve \/ Lose \/ Duplicate \/ Discard PROVE stray' = stray \/ stray' = stray + 1
  BY <1>3 DEF Serve, Lose, Duplicate, Discard
<1> QED BY <1>1, <1>2, <1>3 DEF Next

LEMMA InitStrayInv == Init => StrayInv
<1> SUFFICES ASSUME Init PROVE StrayInv
  OBVIOUS
<1>1. /\ stray = 0 /\ requests = {} /\ replies = {}
      /\ pc = [w \in Writer |-> "idle"] /\ op = [w \in Writer |-> NoCall]
      /\ change = [w \in Writer |-> NoChange] /\ scheme = [w \in Writer |-> "auto"]
      /\ seq = [w \in Writer |-> 0] /\ held = [w \in Writer |-> FALSE]
  BY DEF Init
<1>2. Shaped(sw) /\ sw.failures \in Nat /\ sw.auth \in {"v1", "v2"}
  <2>1. sw \in [table : Tables, pvid : {[p \in Port |-> DefaultVlan]}, auth : Auth,
                salt : {NoSalt}, failures : {0}]
    BY DEF Init
  <2>2. PICK t \in Tables, a \in Auth :
          sw = [table |-> t, pvid |-> [p \in Port |-> DefaultVlan], auth |-> a,
                salt |-> NoSalt, failures |-> 0]
    BY <2>1
  <2>3. a \in {"v1", "v2"}
    BY NsdpAssumption
  <2> QED BY <2>2, <2>3 DEF Shaped
<1>3. Typed
  BY <1>1, <1>2 DEF Typed, Resting
<1>4. Flying = {}
  BY <1>1 DEF Flying
<1>5. Ordered
  BY <1>1, <1>3, <1>4 DEF Ordered, Formed, OneEach, Numbered, FewStrays
<1>6. Suits
  BY <1>1 DEF Suits, ClientSuits, Doubts, Waiting, Planning
<1>7. Clean
  BY <1>1 DEF Clean, CleanClient, Planning
<1> QED BY <1>1, <1>5, <1>6, <1>7 DEF StrayInv, Told

LEMMA StepKeepsStrayInv ==
    ASSUME StrayInv, Next
    PROVE  StrayInv'
<1>1. stray \in Nat /\ stray' \in Nat /\ stray' >= stray
  BY StrayGrows DEF StrayInv
<1> SUFFICES ASSUME stray' <= 1 PROVE Told'
  BY <1>1 DEF StrayInv
<1>2. stray <= 1 /\ Told
  BY <1>1 DEF StrayInv
<1>3. ASSUME NEW w \in Writer, Invoke(w) PROVE Told'
  BY <1>2, <1>3, InvokeKeeps
<1>4. ASSUME NEW w \in Writer, Step(w) PROVE Told'
  <2>1. CASE GiveUp(w)
    BY <1>2, <2>1, GiveUpKeeps
  <2>2. ASSUME NEW d \in replies,
               \/ GetVlans(w, d) \/ GetPvids(w, d) \/ ResolveScheme(w, d)
               \/ GetSalt(w, d) \/ Written(w, d) \/ Verify(w, d)
        PROVE  Told'
    BY <1>2, <2>2, GetVlansKeeps, GetPvidsKeeps, ResolveSchemeKeeps, GetSaltKeeps,
       WrittenKeeps, VerifyKeeps
  <2> QED BY <1>4, <2>1, <2>2 DEF Step
<1>5. CASE Serve
  BY <1>2, <1>5, ServeKeeps
<1>6. CASE Lose \/ Discard
  <2>1. /\ UNCHANGED <<sw, client, held, stray>>
        /\ requests' \subseteq requests /\ replies' \subseteq replies
    BY <1>6 DEF Lose, Discard
  <2> QED BY <1>2, <2>1, LossKeeps
<1>7. CASE Duplicate
  BY <1>2, <1>7, CopyKeeps
<1> QED BY <1>3, <1>4, <1>5, <1>6, <1>7 DEF Next

LEMMA StrayInvIsInductive == Spec => []StrayInv
<1>1. StrayInv /\ Next => StrayInv'
  BY StepKeepsStrayInv
<1>2. StrayInv /\ UNCHANGED vars => StrayInv'
  <2> SUFFICES ASSUME StrayInv, UNCHANGED vars PROVE StrayInv'
    OBVIOUS
  <2>1. UNCHANGED <<sw, requests, replies, client, held, stray>>
    BY DEF vars
  <2>2. Told => Told'
    BY <2>1, LossKeeps
  <2> QED BY <2>1, <2>2 DEF StrayInv
<1>3. StrayInv /\ [Next]_vars => StrayInv'
  BY <1>1, <1>2
<1> QED BY InitStrayInv, <1>3, PTL DEF Spec

(***************************************************************************)
(* For any number of clients and calls, with one datagram that outlives    *)
(* its exchange, a duplicate or a late answer, anywhere in the behaviour:  *)
(* a call that returns has had its effect.  An answer to an earlier write  *)
(* and a read-back from before the write would have to be stray both       *)
(* (nsdp_write.py _write, the _verify functions).                          *)
(***************************************************************************)
THEOREM NoSilentSuccessProved == Spec => []NoSilentSuccess
<1>1. StrayInv => NoSilentSuccess
  <2> SUFFICES ASSUME StrayInv, NEW w \in Writer
               PROVE  /\ pc[w] = "ok" /\ stray <= 1 => held[w]
                      /\ pc[w] = "present" /\ stray = 0 => held[w]
    BY DEF NoSilentSuccess
  <2>1. stray <= 1 => ClientSuits(w)
    BY DEF StrayInv, Told, Suits
  <2>2. stray = 0 => stray <= 1
    OBVIOUS
  <2> QED BY <2>1, <2>2 DEF ClientSuits
<1> QED BY <1>1, StrayInvIsInductive, PTL

(***************************************************************************)
(* With nothing stray a client that has the right password is refused only *)
(* because another has read a salt since it read its own: the scheme it    *)
(* has cached is the switch's, and its token is the salt that it was given *)
(* last (nsdp_udp.py _resolve_scheme, _build_write).                       *)
(***************************************************************************)
LEMMA RefusalHasRival ==
    ASSUME StrayInv, Next, NEW d \in requests, stray = 0, d \notin requests',
           sw'.failures > sw.failures
    PROVE  sw.salt # NoSalt /\ sw.salt[1] # d.client
<1>1. Told
  BY DEF StrayInv
<1>2. sw.failures \in Nat /\ Shaped(sw)
  BY <1>1 DEF Told, Ordered, Typed
<1>3. Serve
  BY <1>2, OnlyServeWrites
<1>4. PICK e \in requests : (ServeRead(e) \/ ServeWrite(e)) /\ requests' = requests \ {e}
  BY <1>3 DEF Serve
<1>5. e = d
  BY <1>4
<1>6. ~ServeRead(d)
  <2> SUFFICES ASSUME ServeRead(d) PROVE sw'.failures = sw.failures
    BY <1>2
  <2>1. sw' = sw \/ sw' = [sw EXCEPT !.salt = <<d.client, d.seq, d.copy>>]
    BY DEF ServeRead
  <2> QED BY <1>2, <2>1 DEF Shaped
<1>7. ServeWrite(d) /\ d.what = "write"
  BY <1>4, <1>5, <1>6 DEF ServeWrite
<1>8. Writable(d.change) /\ CleanRequest(d)
  BY <1>1, <1>7 DEF Told, Suits, Clean, RequestSuits
<1>9. \/ sw' = sw
      \/ Authentic(d) /\ sw' = [Apply(sw, d.change) EXCEPT !.failures = 0]
      \/ ~Authentic(d) /\ sw' = [sw EXCEPT !.failures = IF sw.auth = "v2" THEN @ + 1 ELSE @]
  BY <1>7 DEF ServeWrite
<1>10. sw' # [Apply(sw, d.change) EXCEPT !.failures = 0]
  BY <1>2, <1>8, Applied
<1>11. ~Authentic(d) /\ sw.auth = "v2"
  BY <1>2, <1>9, <1>10 DEF Shaped
<1> QED BY <1>7, <1>8, <1>11 DEF CleanRequest, Authentic, FreshSalt

THEOREM RefusedOnlyByRivalProved == Spec => RefusedOnlyByRival
<1> DEFINE Rival(d) == (stray = 0 /\ d \notin requests' /\ sw'.failures > sw.failures)
                         => sw.salt # NoSalt /\ sw.salt[1] # d.client
<1>1. StrayInv /\ [Next]_vars => [\A d \in requests : Rival(d)]_vars
  BY RefusalHasRival
<1> QED BY <1>1, StrayInvIsInductive, PTL DEF Spec, RefusedOnlyByRival

(***************************************************************************)
(* A client alone, with nothing stray, moves the named port in the named   *)
(* VLAN and no other: the table it read is still the switch's when its     *)
(* write is carried out (nsdp_write.py _members_after).                    *)
(***************************************************************************)
LEMMA OneMoves ==
    ASSUME StrayInv, Next, stray = 0, Alone,
           NEW v \in DOMAIN sw.table \cap DOMAIN sw'.table, NEW p \in Port,
           ~(/\ In(sw', p, v) <=> In(sw, p, v)
             /\ Tagged(sw', p, v) <=> Tagged(sw, p, v))
    PROVE  \E w \in Writer : op[w].kind = "membership" /\ op[w].vlan = v /\ op[w].port = p
<1>1. Told
  BY DEF StrayInv
<1>2. ~SameBits(Of(sw'.table, v), Of(sw.table, v), p)
  BY DEF In, Tagged, SameBits
<1>3. Serve
  BY <1>2, OnlyServeWrites DEF SameBits
<1>4. PICK d \in requests, is \in {"read", "denied", "written"} : Served(d, is)
  BY <1>1, <1>3, ServeServes
<1>5. is = "written" /\ sw' = [Apply(sw, d.change) EXCEPT !.failures = 0] /\ d.what = "write"
  BY <1>2, <1>4 DEF Served, SameBits
<1>6. Current(Key(d)) /\ d.client \in Writer
  <2>1. Key(d) \in Flying /\ Key(d)[1] = d.client
    BY DEF Flying, Key
  <2> QED BY <1>1, <2>1 DEF Told, Ordered, FewStrays, Numbered
<1>7. Writable(d.change) /\ Does(d.change, op[d.client]) /\ Narrow(d.change, op[d.client])
  BY <1>1, <1>5, <1>6 DEF Told, Suits, Clean, RequestSuits, CleanRequest
<1>8. Shaped(sw)
  BY <1>1 DEF Told, Ordered, Typed
<1>9. /\ d.change.tag = "pvid" => sw'.table = sw.table
      /\ d.change.tag = "members" =>
           \A x : Of(sw'.table, x) = IF x = d.change.vlan THEN d.change.to ELSE Of(sw.table, x)
      /\ d.change.tag = "destroy" => \A x \in DOMAIN sw'.table : sw'.table[x] = sw.table[x]
  BY <1>5, <1>7, <1>8, Applied
<1>10. d.change.tag = "members" /\ d.change.vlan = v
  <2>1. d.change.tag # "pvid"
    BY <1>2, <1>9 DEF SameBits
  <2>2. d.change.tag # "destroy"
    BY <1>2, <1>9 DEF SameBits, Of
  <2>3. d.change.tag = "members"
    BY <1>7, <2>1, <2>2 DEF Writable
  <2> QED BY <1>2, <1>9, <2>3 DEF SameBits
<1>11. op[d.client].kind = "membership" /\ p = op[d.client].port
  BY <1>2, <1>7, <1>9, <1>10 DEF Narrow, SameBits
<1> QED BY <1>6, <1>7, <1>10, <1>11 DEF Does

THEOREM OnlyNamedPortMovesProved == Spec => OnlyNamedPortMoves
<1> DEFINE Moves(v, p) == ~(/\ In(sw', p, v) <=> In(sw, p, v)
                            /\ Tagged(sw', p, v) <=> Tagged(sw, p, v))
           Named(v, p) == \E w \in Writer :
                            op[w].kind = "membership" /\ op[w].vlan = v /\ op[w].port = p
           Only == stray = 0 /\ (\A w, x \in Writer : Called(w) /\ Called(x) => w = x) =>
                     \A v \in DOMAIN sw.table \cap DOMAIN sw'.table, p \in Port :
                       Moves(v, p) => Named(v, p)
<1>1. StrayInv /\ [Next]_vars => [Only]_vars
  BY OneMoves DEF Alone
<1> QED BY <1>1, StrayInvIsInductive, PTL DEF Spec, OnlyNamedPortMoves
=============================================================================
