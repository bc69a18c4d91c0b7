-------------------------- MODULE HttpWriterProofs --------------------------
(***************************************************************************)
(* What TLAPS proves of HttpWriter: its safety properties, for any number  *)
(* of callers, ports and VLANs, whatever the callers call, and whatever    *)
(* the connections, the sessions and the other managers do.                *)
(***************************************************************************)
EXTENDS HttpWriter, SequenceTheorems, WellFoundedInduction, TLAPS

Request == Gets \cup PostReads \cup Forms

-----------------------------------------------------------------------------
(***************************************************************************)
(* Lists of requests.                                                      *)
(***************************************************************************)
LEMMA TailFacts ==
    ASSUME NEW R, NEW s \in Seq(R), s # <<>>
    PROVE  /\ Len(s) \in Nat /\ Len(s) >= 1
           /\ Head(s) = s[1] /\ Head(s) \in R
           /\ Tail(s) \in Seq(R) /\ Len(Tail(s)) = Len(s) - 1
           /\ \A i \in 1..Len(s) - 1 : Tail(s)[i] = s[i + 1]
OBVIOUS

LEMMA NotEmpty ==
    ASSUME NEW R, NEW s \in Seq(R)
    PROVE  s # <<>> <=> Len(s) >= 1
OBVIOUS

LEMMA TailTwice ==
    ASSUME NEW R, NEW s \in Seq(R), Len(s) >= 3
    PROVE  /\ Tail(s) \in Seq(R) /\ Tail(s) # <<>>
           /\ Tail(Tail(s)) \in Seq(R) /\ Tail(Tail(s)) # <<>>
           /\ Tail(Tail(s))[1] = s[3]
<1>1. s # <<>> /\ Len(s) \in Nat
  OBVIOUS
<1>2. /\ Tail(s) \in Seq(R) /\ Len(Tail(s)) = Len(s) - 1
      /\ \A i \in 1..Len(s) - 1 : Tail(s)[i] = s[i + 1]
  BY <1>1, TailFacts
<1> DEFINE t == Tail(s)
<1>3. t \in Seq(R) /\ Len(t) >= 2 /\ t[2] = s[3]
  BY <1>1, <1>2
<1> HIDE DEF t
<1>4. t # <<>> /\ Tail(t) \in Seq(R) /\ Len(Tail(t)) >= 1 /\ Tail(t)[1] = t[2]
  BY <1>3, TailFacts
<1>5. Tail(t) # <<>>
  BY <1>4, NotEmpty
<1> QED BY <1>3, <1>4, <1>5 DEF t

\* What the concatenations that make up a plan come to.
LEMMA OneBeforeThree ==
    ASSUME NEW a \in Request, NEW c \in Request, NEW e \in Request, NEW f \in Request
    PROVE  <<a>> \o <<c, e, f>> = <<a, c, e, f>>
<1> DEFINE z == <<c, e, f>>
<1>1. z \in Seq(Request) /\ Len(z) = 3 /\ z[1] = c /\ z[2] = e /\ z[3] = f
  OBVIOUS
<1> HIDE DEF z
<1>2. <<a>> \o z = <<a, c, e, f>>
  <2> DEFINE x == <<a>>
             y == <<a, c, e, f>>
  <2>1. x \in Seq(Request) /\ Len(x) = 1 /\ x[1] = a
    OBVIOUS
  <2>2. y \in Seq(Request) /\ Len(y) = 4 /\ y[1] = a /\ y[2] = c /\ y[3] = e /\ y[4] = f
    OBVIOUS
  <2> HIDE DEF x, y
  <2>7. /\ x \o z \in Seq(Request)
        /\ Len(x \o z) = Len(x) + Len(z)
        /\ \A i \in 1..Len(x) + Len(z) :
             (x \o z)[i] = IF i <= Len(x) THEN x[i] ELSE z[i - Len(x)]
    BY <1>1, <2>1, ConcatProperties, Zenon
  <2> DEFINE xz == x \o z
  <2> HIDE DEF xz
  <2>3. xz \in Seq(Request) /\ Len(xz) = 4
    BY <1>1, <2>1, <2>7 DEF xz
  <2>4. \A i \in 1..4 : xz[i] = IF i <= 1 THEN x[i] ELSE z[i - 1]
    BY <1>1, <2>1, <2>7 DEF xz
  <2>5. \A i \in 1..4 : xz[i] = y[i]
    BY <1>1, <2>1, <2>2, <2>4
  <2>6. xz = y
    BY <2>2, <2>3, <2>5, SeqEqual
  <2> QED BY <2>6 DEF x, y, xz
<1> QED BY <1>2 DEF z

LEMMA TwoBeforeThree ==
    ASSUME NEW a \in Request, NEW b \in Request, NEW c \in Request,
           NEW e \in Request, NEW f \in Request
    PROVE  <<a, b>> \o <<c, e, f>> = <<a, b, c, e, f>>
<1> DEFINE z == <<c, e, f>>
<1>1. z \in Seq(Request) /\ Len(z) = 3 /\ z[1] = c /\ z[2] = e /\ z[3] = f
  OBVIOUS
<1> HIDE DEF z
<1>2. <<a, b>> \o z = <<a, b, c, e, f>>
  <2> DEFINE x == <<a, b>>
             y == <<a, b, c, e, f>>
  <2>1. x \in Seq(Request) /\ Len(x) = 2 /\ x[1] = a /\ x[2] = b
    OBVIOUS
  <2>2. /\ y \in Seq(Request) /\ Len(y) = 5 /\ y[1] = a /\ y[2] = b
        /\ y[3] = c /\ y[4] = e /\ y[5] = f
    OBVIOUS
  <2> HIDE DEF x, y
  <2>7. /\ x \o z \in Seq(Request)
        /\ Len(x \o z) = Len(x) + Len(z)
        /\ \A i \in 1..Len(x) + Len(z) :
             (x \o z)[i] = IF i <= Len(x) THEN x[i] ELSE z[i - Len(x)]
    BY <1>1, <2>1, ConcatProperties, Zenon
  <2> DEFINE xz == x \o z
  <2> HIDE DEF xz
  <2>3. xz \in Seq(Request) /\ Len(xz) = 5
    BY <1>1, <2>1, <2>7 DEF xz
  <2>4. \A i \in 1..5 : xz[i] = IF i <= 2 THEN x[i] ELSE z[i - 2]
    BY <1>1, <2>1, <2>7 DEF xz
  <2>5. \A i \in 1..5 : xz[i] = y[i]
    BY <1>1, <2>1, <2>2, <2>4
  <2>6. xz = y
    BY <2>2, <2>3, <2>5, SeqEqual
  <2> QED BY <2>6 DEF x, y, xz
<1> QED BY <1>2 DEF z

\* What is left of a call of o at a switch of dialect d.
Verifies == {"verify", "reselect"}
Buttons  == {"cycle", "reboot", "upload"}

OnceEach(s) == \A i, j \in 1..Len(s) : s[i] = s[j] /\ s[i] \in Forms => i = j

Closing(o, s) ==
    \A i \in 1..Len(s) :
        /\ s[i] \in Verifies => i = Len(s)
        /\ o.kind \notin Buttons /\ i = Len(s) => s[i] \in Verifies
        /\ o.kind = "upload" => s[i] = "press"
        /\ s[i] \in {"poll", "postOff", "postOn"} => o.kind = "cycle"
        /\ s[i] = "post" => o.kind \notin Buttons
        /\ s[i] = "press" => o.kind \in Buttons

Leading(d, o, s) ==
    \A i \in 1..Len(s) :
        /\ s[i] \in {"list", "select"} => o.kind = "member"
        /\ s[i] \in {"guardList", "guard"} => o.kind = "delete"
        /\ s[i] = "list" => i + 2 <= Len(s) /\ s[i + 1] = "select" /\ s[i + 2] = "post"
        /\ s[i] = "guardList" => i + 2 <= Len(s) /\ s[i + 1] = "guard"
        /\ s[i] = "post" /\ i > 1 /\ o.kind = "member" /\ d \in {"cgi", "xui"} =>
             s[i - 1] = "select"

Fits(d, o, s) == OnceEach(s) /\ Closing(o, s) /\ Leading(d, o, s)

LEMMA FitsTail ==
    ASSUME NEW d, NEW o, NEW s \in Seq(Request), s # <<>>, Fits(d, o, s)
    PROVE  Fits(d, o, Tail(s))
<1> DEFINE t == Tail(s)
<1>1. /\ Len(s) \in Nat /\ Len(s) >= 1 /\ Len(t) = Len(s) - 1
      /\ \A i \in 1..Len(t) : i + 1 \in 1..Len(s) /\ t[i] = s[i + 1]
  BY TailFacts
<1> HIDE DEF t
<1>2. OnceEach(t)
  BY <1>1 DEF Fits, OnceEach
<1>3. Closing(o, t)
  BY <1>1 DEF Fits, Closing
<1>4. Leading(d, o, t)
  <2> SUFFICES ASSUME NEW i \in 1..Len(t)
               PROVE  /\ t[i] \in {"list", "select"} => o.kind = "member"
                      /\ t[i] \in {"guardList", "guard"} => o.kind = "delete"
                      /\ t[i] = "list" => i + 2 <= Len(t) /\ t[i + 1] = "select" /\ t[i + 2] = "post"
                      /\ t[i] = "guardList" => i + 2 <= Len(t) /\ t[i + 1] = "guard"
                      /\ t[i] = "post" /\ i > 1 /\ o.kind = "member" /\ d \in {"cgi", "xui"} =>
                           t[i - 1] = "select"
    BY DEF Leading
  <2>1. i + 1 \in 1..Len(s) /\ t[i] = s[i + 1]
    BY <1>1
  <2>2. t[i] \in {"list", "guardList"} => i + 1 + 2 <= Len(s)
    BY <2>1 DEF Fits, Leading
  <2>3. t[i] \in {"list", "guardList"} =>
          i + 2 <= Len(t) /\ t[i + 1] = s[i + 2] /\ t[i + 2] = s[i + 3]
    BY <1>1, <2>2
  <2>4. i > 1 => t[i - 1] = s[i]
    BY <1>1
  <2>5. /\ t[i] = "list" => s[i + 2] = "select" /\ s[i + 3] = "post"
        /\ t[i] = "guardList" => s[i + 2] = "guard"
    BY <2>1 DEF Fits, Leading
  <2>6. t[i] = "post" /\ o.kind = "member" /\ d \in {"cgi", "xui"} => s[i] = "select"
    <3>1. (i + 1) - 1 = i /\ i + 1 > 1
      OBVIOUS
    <3>2. \A j \in 1..Len(s) :
            s[j] = "post" /\ j > 1 /\ o.kind = "member" /\ d \in {"cgi", "xui"} => s[j - 1] = "select"
      BY DEF Fits, Leading
    <3>3. s[i + 1] = "post" /\ o.kind = "member" /\ d \in {"cgi", "xui"} => s[(i + 1) - 1] = "select"
      BY <2>1, <3>1, <3>2
    <3> QED BY <2>1, <3>1, <3>3
  <2>7. /\ t[i] \in {"list", "select"} => o.kind = "member"
        /\ t[i] \in {"guardList", "guard"} => o.kind = "delete"
    BY <2>1 DEF Fits, Leading
  <2>8. t[i] = "post" /\ i > 1 /\ o.kind = "member" /\ d \in {"cgi", "xui"} => t[i - 1] = "select"
    BY <2>4, <2>6
  <2>9. t[i] = "list" => i + 2 <= Len(t) /\ t[i + 1] = "select" /\ t[i + 2] = "post"
    BY <2>3, <2>5
  <2>10. t[i] = "guardList" => i + 2 <= Len(t) /\ t[i + 1] = "guard"
    BY <2>3, <2>5
  <2> QED BY <2>7, <2>8, <2>9, <2>10
<1> QED BY <1>2, <1>3, <1>4 DEF Fits, t

LEMMA FitsLastLook == \A d, o : o.kind = "cycle" => Fits(d, o, <<"lastLook">>)
<1> SUFFICES ASSUME NEW d, NEW o, o.kind = "cycle" PROVE Fits(d, o, <<"lastLook">>)
  OBVIOUS
<1> DEFINE s == <<"lastLook">>
<1>1. Len(s) = 1 /\ \A i \in 1..Len(s) : i = 1 /\ s[i] = "lastLook"
  OBVIOUS
<1> HIDE DEF s
<1> QED BY <1>1 DEF Fits, OnceEach, Closing, Leading, Verifies, Buttons, Forms

\* A call's requests fit, do not begin with a form that needs a page, and
\* begin with the guard or the page where there is one.
LEMMA RequestsFit ==
    ASSUME NEW d \in Dialect, NEW o \in Operation, o.kind \in Serves(d)
    PROVE  LET s == Requests(d, o) IN
           /\ s \in Seq(Request) /\ s # <<>> /\ Fits(d, o, s)
           /\ s[1] # "post"
           /\ o.kind = "delete" /\ ~o.force => s[1] = "guardList"
           /\ o.kind = "rename" => s[1] = "page"
<1> DEFINE Good(s) == /\ s \in Seq(Request) /\ s # <<>> /\ Fits(d, o, s)
                      /\ s[1] # "post"
                      /\ o.kind = "delete" /\ ~o.force => s[1] = "guardList"
                      /\ o.kind = "rename" => s[1] = "page"
<1> USE DEF Fits, OnceEach, Closing, Leading, Verifies, Buttons, Forms, Gets, PostReads, Request
<1>1. ASSUME o.kind \notin {"member", "cycle", "delete", "reboot", "upload"} \/ (o.kind = "delete" /\ o.force)
             \/ (o.kind = "member" /\ d = "xml")
      PROVE  Good(<<"page", "post", "verify">>)
  <2> DEFINE s == <<"page", "post", "verify">>
  <2>1. /\ s \in Seq(Request) /\ s # <<>> /\ Len(s) = 3
        /\ s[1] = "page" /\ s[2] = "post" /\ s[3] = "verify"
    OBVIOUS
  <2>2. \A i \in 1..Len(s) : i \in {1, 2, 3}
    BY <2>1
  <2> HIDE DEF s
  <2> QED BY <1>1, <2>1, <2>2
<1>2. ASSUME o.kind = "member" /\ d = "cgi"
      PROVE  Good(<<"select", "post", "reselect">>)
  <2> DEFINE s == <<"select", "post", "reselect">>
  <2>1. /\ s \in Seq(Request) /\ s # <<>> /\ Len(s) = 3
        /\ s[1] = "select" /\ s[2] = "post" /\ s[3] = "reselect"
    OBVIOUS
  <2>2. \A i \in 1..Len(s) : i \in {1, 2, 3}
    BY <2>1
  <2> HIDE DEF s
  <2> QED BY <1>2, <2>1, <2>2
<1>3. ASSUME o.kind = "member" /\ d = "xui"
      PROVE  Good(<<"list", "select", "post", "relist", "reselect">>)
  <2> DEFINE s == <<"list", "select", "post", "relist", "reselect">>
  <2>1. /\ s \in Seq(Request) /\ s # <<>> /\ Len(s) = 5
        /\ s[1] = "list" /\ s[2] = "select" /\ s[3] = "post" /\ s[4] = "relist"
        /\ s[5] = "reselect"
    OBVIOUS
  <2>2. \A i \in 1..Len(s) : i \in {1, 2, 3, 4, 5}
    BY <2>1
  <2> HIDE DEF s
  <2> QED BY <1>3, <2>1, <2>2
<1>4. ASSUME o.kind = "poe"
      PROVE  Good(<<"status", "page", "post", "verify">>)
  <2> DEFINE s == <<"status", "page", "post", "verify">>
  <2>1. /\ s \in Seq(Request) /\ s # <<>> /\ Len(s) = 4
        /\ s[1] = "status" /\ s[2] = "page" /\ s[3] = "post" /\ s[4] = "verify"
    OBVIOUS
  <2>2. \A i \in 1..Len(s) : i \in {1, 2, 3, 4}
    BY <2>1
  <2> HIDE DEF s
  <2> QED BY <1>4, <2>1, <2>2
<1>5. ASSUME o.kind = "pvid"
      PROVE  Good(<<"known", "page", "post", "verify">>)
  <2> DEFINE s == <<"known", "page", "post", "verify">>
  <2>1. /\ s \in Seq(Request) /\ s # <<>> /\ Len(s) = 4
        /\ s[1] = "known" /\ s[2] = "page" /\ s[3] = "post" /\ s[4] = "verify"
    OBVIOUS
  <2>2. \A i \in 1..Len(s) : i \in {1, 2, 3, 4}
    BY <2>1
  <2> HIDE DEF s
  <2> QED BY <1>5, <2>1, <2>2
<1>6. ASSUME o.kind = "collector"
      PROVE  Good(<<"page", "hosts", "post", "verify">>)
  <2> DEFINE s == <<"page", "hosts", "post", "verify">>
  <2>1. /\ s \in Seq(Request) /\ s # <<>> /\ Len(s) = 4
        /\ s[1] = "page" /\ s[2] = "hosts" /\ s[3] = "post" /\ s[4] = "verify"
    OBVIOUS
  <2>2. \A i \in 1..Len(s) : i \in {1, 2, 3, 4}
    BY <2>1
  <2> HIDE DEF s
  <2> QED BY <1>6, <2>1, <2>2
<1>7. ASSUME o.kind = "delete" /\ ~o.force
      PROVE  Good(<<"guardList", "guard", "page", "post", "verify">>)
  <2> DEFINE s == <<"guardList", "guard", "page", "post", "verify">>
  <2>1. /\ s \in Seq(Request) /\ s # <<>> /\ Len(s) = 5
        /\ s[1] = "guardList" /\ s[2] = "guard" /\ s[3] = "page" /\ s[4] = "post"
        /\ s[5] = "verify"
    OBVIOUS
  <2>2. \A i \in 1..Len(s) : i \in {1, 2, 3, 4, 5}
    BY <2>1
  <2> HIDE DEF s
  <2> QED BY <1>7, <2>1, <2>2
<1>8. ASSUME o.kind \in {"cycle", "reboot"}
      PROVE  Good(<<"page", "press">>)
  <2> DEFINE s == <<"page", "press">>
  <2>1. /\ s \in Seq(Request) /\ s # <<>> /\ Len(s) = 2
        /\ s[1] = "page" /\ s[2] = "press"
    OBVIOUS
  <2>2. \A i \in 1..Len(s) : i \in {1, 2}
    BY <2>1
  <2> HIDE DEF s
  <2> QED BY <1>8, <2>1, <2>2
<1>9. ASSUME o.kind = "upload"
      PROVE  Good(<<"press">>)
  <2> DEFINE s == <<"press">>
  <2>1. /\ s \in Seq(Request) /\ s # <<>> /\ Len(s) = 1
        /\ s[1] = "press"
    OBVIOUS
  <2>2. \A i \in 1..Len(s) : i \in {1}
    BY <2>1
  <2> HIDE DEF s
  <2> QED BY <1>9, <2>1, <2>2
<1>10. ASSUME o.kind = "cycle"
      PROVE  Good(<<"status", "status", "postOff", "verifyOff", "status", "postOn", "verifyOn", "poll">>)
  <2> DEFINE s == <<"status", "status", "postOff", "verifyOff", "status", "postOn", "verifyOn", "poll">>
  <2>1. /\ s \in Seq(Request) /\ s # <<>> /\ Len(s) = 8
        /\ s[1] = "status" /\ s[2] = "status" /\ s[3] = "postOff" /\ s[4] = "verifyOff"
        /\ s[5] = "status" /\ s[6] = "postOn" /\ s[7] = "verifyOn" /\ s[8] = "poll"
    OBVIOUS
  <2>2. \A i \in 1..Len(s) : i \in {1, 2, 3, 4, 5, 6, 7, 8}
    BY <2>1
  <2> HIDE DEF s
  <2> QED BY <1>10, <2>1, <2>2
<1> HIDE DEF Good, Fits, OnceEach, Closing, Leading, Verifies, Buttons, Forms, Gets, PostReads, Request
<1>11. FieldRequests = <<"page", "post", "verify">>
  BY DEF FieldRequests
<1>12. /\ <<"status">> \o <<"page", "post", "verify">> = <<"status", "page", "post", "verify">>
       /\ <<"known">> \o <<"page", "post", "verify">> = <<"known", "page", "post", "verify">>
       /\ <<>> \o <<"page", "post", "verify">> = <<"page", "post", "verify">>
       /\ <<"guardList", "guard">> \o <<"page", "post", "verify">>
            = <<"guardList", "guard", "page", "post", "verify">>
  <2>1. /\ "status" \in Request /\ "known" \in Request /\ "guardList" \in Request
        /\ "guard" \in Request /\ "page" \in Request /\ "post" \in Request
        /\ "verify" \in Request
    BY DEF Request, Gets, PostReads, Forms
  <2>2. <<>> \o <<"page", "post", "verify">> = <<"page", "post", "verify">>
    <3>1. <<"page", "post", "verify">> \in Seq(Request)
      BY <2>1
    <3> QED BY <3>1, ConcatEmptySeq, Zenon
  <2>3. <<"status">> \o <<"page", "post", "verify">> = <<"status", "page", "post", "verify">>
    BY <2>1, OneBeforeThree
  <2>4. <<"known">> \o <<"page", "post", "verify">> = <<"known", "page", "post", "verify">>
    BY <2>1, OneBeforeThree
  <2>5. <<"guardList", "guard">> \o <<"page", "post", "verify">>
           = <<"guardList", "guard", "page", "post", "verify">>
    BY <2>1, TwoBeforeThree
  <2> QED BY <2>2, <2>3, <2>4, <2>5, Zenon
<1>13. Good(Requests(d, o))
  <2>1. CASE o.kind = "member"
    <3>1. d \in {"cgi", "xui", "xml"}
      BY <2>1 DEF Serves, Dialect
    <3>2. Requests(d, o) = ListRequests(d)
      BY <2>1 DEF Requests
    <3> QED BY <1>1, <1>2, <1>3, <1>11, <2>1, <3>1, <3>2 DEF ListRequests
  <2>2. CASE o.kind = "poe"
    BY <1>1, <1>4, <1>11, <1>12, <2>2 DEF Requests, PoeRequests
  <2>3. CASE o.kind = "cycle"
    BY <1>8, <1>10, <2>3 DEF Requests, CycleRequests, Rearm
  <2>4. CASE o.kind = "pvid"
    BY <1>5, <1>11, <1>12, <2>4 DEF Requests, PvidRequests
  <2>5. CASE o.kind = "collector"
    BY <1>6, <2>5 DEF Requests, CollectorRequests
  <2>6. CASE o.kind = "delete"
    BY <1>1, <1>7, <1>11, <1>12, <2>6 DEF Requests, GuardRequests
  <2>7. CASE o.kind = "reboot"
    BY <1>8, <2>7 DEF Requests
  <2>8. CASE o.kind = "upload"
    BY <1>9, <2>8 DEF Requests
  <2>9. CASE o.kind \notin {"member", "poe", "cycle", "pvid", "collector", "delete", "reboot", "upload"}
    BY <1>1, <1>11, <2>9 DEF Requests
  <2> QED BY <2>1, <2>2, <2>3, <2>4, <2>5, <2>6, <2>7, <2>8, <2>9
<1> QED BY <1>13 DEF Good

-----------------------------------------------------------------------------
(***************************************************************************)
(* The switch.                                                             *)
(***************************************************************************)
\* No members where there is no VLAN; FASTPATH always shows some VLAN.
Sound(s) ==
    /\ s \in WebState
    /\ \A v \in Vlan \ s.vlans : s.member[v] = NoMembers
    /\ s.dialect = "xui" => s.vlans # {}

\* What the form of a call o that has seen "seen" may do to s.
Modest(s, o, seen, t) ==
    /\ t.dialect = s.dialect
    /\ "other" \in s.collectors => "other" \in t.collectors
    /\ o.kind \notin {"rename", "address"} => t.address = s.address
    /\ o.kind = "rename" => t.address \in {s.address, seen.address}
    /\ o.kind = "upload" => t.certified
    /\ \A p \in Port : p # o.port \/ o.kind \notin PortKinds =>
         /\ t.pvid[p] = s.pvid[p] /\ t.admin[p] = s.admin[p]
         /\ \A f \in Setting : t.setting[f][p] = s.setting[f][p]
    /\ o.kind \notin {"member", "delete"} => t.member = s.member
    /\ o.kind = "delete" => t.member = [s.member EXCEPT ![o.vlan] = NoMembers]
    /\ o.kind = "member" /\ s.dialect = "xml" =>
         t.member = [s.member EXCEPT ![o.vlan] = [@ EXCEPT ![o.port] = o.mode]]
    /\ o.kind = "member" /\ s.dialect = "cgi" =>
         \/ t.member = s.member
         \/ t.member = [s.member EXCEPT ![o.vlan] = NewList(seen, o)]
    /\ o.kind = "member" /\ s.dialect = "xui" =>
         t.member = [s.member EXCEPT ![ShownVlan(s, o.vlan)] = NewList(seen, o)]

\* A set of VLAN numbers that is not empty has a lowest one.
LEMMA LowestVlan ==
    ASSUME NEW S, S \subseteq Nat, S # {}
    PROVE  \E i \in S : \A j \in S : i <= j
<1> DEFINE Less == OpToRel(<, Nat)
<1>1. IsWellFoundedOn(Less, Nat)
  BY NatLessThanWellFounded
<1>2. PICK i \in S : \A j \in S : <<j, i>> \notin Less
  BY <1>1, WFMin
<1>3. Less = {ss \in Nat \X Nat : ss[1] < ss[2]}
  BY DEF OpToRel
<1> HIDE DEF Less
<1>4. ASSUME NEW j \in S PROVE ~(j < i)
  <2> SUFFICES ASSUME j < i PROVE <<j, i>> \in Less
    BY <1>2
  <2>1. <<j, i>> \in Nat \X Nat /\ <<j, i>>[1] = j /\ <<j, i>>[2] = i
    BY <1>2
  <2> QED BY <1>3, <2>1
<1> QED BY <1>2, <1>4

LEMMA ShownVlanThere ==
    ASSUME NEW s \in WebState, s.vlans # {}, NEW v
    PROVE  ShownVlan(s, v) \in s.vlans
<1>1. s.vlans \subseteq Nat
  BY WebUiAssumption DEF WebState
<1>2. \E x \in s.vlans : \A y \in s.vlans : x <= y
  BY <1>1, LowestVlan
<1> QED BY <1>2 DEF ShownVlan

\* Which form goes with which call.
Suits(o, r) ==
    /\ r \in Forms
    /\ r \in {"postOff", "postOn"} => o.kind = "cycle"
    /\ r = "post" => o.kind \notin Buttons

LEMMA NewListTyped ==
    ASSUME NEW o \in Operation, NEW seen \in Saw
    PROVE  NewList(seen, o) \in [Port -> Mode]
BY DEF Operation, Saw, NewList, Mode

LEMMA EffectModest ==
    ASSUME NEW s, Sound(s), NEW o \in Operation, o.kind \in Serves(s.dialect),
           NEW seen \in Saw, NEW r, Suits(o, r), Accepts(s, o, seen)
    PROVE  LET t == Effect(s, o, seen, r) IN Sound(t) /\ Modest(s, o, seen, t)
<1> DEFINE Good(t) == Sound(t) /\ Modest(s, o, seen, t)
<1>1. /\ s \in WebState /\ o.port \in Port /\ o.vlan \in Vlan /\ o.on \in BOOLEAN
      /\ o.mode \in Mode /\ seen.address \in Address /\ s.dialect \in Dialect
  BY DEF Sound, WebState, Operation, Saw
<1> USE DEF WebState, Sound, Modest
<1>2. ASSUME o.kind \in {"cycle", "poe"}, NEW on \in BOOLEAN
      PROVE  Good(WritePoeAdmin(s, o.port, on))
  BY <1>1, <1>2 DEF WritePoeAdmin, PortKinds
<1>3. ASSUME o.kind = "cycle" PROVE Good(PressReset(s, o.port))
  BY <1>1, <1>3 DEF PressReset, PortKinds, Detect
<1>4. ASSUME o.kind = "reboot" PROVE Good(s)
  BY <1>1, <1>4
<1>5. ASSUME o.kind \in Setting PROVE Good(WriteSetting(s, o.kind, o.port, o.on))
  BY <1>1, <1>5 DEF WriteSetting, PortKinds, Setting
<1>6. ASSUME o.kind = "pvid" PROVE Good(WritePvid(s, o.port, o.vlan))
  BY <1>1, <1>6 DEF WritePvid, PortKinds
<1>7. ASSUME o.kind = "create" PROVE Good(CreateVlan(s, o.vlan))
  BY <1>1, <1>7 DEF CreateVlan
<1>8. ASSUME o.kind = "delete" PROVE Good(DeleteVlan(s, o.vlan))
  BY <1>1, <1>8 DEF DeleteVlan, NoMembers, Mode, Serves
<1>9. ASSUME o.kind = "address" PROVE Good(WriteAddress(s, "new"))
  BY <1>1, <1>9 DEF WriteAddress, Address
<1>10. ASSUME o.kind = "collector" PROVE Good(RemoveCollector(s, "named"))
  BY <1>1, <1>10 DEF RemoveCollector, Host
<1>11. ASSUME o.kind = "upload" PROVE Good(Certify(s))
  BY <1>1, <1>11 DEF Certify
<1>12. ASSUME o.kind = "rename"
       PROVE  Good(WriteNameAndAddress(s, o.on, EchoedAddress(seen))) /\ Good(WriteName(s, o.on))
  BY <1>1, <1>12 DEF WriteNameAndAddress, WriteName, EchoedAddress
<1>13. ASSUME o.kind = "member", s.dialect = "cgi" PROVE Good(WriteList(s, o.vlan, NewList(seen, o)))
  BY <1>1, <1>13, NewListTyped DEF WriteList
<1>14. ASSUME o.kind = "member", s.dialect = "xui" PROVE Good(WriteShownList(s, o.vlan, NewList(seen, o)))
  <2> DEFINE x == ShownVlan(s, o.vlan)
  <2>1. x \in s.vlans
    BY <1>14, ShownVlanThere
  <2>2. NewList(seen, o) \in [Port -> Mode]
    BY NewListTyped
  <2>3. WriteShownList(s, o.vlan, NewList(seen, o)) = [s EXCEPT !.member[x] = NewList(seen, o)]
    BY DEF WriteShownList
  <2> HIDE DEF x
  <2>4. LET t == [s EXCEPT !.member[x] = NewList(seen, o)] IN
        /\ Sound(t)
        /\ t.member = [s.member EXCEPT ![x] = NewList(seen, o)]
        /\ t.dialect = s.dialect /\ t.collectors = s.collectors /\ t.address = s.address
        /\ t.pvid = s.pvid /\ t.admin = s.admin /\ t.setting = s.setting
    BY <1>1, <2>1, <2>2
  <2> DEFINE t == WriteShownList(s, o.vlan, NewList(seen, o))
  <2>5. /\ t = [s EXCEPT !.member[x] = NewList(seen, o)]
        /\ Sound(t) /\ t.member = [s.member EXCEPT ![x] = NewList(seen, o)]
        /\ t.dialect = s.dialect /\ t.collectors = s.collectors /\ t.address = s.address
        /\ t.pvid = s.pvid /\ t.admin = s.admin /\ t.setting = s.setting
    BY <2>3, <2>4
  <2>6. Sound(t)
    BY <2>5
  <2> HIDE DEF t
  <2>7. Modest(s, o, seen, t)
    BY <1>1, <1>14, <2>5 DEF x
  <2> QED BY <2>6, <2>7 DEF t
<1>15. ASSUME o.kind = "member", s.dialect = "xml" PROVE Good(WriteMember(s, o.vlan, o.port, o.mode))
  BY <1>1, <1>15 DEF WriteMember, Accepts
<1> DEFINE t == Effect(s, o, seen, r)
<1> SUFFICES Good(t)
  OBVIOUS
<1> HIDE DEF Good, WebState, Sound, Modest
<1>16. CASE o.kind \in {"cycle", "reboot"}
  <2>1. o.kind = "cycle" => r \in {"postOff", "postOn", "press"}
    BY DEF Suits, Forms, Buttons
  <2>2. o.kind = "reboot" => r \notin {"postOff", "postOn"}
    BY DEF Suits
  <2>3. r = "postOff" => t = WritePoeAdmin(s, o.port, FALSE)
    BY <1>16, <2>1, <2>2 DEF Effect, Setting
  <2>4. r = "postOn" => t = WritePoeAdmin(s, o.port, TRUE)
    BY <1>16, <2>1, <2>2 DEF Effect, Setting
  <2>5. o.kind = "cycle" /\ r = "press" => t = PressReset(s, o.port)
    BY DEF Effect, Setting
  <2>6. o.kind = "reboot" => t = s
    BY <2>2 DEF Effect, Setting
  <2> HIDE DEF t
  <2>7. CASE r = "postOff" /\ o.kind = "cycle"
    BY <1>2, <2>3, <2>7
  <2>8. CASE r = "postOn" /\ o.kind = "cycle"
    BY <1>2, <2>4, <2>8
  <2>9. CASE r = "press" /\ o.kind = "cycle"
    BY <1>3, <2>5, <2>9
  <2>10. CASE o.kind = "reboot"
    BY <1>4, <2>6, <2>10
  <2> QED BY <1>16, <2>1, <2>2, <2>7, <2>8, <2>9, <2>10
<1>17. CASE o.kind = "member"
  <2>1. s.dialect \in {"cgi", "xui", "xml"}
    BY <1>1, <1>17 DEF Serves, Dialect
  <2>2. r \notin {"postOff", "postOn"}
    BY <1>17 DEF Suits
  <2>3. /\ s.dialect = "cgi" => t = WriteList(s, o.vlan, NewList(seen, o))
        /\ s.dialect = "xui" => t = WriteShownList(s, o.vlan, NewList(seen, o))
        /\ s.dialect = "xml" => t = WriteMember(s, o.vlan, o.port, o.mode)
    BY <1>17, <2>2 DEF Effect, Setting
  <2> HIDE DEF t
  <2> QED BY <1>13, <1>14, <1>15, <1>17, <2>1, <2>3
<1>18. CASE o.kind \notin {"cycle", "reboot", "member"}
  <2>1. r \notin {"postOff", "postOn"}
    BY <1>18 DEF Suits
  <2>2. o.kind \in Setting \cup {"poe", "pvid", "create", "delete", "address", "collector", "upload", "rename"}
    BY <1>18 DEF Operation, Kinds, PortKinds, Drastic
  <2>3. CASE o.kind \in Setting
    <3>1. t = WriteSetting(s, o.kind, o.port, o.on)
      BY <2>1, <2>3 DEF Effect, Setting
    <3> HIDE DEF t
    <3> QED BY <1>5, <2>3, <3>1
  <2>4. CASE o.kind = "rename"
    <3>1. t \in {WriteNameAndAddress(s, o.on, EchoedAddress(seen)), WriteName(s, o.on)}
      BY <2>1, <2>4 DEF Effect, Setting
    <3> HIDE DEF t
    <3> QED BY <1>12, <2>4, <3>1
  <2>5. CASE o.kind = "poe"
    <3>1. t = WritePoeAdmin(s, o.port, o.on)
      BY <2>1, <2>5 DEF Effect, Setting
    <3> HIDE DEF t
    <3> QED BY <1>1, <1>2, <2>5, <3>1
  <2>6. CASE o.kind = "pvid"
    <3>1. t = WritePvid(s, o.port, o.vlan)
      BY <2>1, <2>6 DEF Effect, Setting
    <3> HIDE DEF t
    <3> QED BY <1>6, <2>6, <3>1
  <2>7. CASE o.kind = "create"
    <3>1. t = CreateVlan(s, o.vlan)
      BY <2>1, <2>7 DEF Effect, Setting
    <3> HIDE DEF t
    <3> QED BY <1>7, <2>7, <3>1
  <2>8. CASE o.kind = "delete"
    <3>1. t = DeleteVlan(s, o.vlan)
      BY <2>1, <2>8 DEF Effect, Setting
    <3> HIDE DEF t
    <3> QED BY <1>8, <2>8, <3>1
  <2>9. CASE o.kind = "address"
    <3>1. t = WriteAddress(s, "new")
      BY <2>1, <2>9 DEF Effect, Setting
    <3> HIDE DEF t
    <3> QED BY <1>9, <2>9, <3>1
  <2>10. CASE o.kind = "collector"
    <3>1. t = RemoveCollector(s, "named")
      BY <2>1, <2>10 DEF Effect, Setting
    <3> HIDE DEF t
    <3> QED BY <1>10, <2>10, <3>1
  <2>11. CASE o.kind = "upload"
    <3>1. t = Certify(s)
      BY <2>1, <2>11 DEF Effect, Setting
    <3> HIDE DEF t
    <3> QED BY <1>11, <2>11, <3>1
  <2> HIDE DEF t
  <2> QED BY <2>2, <2>3, <2>4, <2>5, <2>6, <2>7, <2>8, <2>9, <2>10, <2>11
<1> QED BY <1>16, <1>17, <1>18

-----------------------------------------------------------------------------
(***************************************************************************)
(* The parts of the type invariant, and what every call in flight is.      *)
(***************************************************************************)
Ends == {"idle", "running", "ok", "refused", "failed", "diverged"}

RequestTypeOK ==
    /\ todo \in [Caller -> Seq(Request)]
    /\ end \in [Caller -> Ends]
    /\ \A c \in Caller : Running(c) <=> todo[c] # <<>>
    /\ saw \in [Caller -> Saw]
    /\ again \in [Caller -> BOOLEAN]
    /\ tries \in [Caller -> 0..Retries]
    /\ polls \in [Caller -> 0..MaxPolls]

HistoryTypeOK ==
    /\ late \in [Caller -> BOOLEAN]
    /\ sent \in [Caller -> SUBSET Forms]
    /\ twice \in [Caller -> BOOLEAN]
    /\ held \in [Caller -> BOOLEAN]
    /\ cut \in [Caller -> BOOLEAN]

LEMMA TypeParts ==
    TypeOK <=> /\ ClientTypeOK /\ RequestTypeOK /\ HistoryTypeOK
               /\ web \in WebState /\ \A v \in Vlan \ web.vlans : web.member[v] = NoMembers
               /\ op \in [Caller -> Operation]
               /\ lost \in 0..MaxLoss /\ events \in 0..MaxEvents
               /\ started \in [Caller -> 0..MaxOps]
BY DEF TypeOK, RequestTypeOK, HistoryTypeOK, Request, Ends

LEMMA TypeNext ==
    ASSUME ClientTypeOK', RequestTypeOK', HistoryTypeOK', Sound(web)', op' \in [Caller -> Operation],
           lost' \in 0..MaxLoss, events' \in 0..MaxEvents, started' \in [Caller -> 0..MaxOps]
    PROVE  TypeOK'
BY DEF TypeOK, RequestTypeOK, HistoryTypeOK, Request, Ends, Sound

\* A call in flight has passed the gates, and its requests fit it.
CallsFit ==
    \A c \in Caller : Running(c) =>
        /\ op[c].kind \in Serves(web.dialect)
        /\ ~GuardRaises(op[c])
        /\ Fits(web.dialect, op[c], todo[c])

Base == TypeOK /\ Sound(web) /\ CallsFit

\* The other calls are where they were.
OthersWait(c) ==
    \A d \in Caller \ {c} : todo'[d] = todo[d] /\ end'[d] = end[d] /\ saw'[d] = saw[d]

LEMMA Ongoing ==
    ASSUME Base, NEW c \in Caller, Running(c)
    PROVE  /\ todo[c] \in Seq(Request) /\ todo[c] # <<>> /\ Head(todo[c]) \in Request
           /\ Len(todo[c]) \in Nat /\ Len(todo[c]) >= 1 /\ Head(todo[c]) = todo[c][1]
           /\ Rest(c) \in Seq(Request) /\ Rest(c) = Tail(todo[c])
           /\ op[c] \in Operation /\ saw[c] \in Saw /\ end[c] = "running"
           /\ Fits(web.dialect, op[c], todo[c])
<1>1. todo[c] \in Seq(Request) /\ todo[c] # <<>>
  BY TypeParts DEF Base, RequestTypeOK
<1>2. op[c] \in Operation /\ saw[c] \in Saw
  BY TypeParts DEF Base, RequestTypeOK
<1> QED BY <1>1, <1>2, TailFacts DEF Base, CallsFit, Running, Rest

LEMMA FinishMoves ==
    ASSUME TypeOK, NEW c \in Caller, NEW how \in Ends \ {"running"}, Finish(c, how)
    PROVE  RequestTypeOK' /\ OthersWait(c) /\ todo'[c] = <<>> /\ end'[c] = how /\ saw'[c] = Nothing
<1>1. RequestTypeOK /\ Nothing \in Saw /\ <<>> \in Seq(Request)
  BY TypeParts DEF Nothing, Saw, NoMembers, Mode, Address
<1>2. /\ end' = [end EXCEPT ![c] = how] /\ todo' = [todo EXCEPT ![c] = <<>>]
      /\ saw' = [saw EXCEPT ![c] = Nothing]
  BY DEF Finish
<1>3. todo' \in [Caller -> Seq(Request)] /\ end' \in [Caller -> Ends] /\ saw' \in [Caller -> Saw]
  BY <1>1, <1>2 DEF RequestTypeOK
<1>4. todo'[c] = <<>> /\ end'[c] = how /\ saw'[c] = Nothing /\ OthersWait(c)
  BY <1>1, <1>2 DEF RequestTypeOK, OthersWait
<1>5. \A d \in Caller : Running(d)' <=> todo'[d] # <<>>
  BY <1>1, <1>4 DEF RequestTypeOK, OthersWait, Running
<1>6. /\ polls' = [polls EXCEPT ![c] = 0] /\ again' = [again EXCEPT ![c] = FALSE]
      /\ tries' = [tries EXCEPT ![c] = 0]
  BY DEF Finish
<1>7. 0 \in 0..MaxPolls /\ 0 \in 0..Retries
  BY HttpWriterAssumption
<1>8. polls' \in [Caller -> 0..MaxPolls] /\ again' \in [Caller -> BOOLEAN] /\ tries' \in [Caller -> 0..Retries]
  BY <1>1, <1>6, <1>7 DEF RequestTypeOK
<1> QED BY <1>3, <1>4, <1>5, <1>8 DEF RequestTypeOK

LEMMA GoOnMoves ==
    ASSUME TypeOK, NEW c \in Caller, Running(c), NEW rest \in Seq(Request), NEW s \in Saw,
           GoOn(c, rest, s)
    PROVE  /\ RequestTypeOK' /\ OthersWait(c)
           /\ \/ rest = <<>> /\ todo'[c] = <<>> /\ end'[c] = "ok"
              \/ rest # <<>> /\ todo'[c] = rest /\ end'[c] = "running" /\ saw'[c] = s
<1>1. CASE rest = <<>>
  <2>1. Finish(c, "ok")
    BY <1>1 DEF GoOn
  <2> QED BY <1>1, <2>1, FinishMoves DEF Ends
<1>2. CASE rest # <<>>
  <2>1. /\ todo' = [todo EXCEPT ![c] = rest] /\ saw' = [saw EXCEPT ![c] = s]
        /\ again' = [again EXCEPT ![c] = FALSE] /\ tries' = [tries EXCEPT ![c] = 0]
        /\ end' = end /\ polls' = polls
    BY <1>2 DEF GoOn
  <2>2. RequestTypeOK
    BY TypeParts
  <2>3. /\ todo' \in [Caller -> Seq(Request)] /\ saw' \in [Caller -> Saw]
        /\ todo'[c] = rest /\ saw'[c] = s /\ end'[c] = "running" /\ OthersWait(c)
    BY <2>1, <2>2 DEF RequestTypeOK, OthersWait, Running
  <2>4. \A d \in Caller : Running(d)' <=> todo'[d] # <<>>
    BY <1>2, <2>1, <2>2, <2>3 DEF RequestTypeOK, OthersWait, Running
  <2>5. 0 \in 0..Retries
    BY HttpWriterAssumption
  <2>6. again' \in [Caller -> BOOLEAN] /\ tries' \in [Caller -> 0..Retries]
    BY <2>1, <2>2, <2>5 DEF RequestTypeOK
  <2> QED BY <1>2, <2>1, <2>2, <2>3, <2>4, <2>6 DEF RequestTypeOK
<1> QED BY <1>1, <1>2

-----------------------------------------------------------------------------
(***************************************************************************)
(* What a step of a call amounts to.  It stops, stays where it is, looks   *)
(* once more, passes on to the next request or skips one.                  *)
(***************************************************************************)
Stops(c) == todo'[c] = <<>> /\ end'[c] \in Ends \ {"running"}

Passes(c) == todo'[c] = Tail(todo[c]) /\ todo'[c] # <<>> /\ end'[c] = "running"

Skips(c) ==
    /\ Len(todo[c]) >= 3
    /\ todo'[c] = Tail(Tail(todo[c])) /\ todo'[c] # <<>> /\ end'[c] = "running"
    /\ ~late'[c]
    /\ \/ /\ Head(todo[c]) = "list"
          /\ saw'[c].list = web.member[op[c].vlan] /\ op[c].vlan \in web.vlans
       \/ /\ Head(todo[c]) = "guardList"
          /\ op[c].vlan \notin web.vlans

Stays(c) == todo'[c] = todo[c] /\ end'[c] = "running" /\ saw'[c] = saw[c] /\ late'[c] = late[c]

LooksOnceMore(c) ==
    /\ Head(todo[c]) = "poll"
    /\ todo'[c] = <<"lastLook">> /\ end'[c] = "running" /\ late'[c] = late[c]

Learns(c) ==
    LET h == Head(todo[c]) IN
    /\ IF h = "page" THEN saw'[c].address = web.address ELSE saw'[c].address = saw[c].address
    /\ h = "select" =>
         /\ saw'[c].list = web.member[op[c].vlan]
         /\ web.dialect = "xui" => op[c].vlan \in web.vlans
    /\ h = "guard" => \A p \in Protected : web.member[op[c].vlan][p] = "excluded"
    /\ late'[c] # late[c] =>
         \/ h \in {"list", "select", "guardList", "guard"}
         \/ h = "page" /\ op[c].kind = "rename"

\* A normal return without looking at what the call has done.
Believes(c) == Tail(todo[c]) = <<>> /\ Head(todo[c]) \notin Verifies

Quiet ==
    /\ web' = web /\ op' = op /\ started' = started
    /\ sent' = sent /\ twice' = twice /\ held' = held /\ cut' = cut

Reads(c) ==
    /\ Running(c) /\ Head(todo[c]) \notin Forms
    /\ Quiet /\ OthersWait(c) /\ RequestTypeOK'
    /\ ClientTypeOK' /\ lost' \in 0..MaxLoss /\ events' \in 0..MaxEvents
    /\ late' \in [Caller -> BOOLEAN] /\ \A d \in Caller \ {c} : late'[d] = late[d]
    /\ \/ Stops(c) /\ (end'[c] = "ok" => Verified(c) \/ Head(todo[c]) = "poll" \/ Believes(c))
       \/ Stays(c) \/ LooksOnceMore(c)
       \/ Passes(c) /\ Learns(c)
       \/ Skips(c)

LEMMA Answered ==
    ASSUME Base, NEW c \in Caller, Running(c), NEW s \in Saw, GoOn(c, Rest(c), s)
    PROVE  /\ RequestTypeOK' /\ OthersWait(c)
           /\ \/ Stops(c) /\ end'[c] = "ok" /\ Tail(todo[c]) = <<>>
              \/ Passes(c) /\ saw'[c] = s
<1>1. Rest(c) \in Seq(Request) /\ Rest(c) = Tail(todo[c]) /\ TypeOK
  BY Ongoing DEF Base
<1> QED BY <1>1, GoOnMoves DEF Stops, Passes, Ends

LEMMA Stopped ==
    ASSUME Base, NEW c \in Caller, NEW how \in Ends \ {"running"}, Finish(c, how)
    PROVE  RequestTypeOK' /\ OthersWait(c) /\ Stops(c) /\ end'[c] = how
BY FinishMoves DEF Base, Stops

LEMMA Asked ==
    ASSUME Base, NEW c \in Caller, NEW r \in Request \ Forms, Asks(c, r)
    PROVE  /\ Running(c) /\ Head(todo[c]) = r /\ r \notin Forms /\ Quiet
           /\ ClientTypeOK' /\ lost' \in 0..MaxLoss /\ events' \in 0..MaxEvents
BY TypeParts DEF Asks, Quiet, Base, ClientTypeOK, clientVars

\* A read that keeps what the caller has noticed of others' changes.
LEMMA LateSame ==
    ASSUME Base, UNCHANGED late, NEW c \in Caller
    PROVE  late' \in [Caller -> BOOLEAN] /\ \A d \in Caller : late'[d] = late[d]
BY TypeParts DEF Base, HistoryTypeOK

LEMMA LateSet ==
    ASSUME Base, NEW c \in Caller, NEW b \in BOOLEAN, late' = [late EXCEPT ![c] = b]
    PROVE  /\ late' \in [Caller -> BOOLEAN] /\ late'[c] = b
           /\ \A d \in Caller \ {c} : late'[d] = late[d]
BY TypeParts DEF Base, HistoryTypeOK

LEMMA SawTyped ==
    ASSUME Base, NEW c \in Caller, NEW v, v \in Vlan
    PROVE  /\ saw[c] \in Saw /\ KnowsList(c, v) \in Saw
           /\ KnowsList(c, v).list = web.member[v] /\ KnowsList(c, v).address = saw[c].address
BY TypeParts DEF Base, RequestTypeOK, KnowsList, Saw, WebState

LEMMA GuardReads ==
    ASSUME Base, NEW c \in Caller, GuardStep(c)
    PROVE  Reads(c)
<1> USE DEF Request, Gets, PostReads, Forms
<1>1. saw[c] \in Saw /\ op[c].vlan \in Vlan
  BY TypeParts DEF Base, RequestTypeOK, Operation
<1>2. CASE ReadGuardList(c)
  <2>1. /\ Running(c) /\ Head(todo[c]) = "guardList" /\ Quiet
        /\ ClientTypeOK' /\ lost' \in 0..MaxLoss /\ events' \in 0..MaxEvents
    BY <1>2, Asked DEF ReadGuardList
  <2>2. /\ late' \in [Caller -> BOOLEAN] /\ ~late'[c]
        /\ \A d \in Caller \ {c} : late'[d] = late[d]
    BY <1>2, LateSet DEF ReadGuardList
  <2>3. CASE op[c].vlan \in web.vlans
    <3>1. GoOn(c, Rest(c), saw[c])
      BY <1>2, <2>3 DEF ReadGuardList
    <3> QED BY <1>1, <2>1, <2>2, <3>1, Answered DEF Reads, Learns, Believes, Verifies
  <2>4. CASE op[c].vlan \notin web.vlans
    <3>1. GoOn(c, Tail(Rest(c)), saw[c])
      BY <1>2, <2>4 DEF ReadGuardList
    <3>2. /\ todo[c] \in Seq(Request) /\ todo[c] # <<>> /\ todo[c][1] = "guardList"
          /\ Rest(c) = Tail(todo[c]) /\ 3 <= Len(todo[c])
      BY <2>1, Ongoing DEF Fits, Leading
    <3>3. Len(todo[c]) >= 3
      BY <2>1, <3>2, Ongoing
    <3>4. Tail(Rest(c)) \in Seq(Request) /\ Tail(Rest(c)) # <<>>
      BY <3>2, <3>3, TailTwice
    <3>5. /\ RequestTypeOK' /\ OthersWait(c)
          /\ todo'[c] = Tail(Rest(c)) /\ end'[c] = "running" /\ saw'[c] = saw[c]
      BY <1>1, <2>1, <3>1, <3>4, GoOnMoves DEF Base
    <3> QED BY <2>1, <2>2, <2>4, <3>2, <3>3, <3>4, <3>5 DEF Reads, Skips
  <2> QED BY <2>3, <2>4
<1>3. CASE ReadGuard(c)
  <2>1. /\ Running(c) /\ Head(todo[c]) = "guard" /\ Quiet
        /\ ClientTypeOK' /\ lost' \in 0..MaxLoss /\ events' \in 0..MaxEvents
    BY <1>3, Asked DEF ReadGuard
  <2>2. /\ late' \in [Caller -> BOOLEAN] /\ ~late'[c]
        /\ \A d \in Caller \ {c} : late'[d] = late[d]
    BY <1>3, LateSet DEF ReadGuard
  <2>3. CASE \E p \in Protected : web.member[op[c].vlan][p] # "excluded"
    <3>1. Finish(c, "refused")
      BY <1>3, <2>3 DEF ReadGuard
    <3> QED BY <2>1, <2>2, <3>1, Stopped DEF Reads, Ends
  <2>4. CASE \A p \in Protected : web.member[op[c].vlan][p] = "excluded"
    <3>1. GoOn(c, Rest(c), saw[c])
      BY <1>3, <2>4 DEF ReadGuard
    <3> QED BY <1>1, <2>1, <2>2, <2>4, <3>1, Answered DEF Reads, Learns, Believes, Verifies
  <2> QED BY <2>3, <2>4
<1> QED BY <1>2, <1>3 DEF GuardStep

LEMMA MemberReads ==
    ASSUME Base, NEW c \in Caller, MemberStep(c)
    PROVE  Reads(c)
<1> USE DEF Request, Gets, PostReads, Forms
<1>1. saw[c] \in Saw /\ op[c].vlan \in Vlan /\ web.vlans \subseteq Vlan
  BY TypeParts DEF Base, RequestTypeOK, Operation, WebState
<1>2. CASE ReadList(c)
  <2>1. /\ Running(c) /\ Head(todo[c]) = "list" /\ Quiet
        /\ ClientTypeOK' /\ lost' \in 0..MaxLoss /\ events' \in 0..MaxEvents
    BY <1>2, Asked DEF ReadList
  <2>2. /\ late' \in [Caller -> BOOLEAN] /\ ~late'[c]
        /\ \A d \in Caller \ {c} : late'[d] = late[d]
    BY <1>2, LateSet DEF ReadList
  <2>3. PICK shown \in web.vlans :
          GoOn(c, IF shown = op[c].vlan THEN Tail(Rest(c)) ELSE Rest(c), KnowsList(c, shown))
    BY <1>2 DEF ReadList
  <2>4. /\ KnowsList(c, shown) \in Saw /\ KnowsList(c, shown).list = web.member[shown]
        /\ KnowsList(c, shown).address = saw[c].address
    BY <1>1, SawTyped
  <2>5. CASE shown # op[c].vlan
    <3>1. GoOn(c, Rest(c), KnowsList(c, shown))
      BY <2>3, <2>5
    <3> QED BY <2>1, <2>2, <2>4, <3>1, Answered DEF Reads, Learns, Believes, Verifies
  <2>6. CASE shown = op[c].vlan
    <3>1. GoOn(c, Tail(Rest(c)), KnowsList(c, shown))
      BY <2>3, <2>6
    <3>2. /\ todo[c] \in Seq(Request) /\ todo[c] # <<>> /\ todo[c][1] = "list"
          /\ Rest(c) = Tail(todo[c]) /\ 3 <= Len(todo[c])
      BY <2>1, Ongoing DEF Fits, Leading
    <3>3. Len(todo[c]) >= 3
      BY <2>1, <3>2, Ongoing
    <3>4. Tail(Rest(c)) \in Seq(Request) /\ Tail(Rest(c)) # <<>>
      BY <3>2, <3>3, TailTwice
    <3>5. /\ RequestTypeOK' /\ OthersWait(c)
          /\ todo'[c] = Tail(Rest(c)) /\ end'[c] = "running" /\ saw'[c] = KnowsList(c, shown)
      BY <2>1, <2>4, <3>1, <3>4, GoOnMoves DEF Base
    <3> QED BY <2>1, <2>2, <2>4, <2>6, <3>2, <3>3, <3>4, <3>5, ZenonT(30) DEF Reads, Skips
  <2> QED BY <2>5, <2>6
<1>3. CASE SelectVlan(c)
  <2>1. /\ Running(c) /\ Head(todo[c]) = "select" /\ Quiet
        /\ ClientTypeOK' /\ lost' \in 0..MaxLoss /\ events' \in 0..MaxEvents
    BY <1>3, Asked DEF SelectVlan
  <2>2. /\ late' \in [Caller -> BOOLEAN] /\ ~late'[c]
        /\ \A d \in Caller \ {c} : late'[d] = late[d]
    BY <1>3, LateSet DEF SelectVlan
  <2>3. CASE web.dialect = "xui" /\ op[c].vlan \notin web.vlans
    <3>1. Finish(c, "failed")
      BY <1>3, <2>3 DEF SelectVlan
    <3> QED BY <2>1, <2>2, <3>1, Stopped DEF Reads, Ends
  <2>4. CASE web.dialect = "xui" => op[c].vlan \in web.vlans
    <3>1. GoOn(c, Rest(c), KnowsList(c, op[c].vlan))
      BY <1>3, <2>4 DEF SelectVlan
    <3>2. /\ KnowsList(c, op[c].vlan) \in Saw
          /\ KnowsList(c, op[c].vlan).list = web.member[op[c].vlan]
          /\ KnowsList(c, op[c].vlan).address = saw[c].address
      BY <1>1, SawTyped
    <3> QED BY <2>1, <2>2, <2>4, <3>1, <3>2, Answered DEF Reads, Learns, Believes, Verifies
  <2> QED BY <2>3, <2>4
<1>4. CASE ReadListAgain(c)
  <2>1. /\ Running(c) /\ Head(todo[c]) = "relist" /\ Quiet
        /\ ClientTypeOK' /\ lost' \in 0..MaxLoss /\ events' \in 0..MaxEvents
    BY <1>4, Asked DEF ReadListAgain
  <2>2. late' \in [Caller -> BOOLEAN] /\ \A d \in Caller : late'[d] = late[d]
    BY <1>4, LateSame DEF ReadListAgain
  <2>3. CASE Finish(c, IF Verified(c) THEN "ok" ELSE "diverged")
    <3>1. (IF Verified(c) THEN "ok" ELSE "diverged") \in Ends \ {"running"}
      BY DEF Ends
    <3> QED BY <2>1, <2>2, <2>3, <3>1, Stopped DEF Reads
  <2>4. CASE GoOn(c, Rest(c), saw[c])
    BY <1>1, <2>1, <2>2, <2>4, Answered DEF Reads, Learns, Believes, Verifies
  <2> QED BY <1>4, <2>3, <2>4 DEF ReadListAgain
<1> QED BY <1>2, <1>3, <1>4 DEF MemberStep

LEMMA CycleReads ==
    ASSUME Base, NEW c \in Caller, CycleStep(c)
    PROVE  Reads(c)
<1> USE DEF Request, Gets, PostReads, Forms
<1>1. saw[c] \in Saw
  BY TypeParts DEF Base, RequestTypeOK
<1>2. late' \in [Caller -> BOOLEAN] /\ \A d \in Caller : late'[d] = late[d]
  <2>1. UNCHANGED late
    BY DEF CycleStep, ReadStatus, CheckAdmin, Poll, LastLook
  <2> QED BY <2>1, LateSame
<1>3. CASE ReadStatus(c)
  <2>1. /\ Running(c) /\ Head(todo[c]) = "status" /\ Quiet
        /\ ClientTypeOK' /\ lost' \in 0..MaxLoss /\ events' \in 0..MaxEvents
    BY <1>3, Asked DEF ReadStatus
  <2> DEFINE b == web.detect[op[c].port] = "delivering"
             s == [saw[c] EXCEPT !.delivering = b]
  <2>2. b \in BOOLEAN /\ GoOn(c, Rest(c), s)
    BY <1>3 DEF ReadStatus
  <2> HIDE DEF b
  <2>3. s \in Saw /\ s.address = saw[c].address
    BY <1>1, <2>2 DEF Saw
  <2> HIDE DEF s
  <2> QED BY <1>2, <2>1, <2>2, <2>3, Answered DEF Reads, Learns, Believes, Verifies
<1>4. CASE CheckAdmin(c)
  <2>1. /\ Running(c) /\ Head(todo[c]) \in {"verifyOff", "verifyOn"} /\ Quiet
        /\ ClientTypeOK' /\ lost' \in 0..MaxLoss /\ events' \in 0..MaxEvents
    BY <1>4, Asked DEF CheckAdmin
  <2>2. CASE GoOn(c, Rest(c), saw[c])
    BY <1>1, <1>2, <2>1, <2>2, Answered DEF Reads, Learns, Believes, Verifies
  <2>3. CASE Finish(c, "diverged")
    BY <1>2, <2>1, <2>3, Stopped DEF Reads, Ends
  <2> QED BY <1>4, <2>2, <2>3 DEF CheckAdmin
<1>5. CASE Poll(c)
  <2>1. /\ Running(c) /\ Head(todo[c]) = "poll" /\ Quiet
        /\ ClientTypeOK' /\ lost' \in 0..MaxLoss /\ events' \in 0..MaxEvents
    BY <1>5, Asked DEF Poll
  <2>2. CASE Finish(c, "ok")
    BY <1>2, <2>1, <2>2, Stopped DEF Reads, Ends
  <2>3. CASE GoOn(c, <<"lastLook">>, saw[c])
    <3>1. <<"lastLook">> \in Seq(Request) /\ <<"lastLook">> # <<>>
      OBVIOUS
    <3>2. /\ RequestTypeOK' /\ OthersWait(c)
          /\ todo'[c] = <<"lastLook">> /\ end'[c] = "running"
      BY <1>1, <2>1, <2>3, <3>1, GoOnMoves DEF Base
    <3> QED BY <1>2, <2>1, <3>2 DEF Reads, LooksOnceMore
  <2>4. CASE /\ polls[c] < MaxPolls /\ polls' = [polls EXCEPT ![c] = @ + 1]
             /\ again' = [again EXCEPT ![c] = FALSE] /\ tries' = [tries EXCEPT ![c] = 0]
             /\ UNCHANGED <<todo, end, saw>>
    <3>1. RequestTypeOK
      BY TypeParts DEF Base
    <3>2. polls[c] + 1 \in 0..MaxPolls /\ 0 \in 0..Retries
      BY <2>4, <3>1, HttpWriterAssumption DEF RequestTypeOK
    <3>3. RequestTypeOK'
      BY <2>4, <3>1, <3>2 DEF RequestTypeOK, Running
    <3> QED BY <1>2, <2>1, <2>4, <3>3 DEF Reads, Stays, OthersWait, Running
  <2> QED BY <1>5, <2>2, <2>3, <2>4 DEF Poll
<1>6. CASE LastLook(c)
  <2>1. /\ Running(c) /\ Head(todo[c]) = "lastLook" /\ Quiet
        /\ ClientTypeOK' /\ lost' \in 0..MaxLoss /\ events' \in 0..MaxEvents
    BY <1>6, Asked DEF LastLook
  <2> QED BY <1>2, <1>6, <2>1, Stopped DEF LastLook, Reads, Ends
<1> QED BY <1>3, <1>4, <1>5, <1>6 DEF CycleStep

LEMMA PageReads ==
    ASSUME Base, NEW c \in Caller, PageStep(c)
    PROVE  Reads(c)
<1> USE DEF Request, Gets, PostReads, Forms
<1>1. saw[c] \in Saw /\ web.address \in Address /\ late \in [Caller -> BOOLEAN]
  BY TypeParts DEF Base, RequestTypeOK, HistoryTypeOK, WebState
<1>2. CASE ReadPage(c)
  <2>1. /\ Running(c) /\ Head(todo[c]) = "page" /\ Quiet
        /\ ClientTypeOK' /\ lost' \in 0..MaxLoss /\ events' \in 0..MaxEvents
    BY <1>2, Asked DEF ReadPage
  <2>2. /\ late' \in [Caller -> BOOLEAN]
        /\ late'[c] = (late[c] /\ op[c].kind # "rename")
        /\ \A d \in Caller \ {c} : late'[d] = late[d]
    <3> DEFINE b == late[c] /\ op[c].kind # "rename"
    <3>1. b \in BOOLEAN /\ late' = [late EXCEPT ![c] = b]
      BY <1>1, <1>2 DEF ReadPage
    <3> HIDE DEF b
    <3>2. /\ late' \in [Caller -> BOOLEAN] /\ late'[c] = b
          /\ \A d \in Caller \ {c} : late'[d] = late[d]
      BY <3>1, LateSet
    <3> QED BY <3>2 DEF b
  <2>3. CASE Finish(c, "failed")
    BY <2>1, <2>2, <2>3, Stopped DEF Reads, Ends
  <2> DEFINE row == "named" \in web.collectors
             s == [saw[c] EXCEPT !.address = web.address, !.row = row]
  <2>4. CASE GoOn(c, Rest(c), s)
    <3>1. row \in BOOLEAN
      OBVIOUS
    <3> HIDE DEF row
    <3>2. s \in Saw /\ s.address = web.address
      BY <1>1, <3>1 DEF Saw
    <3> HIDE DEF s
    <3>3. late'[c] # late[c] => op[c].kind = "rename"
      BY <1>1, <2>2
    <3> QED BY <2>1, <2>2, <2>4, <3>2, <3>3, Answered DEF Reads, Learns, Believes, Verifies
  <2> QED BY <1>2, <2>3, <2>4 DEF ReadPage
<1>3. CASE ReadHosts(c)
  <2>1. /\ Running(c) /\ Head(todo[c]) = "hosts" /\ Quiet
        /\ ClientTypeOK' /\ lost' \in 0..MaxLoss /\ events' \in 0..MaxEvents
    BY <1>3, Asked DEF ReadHosts
  <2>2. late' \in [Caller -> BOOLEAN] /\ \A d \in Caller : late'[d] = late[d]
    BY <1>3, LateSame DEF ReadHosts
  <2>3. CASE Finish(c, "failed")
    BY <2>1, <2>2, <2>3, Stopped DEF Reads, Ends
  <2>4. CASE GoOn(c, Rest(c), saw[c])
    BY <1>1, <2>1, <2>2, <2>4, Answered DEF Reads, Learns, Believes, Verifies
  <2> QED BY <1>3, <2>3, <2>4 DEF ReadHosts
<1>4. CASE ReadKnown(c)
  <2>1. /\ Running(c) /\ Head(todo[c]) = "known" /\ Quiet
        /\ ClientTypeOK' /\ lost' \in 0..MaxLoss /\ events' \in 0..MaxEvents
    BY <1>4, Asked DEF ReadKnown
  <2>2. late' \in [Caller -> BOOLEAN] /\ \A d \in Caller : late'[d] = late[d]
    BY <1>4, LateSame DEF ReadKnown
  <2>3. CASE Finish(c, "failed")
    BY <2>1, <2>2, <2>3, Stopped DEF Reads, Ends
  <2>4. CASE GoOn(c, Rest(c), saw[c])
    BY <1>1, <2>1, <2>2, <2>4, Answered DEF Reads, Learns, Believes, Verifies
  <2> QED BY <1>4, <2>3, <2>4 DEF ReadKnown
<1>5. CASE Verify(c)
  <2>1. /\ Running(c) /\ Head(todo[c]) \in {"verify", "reselect"} /\ Quiet
        /\ ClientTypeOK' /\ lost' \in 0..MaxLoss /\ events' \in 0..MaxEvents
    BY <1>5, Asked DEF Verify
  <2>2. late' \in [Caller -> BOOLEAN] /\ \A d \in Caller : late'[d] = late[d]
    BY <1>5, LateSame DEF Verify
  <2>3. PICK how \in {"failed", "ok", "diverged"} : Finish(c, how) /\ (how = "ok" => Verified(c))
    BY <1>5 DEF Verify
  <2> QED BY <2>1, <2>2, <2>3, Stopped DEF Reads, Ends
<1> QED BY <1>2, <1>3, <1>4, <1>5 DEF PageStep

LEMMA LosesTyped ==
    ASSUME Base, Loses
    PROVE  lost' \in 0..MaxLoss
BY TypeParts, HttpWriterAssumption DEF Base, Loses

LEMMA ClientsKept ==
    ASSUME Base, UNCHANGED clientVars
    PROVE  ClientTypeOK'
BY DEF Base, TypeOK, ClientTypeOK, clientVars

LEMMA ForgetTyped ==
    ASSUME Base, NEW c \in Caller, ForgetLogin(c)
    PROVE  ClientTypeOK'
<1>1. Of(c) \in Caller
  BY DEF Of
<1> QED BY <1>1 DEF Base, TypeOK, ClientTypeOK, ForgetLogin

LEMMA FaultsRead ==
    ASSUME Base, NEW c \in Caller, DropPage(c) \/ LoginPageForPage(c)
    PROVE  Reads(c)
<1> USE DEF Request, Gets, PostReads, Forms
<1>1. /\ Running(c) /\ Head(todo[c]) \notin Forms /\ Quiet
      /\ late' \in [Caller -> BOOLEAN] /\ \A d \in Caller : late'[d] = late[d]
  <2>1. UNCHANGED <<web, op, started, events, history>>
    BY DEF DropPage, LoginPageForPage
  <2>2. late' \in [Caller -> BOOLEAN] /\ \A d \in Caller : late'[d] = late[d]
    BY <2>1, LateSame DEF history
  <2> QED BY <2>1, <2>2 DEF DropPage, LoginPageForPage, history, Quiet
<1>2. RequestTypeOK /\ events \in 0..MaxEvents /\ lost \in 0..MaxLoss
  BY TypeParts DEF Base
<1>3. CASE DropPage(c)
  <2>1. ClientTypeOK' /\ lost' \in 0..MaxLoss /\ events' \in 0..MaxEvents
    BY <1>2, <1>3, LosesTyped, ClientsKept DEF DropPage
  <2>2. CASE Finish(c, "failed")
    BY <1>1, <2>1, <2>2, Stopped DEF Reads, Ends
  <2>3. CASE /\ tries[c] < Retries /\ tries' = [tries EXCEPT ![c] = @ + 1]
             /\ UNCHANGED <<todo, end, saw, again, polls>>
    <3>1. tries[c] + 1 \in 0..Retries
      BY <1>2, <2>3, HttpWriterAssumption DEF RequestTypeOK
    <3>2. RequestTypeOK'
      BY <1>2, <2>3, <3>1 DEF RequestTypeOK, Running
    <3> QED BY <1>1, <2>1, <2>3, <3>2 DEF Reads, Stays, OthersWait, Running
  <2> QED BY <1>3, <2>2, <2>3 DEF DropPage
<1>4. CASE LoginPageForPage(c)
  <2>1. lost' \in 0..MaxLoss /\ events' \in 0..MaxEvents
    BY <1>2, <1>4 DEF LoginPageForPage
  <2>2. CASE Finish(c, "failed") /\ UNCHANGED clientVars
    BY <1>1, <2>1, <2>2, Stopped, ClientsKept DEF Reads, Ends
  <2>3. CASE /\ ForgetLogin(c) /\ again' = [again EXCEPT ![c] = TRUE]
             /\ UNCHANGED <<todo, end, saw, tries, polls>>
    <3>1. RequestTypeOK'
      BY <1>2, <2>3 DEF RequestTypeOK, Running
    <3> QED BY <1>1, <2>1, <2>3, <3>1, ForgetTyped DEF Reads, Stays, OthersWait, Running
  <2> QED BY <1>4, <2>2, <2>3 DEF LoginPageForPage
<1> QED BY <1>3, <1>4

(***************************************************************************)
(* A form: carried out, or not, and then the answer.                       *)
(***************************************************************************)
\* The switch becomes t, and the calls in "by" know that it does.
Turns(t, by) ==
    /\ web' = t
    /\ \A d \in Caller :
         /\ late'[d] = (Running(d) /\ (late[d] \/ (d \notin by /\ NewsTo(d, t))))
         /\ held'[d] = (held[d] \/ (Running(d) /\ Holds(t, op[d])))

LEMMA BecomesTurns ==
    ASSUME Base, NEW t, NEW by, Becomes(t, by)
    PROVE  /\ Turns(t, by)
           /\ late' \in [Caller -> BOOLEAN] /\ held' \in [Caller -> BOOLEAN]
           /\ cut' \in [Caller -> BOOLEAN]
BY DEF Becomes, Turns, Running

Carries(c) ==
    /\ \E t : Turns(t, {c}) /\ Sound(t) /\ Modest(web, op[c], saw[c], t)
    /\ sent' = [sent EXCEPT ![c] = @ \cup {Head(todo[c])}]
    /\ twice' = [twice EXCEPT ![c] = @ \/ Head(todo[c]) \in sent[c]]

LEMMA CarriesOutCarries ==
    ASSUME Base, NEW c \in Caller, Running(c), Head(todo[c]) \in Forms, CarriesOut(c)
    PROVE  Carries(c) /\ HistoryTypeOK' /\ ClientTypeOK'
<1> DEFINE r == Head(todo[c])
           t == Effect(web, op[c], saw[c], r)
<1>1. /\ op[c] \in Operation /\ op[c].kind \in Serves(web.dialect) /\ saw[c] \in Saw
      /\ Sound(web) /\ Accepts(web, op[c], saw[c]) /\ 1 \in 1..Len(todo[c]) /\ r = todo[c][1]
  BY Ongoing DEF Base, CallsFit, CarriesOut
<1>2. Suits(op[c], r)
  BY <1>1, Ongoing DEF Fits, Closing, Suits
<1>3. Sound(t) /\ Modest(web, op[c], saw[c], t)
  BY <1>1, <1>2, EffectModest
<1>4. /\ Turns(t, {c})
      /\ late' \in [Caller -> BOOLEAN] /\ held' \in [Caller -> BOOLEAN]
      /\ cut' \in [Caller -> BOOLEAN]
  BY BecomesTurns DEF CarriesOut
<1>5. /\ sent' = [sent EXCEPT ![c] = @ \cup {r}]
      /\ twice' = [twice EXCEPT ![c] = @ \/ r \in sent[c]]
      /\ shared' = shared /\ believes' = believes
      /\ AllSessionsEnd \/ session' = session
  BY DEF CarriesOut
<1> HIDE DEF t
<1>6. sent' \in [Caller -> SUBSET Forms] /\ twice' \in [Caller -> BOOLEAN]
  <2>1. sent \in [Caller -> SUBSET Forms] /\ twice \in [Caller -> BOOLEAN]
    BY TypeParts DEF Base, HistoryTypeOK
  <2> QED BY <1>5, <2>1
<1>7. ClientTypeOK'
  BY <1>5 DEF Base, TypeOK, ClientTypeOK, AllSessionsEnd
<1> QED BY <1>3, <1>4, <1>5, <1>6, <1>7 DEF Carries, HistoryTypeOK

Posts(c) ==
    /\ Running(c) /\ Head(todo[c]) \in Forms
    /\ op' = op /\ started' = started
    /\ OthersWait(c) /\ RequestTypeOK' /\ HistoryTypeOK'
    /\ ClientTypeOK' /\ lost' \in 0..MaxLoss /\ events' \in 0..MaxEvents
    /\ \/ Stops(c) /\ (end'[c] = "ok" => Believes(c) /\ (op[c].kind = "upload" => Carries(c)))
       \/ Passes(c) /\ saw'[c] = saw[c]
    /\ \/ UNCHANGED <<web, late, sent, twice, held>>
       \/ Carries(c)

LEMMA FormPosts ==
    ASSUME Base, NEW c \in Caller, FormStep(c)
    PROVE  Posts(c)
<1>1. /\ Running(c) /\ Head(todo[c]) \in Forms /\ op' = op /\ started' = started
      /\ events' \in 0..MaxEvents
  BY TypeParts DEF Base, FormStep, Post, Refuse, DropForm, LoginPageForForm, Posting
<1>2. saw[c] \in Saw /\ HistoryTypeOK /\ lost \in 0..MaxLoss
  BY TypeParts DEF Base, RequestTypeOK
<1>3. Head(todo[c]) \notin Verifies
  BY <1>1 DEF Forms, Verifies
<1>4. UNCHANGED history => HistoryTypeOK' /\ UNCHANGED <<late, sent, twice, held>>
  BY <1>2 DEF HistoryTypeOK, history
<1>5. CASE Post(c)
  <2>1. GoOn(c, Rest(c), saw[c]) /\ CarriesOut(c) /\ UNCHANGED lost
    BY <1>5 DEF Post
  <2>2. Carries(c) /\ HistoryTypeOK' /\ ClientTypeOK'
    BY <1>1, <2>1, CarriesOutCarries
  <2> QED BY <1>1, <1>2, <1>3, <2>1, <2>2, Answered DEF Posts, Believes
<1>6. CASE Refuse(c)
  <2>1. Finish(c, "failed") /\ UNCHANGED <<clientVars, web, lost>> /\ UNCHANGED history
    BY <1>6 DEF Refuse
  <2> QED BY <1>1, <1>2, <1>4, <2>1, Stopped, ClientsKept DEF Posts, Ends
<1>7. CASE DropForm(c)
  <2>1. Finish(c, "failed") /\ Loses
    BY <1>7 DEF DropForm, GivesUp
  <2>2. CASE CarriesOut(c)
    BY <1>1, <2>1, <2>2, CarriesOutCarries, LosesTyped, Stopped DEF Posts, Ends
  <2>3. CASE UNCHANGED <<clientVars, web>> /\ UNCHANGED history
    BY <1>1, <1>4, <2>1, <2>3, ClientsKept, LosesTyped, Stopped DEF Posts, Ends
  <2> QED BY <1>7, <2>2, <2>3 DEF DropForm
<1>8. CASE LoginPageForForm(c)
  <2>1. UNCHANGED <<clientVars, web, lost>> /\ UNCHANGED history
    BY <1>8 DEF LoginPageForForm
  <2>2. CASE GoOn(c, Rest(c), saw[c]) /\ op[c].kind # "upload"
    BY <1>1, <1>2, <1>3, <1>4, <2>1, <2>2, Answered, ClientsKept DEF Posts, Believes
  <2>3. CASE Finish(c, "failed")
    BY <1>1, <1>2, <1>4, <2>1, <2>3, Stopped, ClientsKept DEF Posts, Ends
  <2> QED BY <1>8, <2>2, <2>3 DEF LoginPageForForm
<1> QED BY <1>5, <1>6, <1>7, <1>8 DEF FormStep

(***************************************************************************)
(* A call that starts.                                                     *)
(***************************************************************************)
Starts(c) ==
    /\ ~Running(c) /\ web' = web
    /\ \A d \in Caller \ {c} :
         /\ todo'[d] = todo[d] /\ end'[d] = end[d] /\ op'[d] = op[d] /\ late'[d] = late[d]
         /\ sent'[d] = sent[d] /\ twice'[d] = twice[d] /\ held'[d] = held[d]
    /\ saw' = saw /\ sent'[c] = {} /\ ~twice'[c]
    /\ held'[c] = Holds(web, op'[c])
    /\ \/ end'[c] = "refused" /\ todo'[c] = <<>>
       \/ /\ end'[c] = "running" /\ todo'[c] = Requests(web.dialect, op'[c])
          /\ op'[c] \in Operation /\ op'[c].kind \in Serves(web.dialect)
          /\ ~GuardRaises(op'[c])

LEMMA SubmitStarts ==
    ASSUME Base, NEW c \in Caller, Submit(c)
    PROVE  Starts(c) /\ TypeOK'
<1>1. PICK o \in Operations[c] :
        LET goes == /\ o.gate = "open" /\ o.kind \in Serves(web.dialect) /\ ~GuardRaises(o)
        IN  /\ op' = [op EXCEPT ![c] = o]
            /\ end' = [end EXCEPT ![c] = IF goes THEN "running" ELSE "refused"]
            /\ todo' = [todo EXCEPT ![c] = IF goes THEN Requests(web.dialect, o) ELSE <<>>]
            /\ held' = [held EXCEPT ![c] = Holds(web, o)]
            /\ cut' = [cut EXCEPT ![c] = web.detect[o.port] # "delivering"]
  BY DEF Submit
<1> DEFINE goes == o.gate = "open" /\ o.kind \in Serves(web.dialect) /\ ~GuardRaises(o)
           list == IF goes THEN Requests(web.dialect, o) ELSE <<>>
           how == IF goes THEN "running" ELSE "refused"
<1>2. o \in Operation
  BY HttpWriterAssumption
<1>3. /\ op \in [Caller -> Operation] /\ RequestTypeOK /\ HistoryTypeOK /\ web.dialect \in Dialect
  BY TypeParts DEF Base, WebState
<1>4. list \in Seq(Request) /\ (list # <<>> <=> goes)
  BY <1>2, <1>3, RequestsFit
<1>5. /\ op' = [op EXCEPT ![c] = o] /\ end' = [end EXCEPT ![c] = how]
      /\ todo' = [todo EXCEPT ![c] = list]
      /\ held' = [held EXCEPT ![c] = Holds(web, o)]
      /\ cut' = [cut EXCEPT ![c] = web.detect[o.port] # "delivering"]
  BY <1>1
<1>6. how \in {"running", "refused"} /\ (how = "running" <=> goes)
  OBVIOUS
<1>7. goes \in BOOLEAN /\ (goes => o.kind \in Serves(web.dialect) /\ ~GuardRaises(o))
      /\ (goes => list = Requests(web.dialect, o)) /\ (~goes => list = <<>>)
  OBVIOUS
<1> HIDE DEF goes, list, how
<1>8. /\ ~Running(c) /\ started[c] < MaxOps /\ started' = [started EXCEPT ![c] = @ + 1]
      /\ late' = [late EXCEPT ![c] = FALSE] /\ sent' = [sent EXCEPT ![c] = {}]
      /\ twice' = [twice EXCEPT ![c] = FALSE]
      /\ web' = web /\ saw' = saw /\ again' = again /\ tries' = tries /\ polls' = polls
      /\ lost' = lost /\ events' = events /\ UNCHANGED clientVars
  BY DEF Submit
<1>9. /\ op'[c] = o /\ end'[c] = how /\ todo'[c] = list /\ held'[c] = Holds(web, o)
      /\ late'[c] = FALSE /\ sent'[c] = {} /\ twice'[c] = FALSE
      /\ \A d \in Caller \ {c} :
           /\ todo'[d] = todo[d] /\ end'[d] = end[d] /\ op'[d] = op[d] /\ late'[d] = late[d]
           /\ sent'[d] = sent[d] /\ twice'[d] = twice[d] /\ held'[d] = held[d]
  BY <1>3, <1>5, <1>8 DEF RequestTypeOK, HistoryTypeOK
<1>10. Starts(c)
  BY <1>2, <1>6, <1>7, <1>8, <1>9 DEF Starts
<1>11. RequestTypeOK'
  <2>1. todo' \in [Caller -> Seq(Request)] /\ end' \in [Caller -> Ends]
    BY <1>3, <1>4, <1>5, <1>6 DEF RequestTypeOK, Ends
  <2>2. \A d \in Caller : Running(d)' <=> todo'[d] # <<>>
    BY <1>3, <1>4, <1>6, <1>9 DEF RequestTypeOK, Running
  <2> QED BY <1>3, <1>8, <2>1, <2>2 DEF RequestTypeOK
<1>12. HistoryTypeOK'
  <2>1. Holds(web, o) \in BOOLEAN
    <3>1. web.certified \in BOOLEAN
      BY DEF Base, Sound, WebState
    <3>2. /\ o.kind = "upload" => Holds(web, o) = web.certified
          /\ o.kind \in {"cycle", "reboot"} => Holds(web, o) = FALSE
      BY DEF Holds, Setting
    <3>3. o.kind \in Setting => Holds(web, o) \in BOOLEAN
      BY DEF Holds, Setting
    <3>4. o.kind \in {"poe", "member", "pvid"} => Holds(web, o) \in BOOLEAN
      BY DEF Holds, Setting
    <3>5. /\ o.kind = "create" => Holds(web, o) = (o.vlan \in web.vlans)
          /\ o.kind = "delete" => Holds(web, o) = (o.vlan \notin web.vlans)
          /\ o.kind = "rename" => Holds(web, o) = (web.renamed = o.on)
      BY DEF Holds, Setting
    <3>6. o.kind \in {"address", "collector"} => Holds(web, o) \in BOOLEAN
      BY DEF Holds, Setting
    <3>7. o.kind \in Setting \cup {"poe", "cycle", "pvid", "member", "create", "delete", "rename",
                                   "address", "collector", "upload", "reboot"}
      BY <1>2 DEF Operation, Kinds, PortKinds, Drastic
    <3>8. o.kind = "create" => Holds(web, o) \in BOOLEAN
      BY <3>5
    <3>9. o.kind = "delete" => Holds(web, o) \in BOOLEAN
      BY <3>5
    <3>10. o.kind = "rename" => Holds(web, o) \in BOOLEAN
      BY <3>5
    <3>11. o.kind \in {"upload", "cycle", "reboot"} => Holds(web, o) \in BOOLEAN
      BY <3>1, <3>2
    <3> QED BY <3>3, <3>4, <3>6, <3>7, <3>8, <3>9, <3>10, <3>11
  <2> QED BY <1>3, <1>5, <1>8, <2>1 DEF HistoryTypeOK
<1>13. started' \in [Caller -> 0..MaxOps] /\ op' \in [Caller -> Operation]
  <2>1. started \in [Caller -> 0..MaxOps]
    BY TypeParts DEF Base
  <2>2. started[c] + 1 \in 0..MaxOps
    BY <1>8, <2>1, HttpWriterAssumption
  <2>3. started' \in [Caller -> 0..MaxOps]
    <3> DEFINE n == started[c] + 1
    <3>1. started' = [started EXCEPT ![c] = n] /\ n \in 0..MaxOps
      BY <1>8, <2>1, <2>2
    <3> HIDE DEF n
    <3> QED BY <2>1, <3>1
  <2>4. op' \in [Caller -> Operation]
    BY <1>2, <1>3, <1>5
  <2> QED BY <2>3, <2>4
<1>14. lost' \in 0..MaxLoss /\ events' \in 0..MaxEvents /\ Sound(web)'
  BY <1>8, TypeParts DEF Base
<1> QED BY <1>8, <1>10, <1>11, <1>12, <1>13, <1>14, TypeNext, ClientsKept

-----------------------------------------------------------------------------
(***************************************************************************)
(* Sessions, other managers and the PoE controller leave every call where  *)
(* it is; and every step is one of these, or of one call.                  *)
(***************************************************************************)
Drifts ==
    /\ todo' = todo /\ end' = end /\ saw' = saw /\ op' = op
    /\ sent' = sent /\ twice' = twice
    /\ \/ UNCHANGED <<web, late, held>>
       \/ \E t : Turns(t, {}) /\ Sound(t) /\ t.dialect = web.dialect

LEMMA ClientsDrift ==
    ASSUME Base, NEW c \in Caller,
           LogIn(c) \/ SessionExpires(c) \/ Close(c)
    PROVE  ClientTypeOK'
<1>1. Of(c) \in Caller
  BY DEF Of
<1>2. ClientTypeOK
  BY DEF Base, TypeOK
<1>3. CASE LogIn(c)
  BY <1>1, <1>2, <1>3 DEF ClientTypeOK, LogIn
<1>4. CASE SessionExpires(c)
  BY <1>2, <1>4 DEF ClientTypeOK, SessionExpires
<1>5. CASE Close(c)
  BY <1>2, <1>5 DEF ClientTypeOK, Close
<1> QED BY <1>3, <1>4, <1>5

LEMMA QuietDrift ==
    ASSUME Base, UNCHANGED <<web, request, op, lost, started, history>>, events' \in 0..MaxEvents,
           ClientTypeOK'
    PROVE  Drifts /\ TypeOK'
<1>1. /\ RequestTypeOK /\ HistoryTypeOK /\ Sound(web) /\ op \in [Caller -> Operation]
      /\ lost \in 0..MaxLoss /\ started \in [Caller -> 0..MaxOps]
  BY TypeParts DEF Base
<1>2. RequestTypeOK'
  BY <1>1 DEF RequestTypeOK, request, Running
<1>3. HistoryTypeOK'
  BY <1>1 DEF HistoryTypeOK, history
<1>4. /\ Sound(web)' /\ op' \in [Caller -> Operation] /\ lost' \in 0..MaxLoss
      /\ started' \in [Caller -> 0..MaxOps]
  BY <1>1
<1> QED BY <1>2, <1>3, <1>4, TypeNext DEF Drifts, request, history

LEMMA BusyDrift ==
    ASSUME Base, NEW t, Becomes(t, {}), Sound(t), t.dialect = web.dialect,
           UNCHANGED <<clientVars, request, op, lost, started, sent, twice>>,
           events' \in 0..MaxEvents
    PROVE  Drifts /\ TypeOK'
<1>1. /\ RequestTypeOK /\ HistoryTypeOK /\ Sound(web) /\ op \in [Caller -> Operation]
      /\ lost \in 0..MaxLoss /\ started \in [Caller -> 0..MaxOps]
  BY TypeParts DEF Base
<1>2. RequestTypeOK'
  BY <1>1 DEF RequestTypeOK, request, Running
<1>3. /\ Turns(t, {})
      /\ late' \in [Caller -> BOOLEAN] /\ held' \in [Caller -> BOOLEAN]
      /\ cut' \in [Caller -> BOOLEAN]
  BY BecomesTurns
<1>4. HistoryTypeOK'
  BY <1>1, <1>3 DEF HistoryTypeOK
<1>5. /\ Sound(web)' /\ op' \in [Caller -> Operation] /\ lost' \in 0..MaxLoss
      /\ started' \in [Caller -> 0..MaxOps]
  BY <1>1, <1>3 DEF Turns
<1>6. ClientTypeOK'
  BY ClientsKept
<1> QED BY <1>2, <1>3, <1>4, <1>5, <1>6, TypeNext DEF Drifts, request

LEMMA OthersDrift ==
    ASSUME Base, Others
    PROVE  Drifts /\ TypeOK'
<1>1. /\ UNCHANGED <<clientVars, request, op, lost, started, sent, twice>>
      /\ events' \in 0..MaxEvents
  <2>1. events < MaxEvents /\ events' = events + 1 /\ events \in 0..MaxEvents
    BY TypeParts DEF Others, Base
  <2> QED BY <2>1, HttpWriterAssumption DEF Others
<1>2. Sound(web) /\ web \in WebState
  BY DEF Base, Sound
<1>3. ASSUME NEW v \in web.vlans \ {ShownVlan(web, 0)}, Becomes(DeleteVlan(web, v), {})
      PROVE  Drifts /\ TypeOK'
  <2> DEFINE t == DeleteVlan(web, v)
  <2>1. ShownVlan(web, 0) \in t.vlans
    <3>1. ShownVlan(web, 0) \in web.vlans
      BY <1>2, ShownVlanThere
    <3>2. t.vlans = web.vlans \ {v}
      BY <1>2 DEF DeleteVlan, WebState
    <3> QED BY <1>3, <3>1, <3>2
  <2>2. Sound(t) /\ t.dialect = web.dialect
    <3>1. v \in Vlan /\ NoMembers \in [Port -> Mode]
      BY <1>2 DEF WebState, NoMembers, Mode
    <3>2. t \in WebState
      BY <1>2, <3>1 DEF DeleteVlan, WebState
    <3>3. \A x \in Vlan \ t.vlans : t.member[x] = NoMembers
      BY <1>2, <3>1 DEF DeleteVlan, WebState, Sound
    <3>4. t.dialect = web.dialect
      BY <1>2 DEF DeleteVlan, WebState
    <3> QED BY <2>1, <3>2, <3>3, <3>4 DEF Sound
  <2> HIDE DEF t
  <2>3. Becomes(t, {})
    BY <1>3 DEF t
  <2> QED BY <1>1, <2>2, <2>3, BusyDrift
<1>4. ASSUME Becomes(WriteAddress(web, "rival"), {})
      PROVE  Drifts /\ TypeOK'
  <2> DEFINE t == WriteAddress(web, "rival")
  <2>1. Sound(t) /\ t.dialect = web.dialect
    BY <1>2 DEF WriteAddress, Sound, WebState, Address
  <2> HIDE DEF t
  <2>2. Becomes(t, {})
    BY <1>4 DEF t
  <2> QED BY <1>1, <2>1, <2>2, BusyDrift
<1>5. ASSUME Becomes(RemoveCollector(web, "named"), {})
      PROVE  Drifts /\ TypeOK'
  <2> DEFINE t == RemoveCollector(web, "named")
  <2>1. Sound(t) /\ t.dialect = web.dialect
    BY <1>2 DEF RemoveCollector, Sound, WebState, Host
  <2> HIDE DEF t
  <2>2. Becomes(t, {})
    BY <1>5 DEF t
  <2> QED BY <1>1, <2>1, <2>2, BusyDrift
<1> QED BY <1>3, <1>4, <1>5 DEF Others

LEMMA SettleDrifts ==
    ASSUME Base, NEW p \in Port, Settle(p)
    PROVE  Drifts /\ TypeOK'
<1> DEFINE t == [web EXCEPT !.detect[p] = Settled(web, p)]
<1>1. Becomes(t, {}) /\ UNCHANGED <<clientVars, request, op, lost, started, events, sent, twice>>
  BY DEF Settle
<1>2. Settled(web, p) \in Detect
  BY DEF Settled, Detect
<1>3. Sound(t) /\ t.dialect = web.dialect
  BY <1>2 DEF Base, Sound, WebState
<1>4. events' \in 0..MaxEvents
  BY <1>1, TypeParts DEF Base
<1> HIDE DEF t
<1> QED BY <1>1, <1>3, <1>4, BusyDrift

\* The call of c goes on, and the others wait.
Acts(c) == Starts(c) \/ Reads(c) \/ Posts(c)

LEMMA NextActs ==
    ASSUME Base, [Next]_vars
    PROVE  TypeOK' /\ (Drifts \/ \E c \in Caller : Acts(c))
<1>1. events \in 0..MaxEvents /\ started \in [Caller -> 0..MaxOps] /\ op \in [Caller -> Operation]
  BY TypeParts DEF Base
<1>2. ASSUME NEW c \in Caller, Reads(c) \/ Posts(c)
      PROVE  TypeOK'
  <2>1. HistoryTypeOK'
    <3>1. HistoryTypeOK
      BY TypeParts DEF Base
    <3> QED BY <1>2, <3>1 DEF Reads, Posts, Quiet, HistoryTypeOK
  <2>2. /\ RequestTypeOK' /\ ClientTypeOK' /\ lost' \in 0..MaxLoss /\ events' \in 0..MaxEvents
        /\ op' = op /\ started' = started
    BY <1>2 DEF Reads, Posts, Quiet
  <2>3. Sound(web)'
    BY <1>2 DEF Reads, Posts, Quiet, Carries, Turns, Base
  <2> QED BY <1>1, <2>1, <2>2, <2>3, TypeNext
<1>3. ASSUME NEW c \in Caller, Submit(c)
      PROVE  TypeOK' /\ Acts(c)
  BY <1>3, SubmitStarts DEF Acts
<1>4. ASSUME NEW c \in Caller, LogInFirst(c)
      PROVE  Drifts /\ TypeOK'
  <2>1. ClientTypeOK'
    BY <1>4, ClientsDrift DEF LogInFirst
  <2> QED BY <1>1, <1>4, <2>1, QuietDrift DEF LogInFirst
<1>5. ASSUME NEW c \in Caller, Step(c)
      PROVE  TypeOK' /\ (Drifts \/ Acts(c))
  <2>1. CASE LogInFirst(c)
    BY <1>4, <2>1
  <2>2. CASE GuardStep(c) \/ MemberStep(c) \/ CycleStep(c) \/ PageStep(c)
             \/ DropPage(c) \/ LoginPageForPage(c)
    <3>1. Reads(c)
      BY <2>2, GuardReads, MemberReads, CycleReads, PageReads, FaultsRead
    <3> QED BY <1>2, <3>1 DEF Acts
  <2>3. CASE FormStep(c)
    <3>1. Posts(c)
      BY <2>3, FormPosts
    <3> QED BY <1>2, <3>1 DEF Acts
  <2> QED BY <1>5, <2>1, <2>2, <2>3 DEF Step
<1>6. CASE Expires
  <2>1. ClientTypeOK'
    BY <1>6, ClientsDrift DEF Expires
  <2> QED BY <1>1, <1>6, <2>1, QuietDrift DEF Expires
<1>7. CASE Closes
  <2>1. ClientTypeOK'
    BY <1>7, ClientsDrift DEF Closes
  <2>2. events' \in 0..MaxEvents
    BY <1>1, <1>7, HttpWriterAssumption DEF Closes
  <2> QED BY <1>7, <2>1, <2>2, QuietDrift DEF Closes
<1>8. CASE UNCHANGED vars
  <2>1. ClientTypeOK'
    BY <1>8, ClientsKept DEF vars
  <2>2. UNCHANGED <<web, request, op, lost, started, history>> /\ events' \in 0..MaxEvents
    BY <1>1, <1>8 DEF vars
  <2> QED BY <2>1, <2>2, QuietDrift
<1> QED BY <1>3, <1>5, <1>6, <1>7, <1>8, OthersDrift, SettleDrifts DEF Next

(***************************************************************************)
(* A call that waits keeps all it knows.  What it relies on may change,    *)
(* but then it is late; and it notices when what it asks for comes true.   *)
(***************************************************************************)
Waits(d) ==
    /\ todo'[d] = todo[d] /\ end'[d] = end[d] /\ saw'[d] = saw[d] /\ op'[d] = op[d]
    /\ sent'[d] = sent[d] /\ twice'[d] = twice[d]
    /\ held[d] => held'[d]
    /\ Running(d) =>
         /\ Holds(web', op[d]) => held'[d] \/ (web' = web /\ held'[d] = held[d])
         /\ ~late'[d] => ~late[d] /\ ReliesOn(web', op[d]) = ReliesOn(web, op[d])

LEMMA TurnsWait ==
    ASSUME Base, NEW d \in Caller, NEW t, NEW by, d \notin by, Turns(t, by)
    PROVE  /\ held[d] => held'[d]
           /\ Running(d) =>
                /\ Holds(web', op[d]) => held'[d] \/ (web' = web /\ held'[d] = held[d])
                /\ ~late'[d] => ~late[d] /\ ReliesOn(web', op[d]) = ReliesOn(web, op[d])
<1>1. late[d] \in BOOLEAN /\ held[d] \in BOOLEAN
  BY TypeParts DEF Base, HistoryTypeOK
<1>2. web' = t /\ late'[d] = (Running(d) /\ (late[d] \/ NewsTo(d, t)))
      /\ held'[d] = (held[d] \/ (Running(d) /\ Holds(t, op[d])))
  BY DEF Turns
<1>3. held[d] => held'[d]
  BY <1>2
<1>4. Running(d) /\ Holds(web', op[d]) => held'[d]
  BY <1>2
<1>5. Running(d) /\ ~late'[d] => ~late[d] /\ ReliesOn(web', op[d]) = ReliesOn(web, op[d])
  BY <1>2 DEF NewsTo
<1> QED BY <1>3, <1>4, <1>5

LEMMA DriftsWait ==
    ASSUME Base, Drifts, NEW d \in Caller
    PROVE  Waits(d)
<1>1. CASE UNCHANGED <<web, late, held>>
  BY <1>1 DEF Drifts, Waits
<1>2. CASE \E t : Turns(t, {})
  <2>1. PICK t : Turns(t, {})
    BY <1>2
  <2> QED BY <2>1, TurnsWait DEF Drifts, Waits
<1> QED BY <1>1, <1>2 DEF Drifts

LEMMA ActsWait ==
    ASSUME Base, NEW c \in Caller, Acts(c), NEW d \in Caller \ {c}
    PROVE  Waits(d)
<1>1. CASE Starts(c)
  BY <1>1 DEF Starts, Waits
<1>2. CASE Reads(c)
  BY <1>2 DEF Reads, OthersWait, Quiet, Waits
<1>3. CASE Posts(c)
  <2>1. todo'[d] = todo[d] /\ end'[d] = end[d] /\ saw'[d] = saw[d] /\ op'[d] = op[d]
    BY <1>3 DEF Posts, OthersWait
  <2>2. CASE UNCHANGED <<web, late, sent, twice, held>>
    BY <2>1, <2>2 DEF Waits
  <2>3. CASE Carries(c)
    <3>1. PICK t : Turns(t, {c})
      BY <2>3 DEF Carries
    <3>2. /\ held[d] => held'[d]
          /\ Running(d) =>
               /\ Holds(web', op[d]) => held'[d] \/ (web' = web /\ held'[d] = held[d])
               /\ ~late'[d] => ~late[d] /\ ReliesOn(web', op[d]) = ReliesOn(web, op[d])
      BY <3>1, TurnsWait
    <3>3. sent'[d] = sent[d] /\ twice'[d] = twice[d]
      <4>1. sent \in [Caller -> SUBSET Forms] /\ twice \in [Caller -> BOOLEAN]
        BY TypeParts DEF Base, HistoryTypeOK
      <4> QED BY <2>3, <4>1 DEF Carries
    <3> QED BY <2>1, <3>2, <3>3 DEF Waits
  <2> QED BY <1>3, <2>2, <2>3 DEF Posts
<1> QED BY <1>1, <1>2, <1>3 DEF Acts

\* The dialect of a switch never changes, and some VLAN is always shown.
LEMMA SoundKept ==
    ASSUME Base, Drifts \/ \E c \in Caller : Acts(c)
    PROVE  Sound(web') /\ web'.dialect = web.dialect
<1>1. CASE Drifts
  BY <1>1 DEF Drifts, Turns, Base
<1>2. ASSUME NEW c \in Caller, Acts(c)
      PROVE  Sound(web') /\ web'.dialect = web.dialect
  BY <1>2 DEF Acts, Starts, Reads, Quiet, Posts, Carries, Turns, Modest, Base
<1> QED BY <1>1, <1>2

LEMMA FitKept ==
    ASSUME Base, NEW c \in Caller, Acts(c), Running(c)'
    PROVE  /\ op'[c].kind \in Serves(web.dialect)
           /\ ~GuardRaises(op'[c])
           /\ Fits(web.dialect, op'[c], todo'[c])
<1> DEFINE d == web.dialect
           s == todo[c]
<1>1. Running(c)' <=> end'[c] = "running"
  BY DEF Running
<1>2. CASE Starts(c)
  <2>1. /\ todo'[c] = Requests(d, op'[c])
        /\ op'[c] \in Operation /\ op'[c].kind \in Serves(d) /\ ~GuardRaises(op'[c])
    BY <1>1, <1>2 DEF Starts
  <2>2. d \in Dialect
    BY DEF Base, Sound, WebState
  <2> QED BY <2>1, <2>2, RequestsFit
<1>3. CASE Reads(c) \/ Posts(c)
  <2>1. Running(c) /\ op' = op
    BY <1>3 DEF Reads, Posts, Quiet
  <2>2. /\ s \in Seq(Request) /\ s # <<>> /\ Fits(d, op[c], s) /\ Len(s) >= 1
        /\ op[c].kind \in Serves(d) /\ ~GuardRaises(op[c])
        /\ Head(s) = s[1] /\ 1 \in 1..Len(s)
    BY <2>1, Ongoing DEF Base, CallsFit
  <2>3. Fits(d, op[c], Tail(s))
    BY <2>2, FitsTail
  <2>4. CASE Stops(c)
    BY <1>1, <2>4 DEF Stops
  <2>5. CASE Stays(c)
    BY <2>1, <2>2, <2>5 DEF Stays
  <2>6. CASE LooksOnceMore(c)
    <3>1. op[c].kind = "cycle"
      BY <2>2, <2>6 DEF LooksOnceMore, Fits, Closing
    <3> QED BY <2>1, <2>2, <2>6, <3>1, FitsLastLook DEF LooksOnceMore
  <2>7. CASE Passes(c)
    BY <2>1, <2>2, <2>3, <2>7 DEF Passes
  <2>8. CASE Skips(c)
    <3>1. /\ Len(s) >= 3 /\ todo'[c] = Tail(Tail(s)) /\ todo'[c] # <<>>
      BY <2>8 DEF Skips
    <3>2. Tail(s) \in Seq(Request) /\ Tail(s) # <<>>
      BY <2>2, <3>1, TailTwice
    <3> QED BY <2>1, <2>2, <2>3, <3>1, <3>2, FitsTail
  <2> QED BY <1>3, <2>4, <2>5, <2>6, <2>7, <2>8 DEF Reads, Posts
<1> QED BY <1>2, <1>3 DEF Acts

LEMMA BaseKept ==
    ASSUME Base, [Next]_vars
    PROVE  Base'
<1>1. TypeOK' /\ (Drifts \/ \E c \in Caller : Acts(c))
  BY NextActs
<1>2. Sound(web') /\ web'.dialect = web.dialect
  BY <1>1, SoundKept
<1>3. ASSUME NEW d \in Caller, Running(d)'
      PROVE  /\ op'[d].kind \in Serves(web'.dialect)
             /\ ~GuardRaises(op'[d])
             /\ Fits(web'.dialect, op'[d], todo'[d])
  <2>1. CASE Waits(d)
    <3>1. Running(d)
      BY <1>3, <2>1 DEF Waits, Running
    <3> QED BY <1>2, <2>1, <3>1 DEF Waits, Base, CallsFit
  <2>2. CASE Acts(d)
    BY <1>2, <1>3, <2>2, FitKept
  <2> QED BY <1>1, <2>1, <2>2, DriftsWait, ActsWait
<1> QED BY <1>1, <1>2, <1>3 DEF Base, CallsFit

-----------------------------------------------------------------------------
(***************************************************************************)
(* The inductive invariant.  OnceInv: what is still to be sent has not     *)
(* been.  HeldInv: what holds has been noticed.  ListInv, GuardInv and     *)
(* RenameInv: unless others have interfered, what a page has told the call *)
(* is still so when its form goes out.                                     *)
(***************************************************************************)
OnceInv == \A c \in Caller : ~twice[c] /\ \A i \in 1..Len(todo[c]) : todo[c][i] \notin sent[c]

HeldInv == \A c \in Caller : Running(c) /\ Holds(web, op[c]) => held[c]

ListKnown(c) ==
    saw[c].list = web.member[op[c].vlan] /\ (web.dialect = "xui" => op[c].vlan \in web.vlans)

ListInv ==
    \A c \in Caller :
        Running(c) /\ op[c].kind = "member" /\ web.dialect \in {"cgi", "xui"}
            /\ ~late[c] /\ Head(todo[c]) = "post" => ListKnown(c)

NoneInside(c) == \A p \in Protected : web.member[op[c].vlan][p] = "excluded"

GuardInv ==
    \A c \in Caller :
        Running(c) /\ op[c].kind = "delete" /\ ~op[c].force
            /\ ~late[c] /\ Head(todo[c]) \notin {"guardList", "guard"} => NoneInside(c)

RenameInv ==
    \A c \in Caller :
        Running(c) /\ op[c].kind = "rename" /\ ~late[c] /\ Head(todo[c]) # "page" =>
            saw[c].address = web.address

Inv == Base /\ OnceInv /\ HeldInv /\ NoSilentSuccess /\ ListInv /\ GuardInv /\ RenameInv

\* After a step the next request of a call is the second it had, or the third.
LEMMA NextRequest ==
    ASSUME Base, NEW c \in Caller, Running(c)
    PROVE  /\ Passes(c) => /\ Len(todo[c]) >= 2 /\ Head(todo'[c]) = todo[c][2]
                           /\ Head(todo'[c]) \in Request
           /\ Skips(c) => Head(todo'[c]) = todo[c][3] /\ Head(todo'[c]) \in Request
<1>1. todo[c] \in Seq(Request) /\ todo[c] # <<>> /\ Len(todo[c]) \in Nat
  BY Ongoing
<1> DEFINE s == todo[c]
           t == Tail(s)
<1>2. /\ t \in Seq(Request) /\ Len(t) = Len(s) - 1
      /\ \A i \in 1..Len(s) - 1 : t[i] = s[i + 1]
  BY <1>1, TailFacts
<1>3. ASSUME Passes(c)
      PROVE  /\ Len(s) >= 2 /\ Head(todo'[c]) = s[2] /\ Head(todo'[c]) \in Request
  <2>1. todo'[c] = t /\ t # <<>>
    BY <1>3 DEF Passes
  <2> HIDE DEF t
  <2>2. Len(t) >= 1 /\ Head(t) = t[1] /\ Head(t) \in Request
    BY <1>2, <2>1, TailFacts
  <2> QED BY <1>1, <1>2, <2>1, <2>2
<1>4. ASSUME Skips(c)
      PROVE  Head(todo'[c]) = s[3] /\ Head(todo'[c]) \in Request
  <2>1. Len(s) >= 3 /\ todo'[c] = Tail(t)
    BY <1>4 DEF Skips
  <2>2. Tail(t) \in Seq(Request) /\ Tail(t) # <<>> /\ Tail(t)[1] = s[3]
    BY <1>1, <2>1, TailTwice
  <2> HIDE DEF t
  <2> QED BY <2>1, <2>2, TailFacts
<1> QED BY <1>3, <1>4

LEMMA OnceKept ==
    ASSUME Base, OnceInv, Drifts \/ \E c \in Caller : Acts(c)
    PROVE  OnceInv'
<1> SUFFICES ASSUME NEW c \in Caller
             PROVE  ~twice'[c] /\ \A i \in 1..Len(todo'[c]) : todo'[c][i] \notin sent'[c]
  BY DEF OnceInv
<1>1. CASE Waits(c)
  BY <1>1 DEF Waits, OnceInv
<1>2. CASE Starts(c)
  BY <1>2 DEF Starts
<1>3. CASE Reads(c) \/ Posts(c)
  <2> DEFINE s == todo[c]
  <2>1. /\ Running(c) /\ s \in Seq(Request) /\ s # <<>> /\ Len(s) \in Nat /\ Len(s) >= 1
        /\ Head(s) = s[1] /\ OnceEach(s) /\ sent[c] \subseteq Forms
        /\ 1 \in 1..Len(s)
    <3>1. Running(c)
      BY <1>3 DEF Reads, Posts
    <3>2. sent[c] \subseteq Forms
      BY TypeParts DEF Base, HistoryTypeOK
    <3> QED BY <3>1, <3>2, Ongoing DEF Fits
  <2>2. /\ ~twice'[c]
        /\ sent'[c] \in {sent[c], sent[c] \cup {s[1]}}
        /\ Reads(c) => sent'[c] = sent[c]
        /\ sent'[c] # sent[c] => s[1] \in Forms
    <3>1. sent \in [Caller -> SUBSET Forms] /\ twice \in [Caller -> BOOLEAN]
      BY TypeParts DEF Base, HistoryTypeOK
    <3>2. ~twice[c] /\ s[1] \notin sent[c]
      BY <2>1 DEF OnceInv
    <3>3. CASE Reads(c)
      BY <3>2, <3>3 DEF Reads, Quiet
    <3>4. CASE UNCHANGED <<web, late, sent, twice, held>> /\ Posts(c)
      BY <3>2, <3>4, <2>1 DEF Posts, Reads
    <3>5. CASE Carries(c) /\ Posts(c)
      BY <2>1, <3>1, <3>2, <3>5 DEF Carries, Posts, Reads
    <3> QED BY <1>3, <3>3, <3>4, <3>5 DEF Posts
  <2>3. \A i \in 1..Len(s) : i > 1 => s[i] \notin sent'[c]
    BY <2>1, <2>2 DEF OnceEach, OnceInv
  <2>4. CASE Stops(c)
    BY <2>2, <2>4 DEF Stops
  <2>5. CASE Reads(c) /\ Stays(c)
    BY <2>2, <2>5 DEF Stays, OnceInv
  <2>6. CASE LooksOnceMore(c)
    <3> DEFINE z == <<"lastLook">>
    <3>1. Len(z) = 1 /\ \A i \in 1..Len(z) : z[i] = "lastLook"
      OBVIOUS
    <3>2. sent'[c] \subseteq Forms /\ "lastLook" \notin Forms
      BY <2>1, <2>2 DEF Forms
    <3> HIDE DEF z
    <3> QED BY <2>2, <2>6, <3>1, <3>2 DEF LooksOnceMore, z
  <2>7. CASE Passes(c)
    <3>1. /\ todo'[c] = Tail(s) /\ Len(Tail(s)) = Len(s) - 1
          /\ \A i \in 1..Len(s) - 1 : Tail(s)[i] = s[i + 1]
      BY <2>1, <2>7, TailFacts DEF Passes
    <3>2. ASSUME NEW i \in 1..Len(Tail(s)) PROVE Tail(s)[i] \notin sent'[c]
      <4>1. i + 1 \in 1..Len(s) /\ i + 1 > 1 /\ Tail(s)[i] = s[i + 1]
        BY <2>1, <3>1
      <4> QED BY <2>3, <4>1
    <3> QED BY <2>2, <3>1, <3>2
  <2>8. CASE Skips(c)
    <3> DEFINE t == Tail(s)
    <3>1. t \in Seq(Request) /\ t # <<>> /\ todo'[c] = Tail(t)
      BY <2>1, <2>8, TailTwice DEF Skips
    <3>2. Len(t) = Len(s) - 1 /\ \A i \in 1..Len(s) - 1 : t[i] = s[i + 1]
      BY <2>1, TailFacts
    <3> HIDE DEF t
    <3>3. Len(Tail(t)) = Len(t) - 1 /\ \A i \in 1..Len(t) - 1 : Tail(t)[i] = t[i + 1]
      BY <3>1, TailFacts
    <3>4. ASSUME NEW i \in 1..Len(Tail(t)) PROVE Tail(t)[i] \notin sent'[c]
      <4>1. i + 2 \in 1..Len(s) /\ i + 2 > 1 /\ Tail(t)[i] = s[i + 2]
        BY <2>1, <3>2, <3>3
      <4> QED BY <2>3, <4>1
    <3> QED BY <2>2, <3>1, <3>4
  <2> QED BY <1>3, <2>4, <2>5, <2>6, <2>7, <2>8 DEF Reads, Posts
<1> QED BY <1>1, <1>2, <1>3, DriftsWait, ActsWait DEF Acts

\* A call's button is the last thing it does, and nothing else ends a call unseen.
LEMMA OnlyButtonsBelieve ==
    ASSUME Base, NEW c \in Caller, Running(c), Believes(c)
    PROVE  op[c].kind \in Buttons /\ (op[c].kind = "upload" => Head(todo[c]) \in Forms)
<1> DEFINE s == todo[c]
<1>1. /\ s \in Seq(Request) /\ s # <<>> /\ Len(s) \in Nat /\ Len(s) >= 1
      /\ Head(s) = s[1] /\ Closing(op[c], s)
  BY Ongoing DEF Fits
<1>2. Tail(s) = <<>> /\ s[1] \notin Verifies
  BY <1>1 DEF Believes
<1>3. Tail(s) \in Seq(Request) /\ Len(Tail(s)) = Len(s) - 1
  BY <1>1, TailFacts
<1>4. Len(s) = 1
  <2>1. ~(Len(Tail(s)) >= 1)
    BY <1>2, <1>3, NotEmpty
  <2> QED BY <1>1, <1>3, <2>1
<1>5. 1 \in 1..Len(s) /\ 1 = Len(s)
  BY <1>4
<1> QED BY <1>1, <1>2, <1>5 DEF Closing, Forms

LEMMA HeldKept ==
    ASSUME Base, HeldInv, NoSilentSuccess, Drifts \/ \E c \in Caller : Acts(c)
    PROVE  HeldInv' /\ NoSilentSuccess'
<1> SUFFICES ASSUME NEW c \in Caller
             PROVE  /\ Running(c)' /\ Holds(web', op'[c]) => held'[c]
                    /\ end'[c] = "ok" /\ op'[c].kind \notin {"cycle", "reboot"} => held'[c]
  BY DEF HeldInv, NoSilentSuccess
<1>1. Running(c)' <=> end'[c] = "running"
  BY DEF Running
<1>2. CASE Waits(c)
  BY <1>1, <1>2 DEF Waits, HeldInv, NoSilentSuccess, Running
<1>3. CASE Starts(c)
  BY <1>1, <1>3 DEF Starts
<1>4. CASE Reads(c)
  <2>1. /\ Running(c) /\ web' = web /\ op' = op /\ held' = held /\ Head(todo[c]) \notin Forms
    BY <1>4 DEF Reads, Quiet
  <2>2. end'[c] = "ok" => Verified(c) \/ Head(todo[c]) = "poll" \/ Believes(c)
    BY <1>4 DEF Reads, Stays, LooksOnceMore, Passes, Skips
  <2>3. Head(todo[c]) = "poll" => op[c].kind = "cycle"
    BY <2>1, Ongoing DEF Fits, Closing
  <2>4. Believes(c) => op[c].kind \in {"cycle", "reboot"}
    BY <2>1, OnlyButtonsBelieve DEF Buttons
  <2> QED BY <1>1, <2>1, <2>2, <2>3, <2>4 DEF HeldInv, Verified
<1>5. CASE Posts(c)
  <2>1. Running(c) /\ op' = op
    BY <1>5 DEF Posts
  <2>2. Carries(c) => (Holds(web', op[c]) => held'[c])
    BY <2>1 DEF Carries, Turns
  <2>3. UNCHANGED <<web, held>> => (Holds(web', op[c]) => held'[c])
    BY <2>1 DEF HeldInv
  <2>4. end'[c] = "ok" => Believes(c) /\ (op[c].kind = "upload" => Carries(c))
    BY <1>5 DEF Posts, Passes
  <2>5. Believes(c) => op[c].kind \in Buttons
    BY <2>1, OnlyButtonsBelieve
  <2>6. Carries(c) /\ op[c].kind = "upload" => Holds(web', op[c])
    BY DEF Carries, Turns, Modest, Holds, Setting
  <2>7. Holds(web', op[c]) => held'[c]
    BY <1>5, <2>2, <2>3 DEF Posts
  <2>8. end'[c] = "ok" /\ op[c].kind \notin {"cycle", "reboot"} => held'[c]
    BY <2>4, <2>5, <2>6, <2>7 DEF Buttons
  <2> QED BY <2>1, <2>7, <2>8
<1> QED BY <1>2, <1>3, <1>4, <1>5, DriftsWait, ActsWait DEF Acts

\* What a call that waits has read, and relies on, is still so.
LEMMA WaitingKnows ==
    ASSUME NEW c \in Caller, Waits(c), Running(c)', ~late'[c]
    PROVE  /\ Running(c) /\ ~late[c] /\ op'[c] = op[c] /\ saw'[c] = saw[c] /\ todo'[c] = todo[c]
           /\ web'.member[op[c].vlan] = web.member[op[c].vlan]
           /\ op[c].vlan \in web.vlans => op[c].vlan \in web'.vlans
           /\ op[c].kind = "rename" => web'.address = web.address
<1>1. Running(c)
  BY DEF Waits, Running
<1>2. ~late[c] /\ ReliesOn(web', op[c]) = ReliesOn(web, op[c])
  BY <1>1 DEF Waits
<1>3. /\ web'.member[op[c].vlan] = web.member[op[c].vlan]
      /\ (op[c].vlan \in web'.vlans) = (op[c].vlan \in web.vlans)
      /\ op[c].kind = "rename" => web'.address = web.address
  BY <1>2 DEF ReliesOn
<1> QED BY <1>1, <1>2, <1>3 DEF Waits

LEMMA ListKept ==
    ASSUME Base, ListInv, Drifts \/ \E c \in Caller : Acts(c)
    PROVE  ListInv'
<1> SUFFICES ASSUME NEW c \in Caller, Running(c)', op'[c].kind = "member",
                    web'.dialect \in {"cgi", "xui"}, ~late'[c], Head(todo'[c]) = "post"
             PROVE  /\ saw'[c].list = web'.member[op'[c].vlan]
                    /\ web'.dialect = "xui" => op'[c].vlan \in web'.vlans
  BY DEF ListInv, ListKnown
<1>1. end'[c] = "running" /\ web'.dialect = web.dialect
  BY SoundKept DEF Running
<1>2. CASE Waits(c)
  BY <1>1, <1>2, WaitingKnows DEF ListInv, ListKnown
<1>3. CASE Starts(c)
  <2>1. /\ todo'[c] = Requests(web.dialect, op'[c]) /\ op'[c] \in Operation
        /\ op'[c].kind \in Serves(web.dialect) /\ web.dialect \in Dialect
    BY <1>1, <1>3 DEF Starts, Base, Sound, WebState
  <2>2. todo'[c] \in Seq(Request) /\ todo'[c] # <<>> /\ todo'[c][1] # "post"
    BY <2>1, RequestsFit
  <2>3. Head(todo'[c]) = todo'[c][1]
    BY <2>2, TailFacts
  <2> QED BY <2>2, <2>3
<1>4. CASE Reads(c) \/ Posts(c)
  <2>1. Running(c) /\ op' = op
    BY <1>4 DEF Reads, Posts, Quiet
  <2>2. /\ Leading(web.dialect, op[c], todo[c]) /\ Head(todo[c]) = todo[c][1]
        /\ Len(todo[c]) \in Nat /\ Len(todo[c]) >= 1
        /\ Closing(op[c], todo[c])
    BY <2>1, Ongoing DEF Fits
  <2>3. ~Stops(c)
    BY <1>1 DEF Stops
  <2>4. op[c].kind = "member" /\ 1 \in 1..Len(todo[c])
    BY <2>1, <2>2
  <2>5. ASSUME Passes(c)
        PROVE  Head(todo[c]) = "select"
    <3>1. Len(todo[c]) >= 2 /\ todo[c][2] = "post"
      BY <2>1, <2>5, NextRequest
    <3>2. 2 \in 1..Len(todo[c]) /\ 2 - 1 = 1 /\ 2 > 1
      BY <2>2, <3>1
    <3>3. todo[c][2 - 1] = "select"
      BY <1>1, <2>2, <2>4, <3>1, <3>2 DEF Leading
    <3> QED BY <2>2, <3>2, <3>3
  <2>6. CASE Reads(c) /\ Passes(c) /\ Learns(c)
    BY <1>1, <2>1, <2>5, <2>6 DEF Learns, Reads, Quiet
  <2>7. CASE Posts(c)
    <3>1. Passes(c)
      BY <2>3, <2>7 DEF Posts
    <3> QED BY <2>5, <2>7, <3>1 DEF Posts, Forms
  <2>8. CASE Reads(c) /\ Stays(c)
    <3>1. Head(todo[c]) = "post" /\ Head(todo[c]) \notin Forms
      BY <2>8 DEF Reads, Stays
    <3> QED BY <3>1 DEF Forms
  <2>9. CASE LooksOnceMore(c)
    BY <2>2, <2>4, <2>9 DEF LooksOnceMore, Closing
  <2>10. CASE Reads(c) /\ Skips(c)
    <3>1. Head(todo[c]) # "guardList"
      BY <2>2, <2>4 DEF Leading
    <3> QED BY <2>1, <2>10, <3>1 DEF Skips, Reads, Quiet
  <2> QED BY <1>4, <2>3, <2>6, <2>7, <2>8, <2>9, <2>10 DEF Reads
<1> QED BY <1>2, <1>3, <1>4, DriftsWait, ActsWait DEF Acts

LEMMA GuardKept ==
    ASSUME Base, GuardInv, Drifts \/ \E c \in Caller : Acts(c)
    PROVE  GuardInv'
<1> SUFFICES ASSUME NEW c \in Caller, Running(c)', op'[c].kind = "delete", ~op'[c].force,
                    ~late'[c], Head(todo'[c]) \notin {"guardList", "guard"},
                    NEW p \in Protected
             PROVE  web'.member[op'[c].vlan][p] = "excluded"
  BY DEF GuardInv, NoneInside
<1>1. end'[c] = "running"
  BY DEF Running
<1>2. CASE Waits(c)
  BY <1>2, WaitingKnows DEF GuardInv, NoneInside
<1>3. CASE Starts(c)
  <2>1. /\ todo'[c] = Requests(web.dialect, op'[c]) /\ op'[c] \in Operation
        /\ op'[c].kind \in Serves(web.dialect) /\ web.dialect \in Dialect
    BY <1>1, <1>3 DEF Starts, Base, Sound, WebState
  <2>2. todo'[c] \in Seq(Request) /\ todo'[c] # <<>> /\ todo'[c][1] = "guardList"
    BY <2>1, RequestsFit
  <2>3. Head(todo'[c]) = todo'[c][1]
    BY <2>2, TailFacts
  <2> QED BY <2>2, <2>3
<1>4. CASE Reads(c) \/ Posts(c)
  <2>1. Running(c) /\ op' = op
    BY <1>4 DEF Reads, Posts, Quiet
  <2>2. /\ Leading(web.dialect, op[c], todo[c]) /\ Closing(op[c], todo[c])
        /\ Head(todo[c]) = todo[c][1] /\ Len(todo[c]) \in Nat /\ 1 \in 1..Len(todo[c])
        /\ op[c].vlan \in Vlan /\ p \in Port
    BY <2>1, Ongoing, HttpWriterAssumption DEF Fits, Operation
  <2>3. ~Stops(c) /\ op[c].kind = "delete" /\ ~op[c].force
    BY <1>1, <2>1 DEF Stops
  <2>4. Head(todo[c]) \notin {"list", "select"} /\ ~LooksOnceMore(c)
    BY <2>2, <2>3 DEF Leading, LooksOnceMore, Closing
  <2>5. CASE Reads(c) /\ Passes(c) /\ Learns(c)
    <3>1. web' = web /\ late[c] \in BOOLEAN /\ late'[c] \in BOOLEAN
      BY <2>5, TypeParts DEF Reads, Quiet, Base, HistoryTypeOK
    <3>2. CASE Head(todo[c]) = "guardList"
      <4>1. todo[c][2] = "guard"
        BY <2>2, <3>2 DEF Leading
      <4> QED BY <2>1, <2>5, <4>1, NextRequest
    <3>3. CASE Head(todo[c]) = "guard"
      BY <2>1, <2>5, <3>1, <3>3 DEF Learns
    <3>4. CASE Head(todo[c]) \notin {"guardList", "guard"}
      <4>1. ~late[c]
        BY <2>3, <2>4, <2>5, <3>1, <3>4 DEF Learns
      <4> QED BY <2>1, <2>3, <3>1, <3>4, <4>1 DEF GuardInv, NoneInside
    <3> QED BY <3>2, <3>3, <3>4
  <2>6. CASE Reads(c) /\ Stays(c)
    <3>1. todo'[c] = todo[c] /\ late'[c] = late[c] /\ web' = web
      BY <2>6 DEF Reads, Quiet, Stays
    <3> QED BY <2>1, <2>3, <3>1 DEF GuardInv, NoneInside
  <2>7. CASE Reads(c) /\ Skips(c)
    <3>1. op[c].vlan \notin web.vlans /\ web' = web
      BY <2>4, <2>7 DEF Skips, Reads, Quiet
    <3>2. web.member[op[c].vlan] = NoMembers
      BY <2>2, <3>1 DEF Base, Sound
    <3> QED BY <2>1, <2>2, <3>1, <3>2 DEF NoMembers
  <2>8. CASE Posts(c)
    <3>1. Head(todo[c]) \notin {"guardList", "guard"}
      BY <2>8 DEF Posts, Forms
    <3>2. CASE UNCHANGED <<web, late, sent, twice, held>>
      BY <2>1, <2>3, <3>1, <3>2 DEF GuardInv, NoneInside
    <3>3. CASE Carries(c)
      <4>1. PICK t : Turns(t, {c}) /\ Modest(web, op[c], saw[c], t)
        BY <3>3 DEF Carries
      <4>2. ~late[c]
        BY <2>1, <4>1 DEF Turns
      <4>3. web'.member = [web.member EXCEPT ![op[c].vlan] = NoMembers]
        BY <2>3, <4>1 DEF Turns, Modest
      <4>4. web.member \in [Vlan -> [Port -> Mode]]
        BY DEF Base, Sound, WebState
      <4> QED BY <2>1, <2>2, <4>3, <4>4 DEF NoMembers
    <3> QED BY <2>8, <3>2, <3>3 DEF Posts
  <2> QED BY <1>4, <2>3, <2>4, <2>5, <2>6, <2>7, <2>8 DEF Reads
<1> QED BY <1>2, <1>3, <1>4, DriftsWait, ActsWait DEF Acts

LEMMA RenameKept ==
    ASSUME Base, RenameInv, Drifts \/ \E c \in Caller : Acts(c)
    PROVE  RenameInv'
<1> SUFFICES ASSUME NEW c \in Caller, Running(c)', op'[c].kind = "rename",
                    ~late'[c], Head(todo'[c]) # "page"
             PROVE  saw'[c].address = web'.address
  BY DEF RenameInv
<1>1. end'[c] = "running"
  BY DEF Running
<1>2. CASE Waits(c)
  BY <1>2, WaitingKnows DEF RenameInv
<1>3. CASE Starts(c)
  <2>1. /\ todo'[c] = Requests(web.dialect, op'[c]) /\ op'[c] \in Operation
        /\ op'[c].kind \in Serves(web.dialect) /\ web.dialect \in Dialect
    BY <1>1, <1>3 DEF Starts, Base, Sound, WebState
  <2>2. todo'[c] \in Seq(Request) /\ todo'[c] # <<>> /\ todo'[c][1] = "page"
    BY <2>1, RequestsFit
  <2>3. Head(todo'[c]) = todo'[c][1]
    BY <2>2, TailFacts
  <2> QED BY <2>2, <2>3
<1>4. CASE Reads(c) \/ Posts(c)
  <2>1. Running(c) /\ op' = op
    BY <1>4 DEF Reads, Posts, Quiet
  <2>2. /\ Leading(web.dialect, op[c], todo[c]) /\ Closing(op[c], todo[c])
        /\ Head(todo[c]) = todo[c][1] /\ Len(todo[c]) \in Nat /\ 1 \in 1..Len(todo[c])
    BY <2>1, Ongoing DEF Fits
  <2>3. ~Stops(c) /\ op[c].kind = "rename"
    BY <1>1, <2>1 DEF Stops
  <2>4. /\ Head(todo[c]) \notin {"list", "select", "guardList", "guard"}
        /\ ~LooksOnceMore(c) /\ ~Skips(c)
    BY <2>2, <2>3 DEF Leading, LooksOnceMore, Skips, Closing
  <2>5. CASE Reads(c) /\ Passes(c) /\ Learns(c)
    <3>1. web' = web /\ late[c] \in BOOLEAN /\ late'[c] \in BOOLEAN
      BY <2>5, TypeParts DEF Reads, Quiet, Base, HistoryTypeOK
    <3>2. CASE Head(todo[c]) = "page"
      BY <2>1, <2>5, <3>1, <3>2 DEF Learns
    <3>3. CASE Head(todo[c]) # "page"
      <4>1. ~late[c] /\ saw'[c].address = saw[c].address
        BY <2>3, <2>4, <2>5, <3>1, <3>3 DEF Learns
      <4> QED BY <2>1, <2>3, <3>1, <3>3, <4>1 DEF RenameInv
    <3> QED BY <3>2, <3>3
  <2>6. CASE Reads(c) /\ Stays(c)
    <3>1. todo'[c] = todo[c] /\ late'[c] = late[c] /\ web' = web /\ saw'[c] = saw[c]
      BY <2>6 DEF Reads, Quiet, Stays
    <3> QED BY <2>1, <2>3, <3>1 DEF RenameInv
  <2>7. CASE Posts(c)
    <3>1. Head(todo[c]) # "page" /\ saw'[c] = saw[c]
      BY <2>3, <2>7 DEF Posts, Forms
    <3>2. CASE UNCHANGED <<web, late, sent, twice, held>>
      BY <2>1, <2>3, <3>1, <3>2 DEF RenameInv
    <3>3. CASE Carries(c)
      <4>1. PICK t : Turns(t, {c}) /\ Modest(web, op[c], saw[c], t)
        BY <3>3 DEF Carries
      <4>2. ~late[c]
        BY <2>1, <4>1 DEF Turns
      <4>3. saw[c].address = web.address
        BY <2>1, <2>3, <3>1, <4>2 DEF RenameInv
      <4>4. web'.address \in {web.address, saw[c].address}
        BY <2>3, <4>1 DEF Turns, Modest
      <4> QED BY <3>1, <4>3, <4>4
    <3> QED BY <2>7, <3>2, <3>3 DEF Posts
  <2> QED BY <1>4, <2>3, <2>4, <2>5, <2>6, <2>7 DEF Reads
<1> QED BY <1>2, <1>3, <1>4, DriftsWait, ActsWait DEF Acts

-----------------------------------------------------------------------------
(***************************************************************************)
(* Theorems.                                                               *)
(***************************************************************************)
LEMMA NoCallTyped == NoCall \in Operation
<1>1. PICK p \in Port, v \in Vlan : TRUE
  BY WebUiAssumption
<1>2. [kind |-> "poe", port |-> p, vlan |-> v, mode |-> "tagged", on |-> TRUE,
       force |-> FALSE, gate |-> "open"] \in Operation
  BY DEF Operation, Kinds, PortKinds, Mode, Gate
<1>3. \E o \in Operation : TRUE
  BY <1>2
<1> QED BY <1>3 DEF NoCall

LEMMA InitHolds == Init => Inv
<1> SUFFICES ASSUME Init PROVE Inv
  OBVIOUS
<1>1. Sound(web)
  BY WebUiAssumption DEF Init, Sound
<1>2. ClientTypeOK
  BY DEF Init, ClientInit, ClientTypeOK
<1>3. \A c \in Caller : todo[c] = <<>> /\ end[c] = "idle"
  BY DEF Init
<1>4. RequestTypeOK
  <2>1. Nothing \in Saw
    BY DEF Nothing, Saw, NoMembers, Mode, Address
  <2>2. 0 \in 0..MaxPolls /\ 0 \in 0..Retries
    BY HttpWriterAssumption
  <2>3. todo \in [Caller -> Seq(Request)] /\ end \in [Caller -> Ends]
    BY DEF Init, Ends
  <2>4. saw \in [Caller -> Saw] /\ again \in [Caller -> BOOLEAN]
    BY <2>1 DEF Init
  <2>5. tries \in [Caller -> 0..Retries] /\ polls \in [Caller -> 0..MaxPolls]
    BY <2>2 DEF Init
  <2> QED BY <1>3, <2>3, <2>4, <2>5 DEF RequestTypeOK, Running
<1>5. HistoryTypeOK
  BY DEF Init, HistoryTypeOK
<1>6. TypeOK
  <2>1. op \in [Caller -> Operation]
    BY NoCallTyped DEF Init
  <2>2. lost \in 0..MaxLoss /\ events \in 0..MaxEvents /\ started \in [Caller -> 0..MaxOps]
    BY HttpWriterAssumption DEF Init
  <2> QED BY <1>1, <1>2, <1>4, <1>5, <2>1, <2>2, TypeParts DEF Sound
<1>7. \A c \in Caller : ~Running(c)
  BY <1>3 DEF Running
<1>8. Base
  BY <1>1, <1>6, <1>7 DEF Base, CallsFit
<1>9. OnceInv
  BY <1>3 DEF OnceInv, Init
<1> QED BY <1>3, <1>7, <1>8, <1>9 DEF Inv, HeldInv, NoSilentSuccess, ListInv, GuardInv, RenameInv

LEMMA NextKeeps == Inv /\ [Next]_vars => Inv'
<1> SUFFICES ASSUME Inv, [Next]_vars PROVE Inv'
  OBVIOUS
<1>1. Base'
  BY BaseKept DEF Inv
<1>2. Drifts \/ \E c \in Caller : Acts(c)
  BY NextActs DEF Inv
<1> QED BY <1>1, <1>2, OnceKept, HeldKept, ListKept, GuardKept, RenameKept DEF Inv

LEMMA InvHolds == Spec => []Inv
BY InitHolds, NextKeeps, PTL DEF Spec

(***************************************************************************)
(* Whatever HttpWriter reads into a call and posts from it, the switch,    *)
(* the sessions and the calls keep their types, and a VLAN that is not     *)
(* there has no members.                                                   *)
(***************************************************************************)
THEOREM TypeCorrect == Spec => []TypeOK
<1>1. Inv => TypeOK
  BY DEF Inv, Base
<1> QED BY <1>1, InvHolds, PTL

(***************************************************************************)
(* post_form and post_xml never repeat a form: none is carried out twice   *)
(* in one call, however often get_page tries again or logs in again.       *)
(***************************************************************************)
THEOREM NeverTwiceProved == Spec => []NeverTwice
<1>1. Inv => NeverTwice
  BY DEF Inv, OnceInv, NeverTwice
<1> QED BY <1>1, InvHolds, PTL

(***************************************************************************)
(* HttpWriter returns from a call that it reads back, and from an upload,  *)
(* only if what was asked for has been so during the call, though the      *)
(* login page passes for the acceptance of a form.                         *)
(***************************************************************************)
THEOREM NoSilentSuccessProved == Spec => []NoSilentSuccess
<1>1. Inv => NoSilentSuccess
  BY DEF Inv
<1> QED BY <1>1, InvHolds, PTL

\* A call that moves has not waited: it read, or started, or its form was carried out.
LEMMA MovesCarry ==
    ASSUME Inv, [Next]_vars, NEW c \in Caller, Moves(c)
    PROVE  web' = web \/ (Running(c) /\ Head(todo[c]) \in Forms /\ Carries(c))
<1>1. Drifts \/ \E d \in Caller : Acts(d)
  BY NextActs DEF Inv
<1>2. ~Waits(c)
  BY DEF Moves, Waits
<1>3. Acts(c)
  BY <1>1, <1>2, DriftsWait, ActsWait DEF Inv
<1> QED BY <1>3 DEF Acts, Starts, Reads, Quiet, Posts

\* The list that a form carries is the VLAN's own, with one port replaced.
LEMMA FormMembers ==
    ASSUME Inv, NEW c \in Caller, Running(c), Head(todo[c]) \in Forms, Carries(c),
           late[c] => web.dialect \notin {"cgi", "xui"}
    PROVE  /\ \A v \in Vlan \ {op[c].vlan} : web'.member[v] = web.member[v]
           /\ op[c].kind # "delete" =>
                \A p \in Port : p # op[c].port \/ op[c].kind # "member" =>
                  \A v \in Vlan : web'.member[v][p] = web.member[v][p]
           /\ op[c].kind = "delete" => web'.member[op[c].vlan] = NoMembers
<1> DEFINE o == op[c]
           s == web
<1>1. /\ o \in Operation /\ saw[c] \in Saw /\ o.vlan \in Vlan /\ o.port \in Port
      /\ s.member \in [Vlan -> [Port -> Mode]] /\ s.dialect \in Dialect
      /\ o.kind \in Serves(s.dialect)
  BY Ongoing DEF Inv, Base, Sound, WebState, Operation, CallsFit
<1>2. Modest(s, o, saw[c], web')
  BY DEF Carries, Turns
<1>3. CASE o.kind \notin {"member", "delete"}
  BY <1>2, <1>3 DEF Modest
<1>4. CASE o.kind = "delete"
  <2>1. web'.member = [s.member EXCEPT ![o.vlan] = NoMembers]
    BY <1>2, <1>4 DEF Modest
  <2> QED BY <1>1, <1>4, <2>1
<1>5. CASE o.kind = "member"
  <2>1. Head(todo[c]) = "post"
    <3>1. Closing(o, todo[c]) /\ Head(todo[c]) = todo[c][1] /\ 1 \in 1..Len(todo[c])
      BY Ongoing DEF Inv, Fits
    <3>2. Head(todo[c]) \notin {"press", "postOff", "postOn"}
      BY <1>5, <3>1 DEF Closing, Buttons
    <3> QED BY <3>2 DEF Forms
  <2>2. CASE s.dialect = "xml"
    <3>1. web'.member = [s.member EXCEPT ![o.vlan] = [@ EXCEPT ![o.port] = o.mode]]
      BY <1>2, <1>5, <2>2 DEF Modest
    <3> QED BY <1>1, <1>5, <3>1
  <2>3. CASE s.dialect \in {"cgi", "xui"}
    <3>1. ListKnown(c)
      BY <1>5, <2>1, <2>3 DEF Inv, ListInv
    <3>2. s.dialect = "xui" => ShownVlan(s, o.vlan) = o.vlan
      BY <3>1 DEF ListKnown, ShownVlan
    <3>3. \/ web'.member = s.member
          \/ web'.member = [s.member EXCEPT ![o.vlan] = NewList(saw[c], o)]
      BY <1>2, <1>5, <2>3, <3>2 DEF Modest
    <3>4. \A p \in Port \ {o.port} : NewList(saw[c], o)[p] = s.member[o.vlan][p]
      BY <1>1, <3>1 DEF NewList, ListKnown
    <3> HIDE DEF o, s
    <3> QED BY <1>1, <1>5, <3>3, <3>4 DEF o, s
  <2>4. s.dialect \in {"cgi", "xui", "xml"}
    BY <1>1, <1>5 DEF Serves, Dialect
  <2> QED BY <2>2, <2>3, <2>4
<1> QED BY <1>3, <1>4, <1>5

(***************************************************************************)
(* A form of HttpWriter, though "cgi" and "xui" carry the list of all      *)
(* ports, changes the port and the VLAN that were named, unless the list   *)
(* is stale.                                                               *)
(***************************************************************************)
THEOREM OnlyNamedMovesProved == Spec => OnlyNamedMoves
<1> DEFINE Only(c) ==
      Moves(c) /\ (late[c] => web.dialect \notin {"cgi", "xui"}) =>
        /\ \A v \in Vlan \ {op[c].vlan} : web'.member[v] = web.member[v]
        /\ "other" \in web.collectors => "other" \in web'.collectors
        /\ \A p \in Port \ {op[c].port} : op[c].kind = "delete" \/ Untouched(p)
<1>1. Inv /\ [Next]_vars => [\A c \in Caller : Only(c)]_vars
  <2> SUFFICES ASSUME Inv, [Next]_vars, NEW c \in Caller, Moves(c),
                      late[c] => web.dialect \notin {"cgi", "xui"}
               PROVE  /\ \A v \in Vlan \ {op[c].vlan} : web'.member[v] = web.member[v]
                      /\ "other" \in web.collectors => "other" \in web'.collectors
                      /\ \A p \in Port \ {op[c].port} : op[c].kind = "delete" \/ Untouched(p)
    OBVIOUS
  <2>1. CASE web' = web
    BY <2>1 DEF Untouched, SameMembers
  <2>2. CASE Running(c) /\ Head(todo[c]) \in Forms /\ Carries(c)
    <3>1. Modest(web, op[c], saw[c], web')
      BY <2>2 DEF Carries, Turns
    <3>2. ASSUME NEW p \in Port \ {op[c].port}, op[c].kind # "delete"
          PROVE  Untouched(p)
      <4>1. SameMembers(p)
        BY <2>2, <3>2, FormMembers DEF SameMembers
      <4> QED BY <3>1, <3>2, <4>1 DEF Modest, Untouched
    <3>3. "other" \in web.collectors => "other" \in web'.collectors
      BY <3>1 DEF Modest
    <3>4. \A v \in Vlan \ {op[c].vlan} : web'.member[v] = web.member[v]
      BY <2>2, FormMembers
    <3> QED BY <3>2, <3>3, <3>4
  <2> QED BY <2>1, <2>2, MovesCarry
<1> QED BY <1>1, InvHolds, PTL DEF Spec, OnlyNamedMoves

(***************************************************************************)
(* HttpWriter's _guard, and the facade's _guard_vlan_delete_members: a     *)
(* call without force leaves every protected port as it is, unless what it *)
(* has read has changed since.                                             *)
(***************************************************************************)
THEOREM ProtectedKeptProved == Spec => ProtectedKept
<1> DEFINE Kept(c) == Moves(c) /\ ~op[c].force /\ ~late[c] => \A p \in Protected : Untouched(p)
<1>1. Inv /\ [Next]_vars => [\A c \in Caller : Kept(c)]_vars
  <2> SUFFICES ASSUME Inv, [Next]_vars, NEW c \in Caller, Moves(c), ~op[c].force, ~late[c],
                      NEW p \in Protected
               PROVE  Untouched(p)
    OBVIOUS
  <2>1. p \in Port
    BY HttpWriterAssumption
  <2>2. CASE web' = web
    BY <2>2 DEF Untouched, SameMembers
  <2>3. CASE Running(c) /\ Head(todo[c]) \in Forms /\ Carries(c)
    <3>1. Modest(web, op[c], saw[c], web')
      BY <2>3 DEF Carries, Turns
    <3>2. p # op[c].port \/ op[c].kind \notin PortKinds
      BY <2>3 DEF Inv, Base, CallsFit, GuardRaises
    <3>3. CASE op[c].kind # "delete"
      <4>1. p # op[c].port \/ op[c].kind # "member"
        BY <3>2 DEF PortKinds
      <4>2. SameMembers(p)
        BY <2>1, <2>3, <3>3, <4>1, FormMembers DEF SameMembers
      <4> QED BY <2>1, <3>1, <3>2, <4>2 DEF Modest, Untouched
    <3>4. CASE op[c].kind = "delete"
      <4>1. web.member[op[c].vlan][p] = "excluded"
        BY <2>3, <3>4 DEF Inv, GuardInv, NoneInside, Forms
      <4>2. /\ \A v \in Vlan \ {op[c].vlan} : web'.member[v] = web.member[v]
            /\ web'.member[op[c].vlan] = NoMembers
        BY <2>3, <3>4, FormMembers
      <4>3. SameMembers(p)
        BY <2>1, <4>1, <4>2 DEF SameMembers, NoMembers
      <4> QED BY <2>1, <3>1, <3>2, <4>3 DEF Modest, Untouched
    <3> QED BY <3>3, <3>4
  <2> QED BY <2>2, <2>3, MovesCarry
<1> QED BY <1>1, InvHolds, PTL DEF Spec, ProtectedKept

(***************************************************************************)
(* _set_gs110emx_hostname, whose form carries the management address too,  *)
(* leaves it as it is, unless another manager moves it in between.         *)
(***************************************************************************)
THEOREM RenameKeepsAddressProved == Spec => RenameKeepsAddress
<1> DEFINE Kept(c) ==
      Moves(c) /\ op[c].kind = "rename" /\ ~late[c] => web'.address = web.address
<1>1. Inv /\ [Next]_vars => [\A c \in Caller : Kept(c)]_vars
  <2> SUFFICES ASSUME Inv, [Next]_vars, NEW c \in Caller, Moves(c), op[c].kind = "rename", ~late[c]
               PROVE  web'.address = web.address
    OBVIOUS
  <2>1. CASE Running(c) /\ Head(todo[c]) \in Forms /\ Carries(c)
    <3>1. saw[c].address = web.address
      BY <2>1 DEF Inv, RenameInv, Forms
    <3>2. web'.address \in {web.address, saw[c].address}
      BY <2>1 DEF Carries, Turns, Modest
    <3> QED BY <3>1, <3>2
  <2> QED BY <2>1, MovesCarry
<1> QED BY <1>1, InvHolds, PTL DEF Spec, RenameKeepsAddress
=============================================================================
