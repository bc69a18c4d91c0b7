----------------------------- MODULE CliSession -----------------------------
(***************************************************************************)
(* A CLI session: the ShellDriver of transport/cli/session.py over the     *)
(* channel of an SSH, telnet or console transport (ssh.py, telnet.py,      *)
(* console.py).                                                            *)
(*                                                                         *)
(* run(command) connects and sets the session up if there is no driver,    *)
(* writes the line and reads until a prompt ends what has been read.  A    *)
(* read may return any part of what is under way; it may also time out,    *)
(* which loses what this run() has read and leaves the rest to the next.   *)
(* The channel itself loses nothing and keeps the order of the bytes.      *)
(* run_scp_copy and run_write_memory are a run() whose reader also answers *)
(* questions and, for a copy, looks out for the report of a failure.       *)
(***************************************************************************)
EXTENDS FastpathShell

CONSTANTS
    Prestuff,  \* "write memory" is sent together with the answer (writemem_stuff)
    MaxLate    \* bound: timeouts in a behaviour

VARIABLES
    shell,     \* the switch's end
    wire,      \* lines the switch has not executed yet
    back,      \* chunks the client has not read yet
    driver,    \* _driver: "none", "made" (setup not complete), "ready"
    agenda,    \* lines the present run() has still to send
    awaiting,  \* the line whose prompt it waits for, or has read
    answer,    \* what run() has returned or raised
    late,      \* timeouts so far
    torn       \* history: a run of this driver has raised

sessionVars == <<shell, wire, back, driver, agenda, awaiting, answer, late, torn>>

ASSUME CliSessionAssumption == Prestuff \in BOOLEAN /\ MaxLate \in Nat

NoLine   == Do("none")
Banner   == Do("banner")
Pending  == [is |-> "pending", texts |-> <<>>]
Raised   == [is |-> "raised", texts |-> <<>>]
Ended    == [is |-> "ended", texts |-> <<>>]    \* the end of the stream: CliTransportError
Returned(texts) == [is |-> "returned", texts |-> texts]

Idle    == awaiting = NoLine
Waiting == awaiting # NoLine /\ answer = Pending

FreshShell(config) ==
    [modes |-> <<>>, port |-> NoPort, asking |-> "nothing", down |-> FALSE, config |-> config]

SessionInit ==
    /\ shell \in {FreshShell(f) : f \in {Factory, InUse}}
    /\ wire = <<>> /\ back = <<>>
    /\ driver = "none"
    /\ agenda = <<>> /\ awaiting = NoLine /\ answer = Pending
    /\ late = 0 /\ torn = FALSE

-----------------------------------------------------------------------------
(***************************************************************************)
(* run(command).  connect() gives the object its driver before setup() has *)
(* succeeded.                                                              *)
(***************************************************************************)
Connect(c) ==
    /\ driver = "none"
    /\ \/ /\ driver' = "made"
          /\ back' = <<Prompt>>
          /\ awaiting' = Banner
          /\ agenda' = <<Do("enable"), Do("paging"), c>>
          /\ UNCHANGED <<answer, late>>
       \/ /\ late < MaxLate
          /\ late' = late + 1
          /\ answer' = Raised
          /\ awaiting' = c
          /\ UNCHANGED <<driver, back, agenda>>
    /\ torn' = FALSE
    /\ UNCHANGED <<shell, wire>>

\* The answer to the question of "reload" is always sent along.
Lines(c) ==
    IF c.do = "reload" \/ (c.do = "save" /\ Prestuff) THEN <<c, Do("yes")>> ELSE <<c>>

SendLine(c) ==
    /\ wire' = wire \o Lines(c)
    /\ awaiting' = c

RunOnDriver(c) ==
    /\ driver # "none"
    /\ SendLine(c)
    /\ UNCHANGED <<shell, back, driver, agenda, answer, late, torn>>

Run(c) ==
    /\ Idle
    /\ Connect(c) \/ RunOnDriver(c)

\* The switch executes the next line; one that is going down reads no more.
Executes ==
    /\ wire # <<>>
    /\ ~shell.down
    /\ \E done \in BOOLEAN :
         LET r == Execute(shell, Head(wire), done)
         IN  /\ shell' = r.shell
             /\ back' = back \o r.out
             /\ wire' = IF r.shell.down THEN <<>> ELSE Tail(wire)
    /\ UNCHANGED <<driver, agenda, awaiting, answer, late, torn>>

\* Bug: reading stops at the end of the text.
EndsAtText(chunk) == chunk.says # "password" \/ awaiting.do = "enable"

\* The reader answers the questions of this command.
Replies == awaiting.do = "copy" \/ (awaiting.do = "save" /\ ~Prestuff)

Ends(chunk) ==
    \/ chunk.says = "prompt"
    \/ chunk.says = "password" /\ awaiting.do = "enable"
    \/ chunk.says = "question" /\ Replies
    \/ chunk.says = "failure" /\ awaiting.do = "copy"

Some(read, what) == \E i \in 1..Len(read) : read[i].says = what

NextLine(asked) == IF asked THEN Do("password") ELSE Head(agenda)

\* Bug: the setup sends the same line again and again.
AgendaKept(asked) == agenda

AgendaAfter(asked) == IF asked THEN agenda ELSE Tail(agenda)

\* The chunks that say one of these things, in their order.
Saying(read, what) ==
    LET kept[n \in 0..Len(read)] ==
          IF n = 0 THEN <<>>
          ELSE IF read[n].says \in what THEN Append(kept[n - 1], read[n]) ELSE kept[n - 1]
    IN  kept[Len(read)]

\* _clean, but for the echo (IsEmpty).
Clean(read) == Saying(read, Printable)

Raises(how) ==
    /\ answer' = how
    /\ torn' = TRUE
    /\ agenda' = <<>>
    /\ UNCHANGED <<wire, driver, awaiting>>

\* setup() goes on with its next line.
SetupGoesOn(asked) ==
    /\ SendLine(NextLine(asked))
    /\ agenda' = AgendaAfter(asked)
    /\ driver' = IF awaiting.do = "paging" THEN "ready" ELSE driver
    /\ UNCHANGED <<answer, torn>>

\* A question is answered and what has been read so far is dropped.
Reply ==
    /\ wire' = Append(wire, Do("yes"))
    /\ UNCHANGED <<agenda, driver, awaiting, answer, torn>>

Return(read) ==
    /\ answer' = Returned(Clean(read))
    /\ UNCHANGED <<wire, agenda, driver, awaiting, torn>>

FailureIn(read)  == awaiting.do = "copy" /\ Some(read, "failure")
QuestionIn(read) == Replies /\ Some(read, "question") /\ ~FailureIn(read)

\* What is done with what has been read, by its last chunk at the latest.
Deals(read, last) ==
    \/ FailureIn(read) /\ Raises(Raised)
    \/ QuestionIn(read) /\ Reply
    \/ /\ ~FailureIn(read) /\ ~QuestionIn(read)
       /\ \/ agenda # <<>> /\ SetupGoesOn(last.says = "password")
          \/ agenda = <<>> /\ Return(read)

Receive ==
    /\ Waiting
    /\ \E n \in 1..Len(back) :
         /\ Ends(back[n])
         /\ back' = SubSeq(back, n + 1, Len(back))
         /\ Deals(SubSeq(back, 1, n), back[n])
    /\ UNCHANGED <<shell, late>>

\* recv raises before a prompt is seen: the chunks read so far are gone, and
\* the driver stays.
TimesOut ==
    /\ Waiting
    /\ late < MaxLate
    /\ late' = late + 1
    /\ \E n \in 0..Len(back) :
         /\ n > 0 => ~Ends(back[n])
         /\ back' = SubSeq(back, n + 1, Len(back))
    /\ Raises(Raised)
    /\ UNCHANGED shell

\* The switch has hung up and no prompt is left in what it has sent.
StreamEnds ==
    /\ Waiting
    /\ shell.down
    /\ \A n \in 1..Len(back) : ~Ends(back[n])
    /\ back' = <<>>
    /\ Raises(Ended)
    /\ UNCHANGED <<shell, late>>

Take ==
    /\ answer # Pending
    /\ answer' = Pending
    /\ awaiting' = NoLine
    /\ UNCHANGED <<shell, wire, back, driver, agenda, late, torn>>

\* close() hangs up; what the switch has not executed by then is lost.
Close ==
    /\ Idle
    /\ driver # "none"
    /\ driver' = "none"
    /\ shell' = FreshShell(shell.config)
    /\ wire' = <<>> /\ back' = <<>>
    /\ UNCHANGED <<agenda, awaiting, answer, late, torn>>

(***************************************************************************)
(* What the caller makes of the text: _clean drops the echo of the command *)
(* from the first line, so that nothing is left of an accepted command,    *)
(* and a parser reads the first table it meets.                            *)
(***************************************************************************)
IsEmpty(texts, c) ==
    \/ texts = <<>>
    \/ /\ Len(texts) = 1
       /\ texts[1].says = "nothing"
       /\ c.do = "interface" => texts[1].of = c
       /\ [texts[1].of EXCEPT !.port = NoPort] = [c EXCEPT !.port = NoPort]

Tables(texts)     == Saying(texts, {"table"})
FirstIs(texts, k) == Tables(texts) # <<>> /\ Tables(texts)[1].of.do = k

ParseBrief(texts) == IF FirstIs(texts, "brief") THEN Tables(texts)[1].at.vlans ELSE {}

ParsePvids(texts) ==
    IF FirstIs(texts, "pvids") THEN Tables(texts)[1].at.pvid
                               ELSE [p \in Port |-> NoVlan]

ParseDetail(texts) ==
    LET tables == Tables(texts)
        pages == {i \in 1..Len(tables) : tables[i].of.do = "detail"}
        page  == tables[Min(pages)]
        rows(f) == IF FirstIs(texts, "detail") /\ page.of.vlan \in page.at.vlans
                   THEN f[page.of.vlan] ELSE {}
    IN  IF pages = {} THEN [vlan |-> NoVlan, member |-> {}, untagged |-> {}]
        ELSE [vlan |-> page.of.vlan, member |-> rows(page.at.member),
              untagged |-> rows(page.at.untagged)]

\* The configuration that a table of settings shows, if there is one.
ParsePort(texts, page) == IF FirstIs(texts, page) THEN {Tables(texts)[1].at} ELSE {}

ParsePower(texts, p) ==
    {IF p \in f.lag THEN "off" ELSE f.power[p] : f \in ParsePort(texts, "power")}

-----------------------------------------------------------------------------
SessionTypeOK ==
    /\ shell.modes \in Seq({"database", "config", "interface"})
    /\ shell.port \in Port \cup {NoPort} /\ shell.asking \in Questions \cup {"nothing"}
    /\ shell.config \in Config
    /\ wire \in Seq(Command)
    /\ back \in Seq(Text \cup {Prompt})
    /\ driver \in {"none", "made", "ready"}
    /\ agenda \in Seq(Command)
    /\ awaiting \in Command \cup {NoLine, Banner}
    /\ answer.is \in {"pending", "raised", "ended", "returned"} /\ answer.texts \in Seq(Text)
    /\ late \in 0..MaxLate

(***************************************************************************)
(* run(command) "issues one command and returns its output text" (session  *)
(* .py CliSession): the output of that command, and of no other.           *)
(***************************************************************************)
OwnAnswer ==
    answer.is = "returned" =>
        /\ awaiting.do \notin ExecCommands => answer.texts # <<>>
        /\ \A i \in 1..Len(answer.texts) : answer.texts[i].of = awaiting

(***************************************************************************)
(* "Setup (enable + disable paging) is ... done before the first run": a   *)
(* command is sent only when all of the setup has been answered.           *)
(***************************************************************************)
SetupFirst ==
    Waiting /\ agenda = <<>> /\ awaiting # Banner => driver = "ready"

(***************************************************************************)
(* Both hold for as long as no run() of the session raises, and again once *)
(* the session has been closed and connects anew.                          *)
(***************************************************************************)
InStep == ~torn => OwnAnswer /\ SetupFirst
=============================================================================
