----------------------------- MODULE HttpClient -----------------------------
(***************************************************************************)
(* The web sessions of transport/http/client.py.  A client remembers that  *)
(* it has logged in (_logged_in) and is told by nobody when the switch     *)
(* drops the session: the next answer is the login page, with status 200.  *)
(* The callers are threads with an HttpClient each, or tasks that share    *)
(* one AsyncHttpClient.                                                    *)
(***************************************************************************)
EXTENDS WebUi

CONSTANT Caller

VARIABLES
    shared,     \* the callers are tasks that share an AsyncHttpClient
    session,    \* of each client, at the switch
    believes    \* _logged_in of each client

clientVars == <<shared, session, believes>>

\* A client goes by the name of a caller that uses it.
Of(c) == IF shared THEN CHOOSE x \in Caller : TRUE ELSE c

ClientInit ==
    /\ shared \in BOOLEAN
    /\ session = [k \in Caller |-> "out"]
    /\ believes = [k \in Caller |-> FALSE]

ClientTypeOK ==
    /\ shared \in BOOLEAN
    /\ session \in [Caller -> {"out", "live", "lost"}]
    /\ believes \in [Caller -> BOOLEAN]
    /\ \A k \in Caller : session[k] = "out" => ~believes[k]

LoggedIn(c) == believes[Of(c)] /\ session[Of(c)] = "live"

DeadSession(c) == believes[Of(c)] /\ session[Of(c)] # "live"

\* The first thing every request does.
LogIn(c) ==
    /\ ~believes[Of(c)]
    /\ session' = [session EXCEPT ![Of(c)] = "live"]
    /\ believes' = [believes EXCEPT ![Of(c)] = TRUE]
    /\ UNCHANGED shared

\* What the switch does to a session: a timeout, or somebody else's login.
SessionExpires(k) ==
    /\ session[k] = "live"
    /\ session' = [session EXCEPT ![k] = "lost"]
    /\ UNCHANGED <<shared, believes>>

AllSessionsEnd ==
    session' = [k \in Caller |-> IF session[k] = "live" THEN "lost" ELSE session[k]]

\* SyncSwitch.close: the next request builds a new client.
Close(k) ==
    /\ session[k] # "out"
    /\ session' = [session EXCEPT ![k] = "out"]
    /\ believes' = [believes EXCEPT ![k] = FALSE]
    /\ UNCHANGED shared

(***************************************************************************)
(* The login page for an answer.  The GoAhead interface has a status code  *)
(* for it, and HttpClient.get_page logs in again, once in a request;       *)
(* nothing else does.  Any other reader stumbles over the page.            *)
(***************************************************************************)
\* Bug: as often as it takes.
LogsInAlways(dialect, again) == dialect = "xml" /\ ~shared

LogsInAgain(dialect, again) == dialect = "xml" /\ ~shared /\ ~again

ForgetLogin(c) ==
    /\ believes' = [believes EXCEPT ![Of(c)] = FALSE]
    /\ UNCHANGED <<shared, session>>

\* The answer to a form of the other interfaces is looked at for a refusal
\* only, and the login page carries none.
TakenForAccepted(dialect) == dialect # "xml"
=============================================================================
