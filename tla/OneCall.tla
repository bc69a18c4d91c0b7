------------------------------ MODULE OneCall -------------------------------
(***************************************************************************)
(* What a front end promises to its callers, whatever is behind it: a call *)
(* is carried by one wire or by none; an answer that says nothing was done *)
(* is true; and an answer that says it was done was carried.               *)
(***************************************************************************)
CONSTANTS Callers, Wires

VARIABLES phase,        \* "idle", "open", "refused", "failed" or "done"
          wires,        \* what has carried the call so far
          wrote         \* the switch may have been changed by it

vars == <<phase, wires, wrote>>

Init ==
    /\ phase = [c \in Callers |-> "idle"]
    /\ wires = [c \in Callers |-> {}]
    /\ wrote = [c \in Callers |-> FALSE]

\* A call begins; the last one, if there was one, has been answered.
Ask(c) ==
    /\ phase[c] # "open"
    /\ phase' = [phase EXCEPT ![c] = "open"]
    /\ wires' = [wires EXCEPT ![c] = {}]
    /\ wrote' = [wrote EXCEPT ![c] = FALSE]

\* It asks the switch, always over the same wire.
Carry(c) ==
    /\ phase[c] = "open"
    /\ \E w \in Wires : wires[c] \subseteq {w} /\ wires' = [wires EXCEPT ![c] = {w}]
    /\ UNCHANGED <<phase, wrote>>

Alter(c) ==
    /\ phase[c] = "open" /\ wires[c] # {}
    /\ wrote' = [wrote EXCEPT ![c] = TRUE]
    /\ UNCHANGED <<phase, wires>>

\* A refusal, a failure of which the caller is told, or success.
Answer(c, p) ==
    /\ phase[c] = "open"
    /\ p = "refused" => ~wrote[c]
    /\ p = "done" => wires[c] # {}
    /\ phase' = [phase EXCEPT ![c] = p]
    /\ UNCHANGED <<wires, wrote>>

Next ==
    \E c \in Callers :
        \/ Ask(c) \/ Carry(c) \/ Alter(c)
        \/ \E p \in {"refused", "failed", "done"} : Answer(c, p)

Spec == Init /\ [][Next]_vars
=============================================================================
