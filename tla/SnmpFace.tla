------------------------------ MODULE SnmpFace ------------------------------
(***************************************************************************)
(* How the virtual agent carries out one SET PDU: write_variables of       *)
(* virtual/faces/snmp.py over StateMibView and VirtualSwitchState.  The    *)
(* state is copied, the varbinds are applied to it one by one, and either  *)
(* one is refused and the copy is put back, or the sorted view that GETs   *)
(* are answered from is computed anew.                                     *)
(*                                                                         *)
(* The agent has one thread, which does all that between two requests.     *)
(* But the HTTP and NSDP faces and the in-process CLI share the state, and *)
(* no lock with it (virtual/server.py, start): between any two steps they  *)
(* write to it (Post), and copying, putting back and computing take one    *)
(* step for each column or field.                                          *)
(*                                                                         *)
(* A column's value says only who wrote it: a PDU, by its number, another  *)
(* face, or nobody.                                                        *)
(***************************************************************************)
EXTENDS Naturals

CONSTANTS
    Col,       \* columns of the state
    Field,     \* the columns of each dataclass field, which setattr replaces at once
    Pdus,      \* the columns of each SET PDU that the writers send
    Foreign,   \* what other faces write
    MaxPdus    \* bound: PDUs in a behaviour

ASSUME SnmpFaceAssumption ==
    /\ Field \subseteq SUBSET Col /\ UNION Field = Col
    /\ Pdus \subseteq SUBSET Col
    /\ Foreign \notin Nat
    /\ MaxPdus \in Nat

VARIABLES
    state,     \* VirtualSwitchState
    view,      \* the entries of StateMibView
    phase,     \* where write_variables is, or how the last PDU ended
    serial,    \* the number of the PDU
    pdu,       \* its columns
    todo,      \* columns that the phase has still to deal with
    copy,      \* the snapshot; then the entries of the new view
    during,    \* history: columns other faces have written since this copying began
    posted,    \* history: the same since the PDU arrived
    before,    \* history: the state when it arrived
    stale      \* history: columns that have changed unknown to the view

faceVars ==
    <<state, view, phase, serial, pdu, todo, copy, during, posted, before, stale>>

Values  == {Foreign} \cup 0..MaxPdus
Answers == {"accepted", "refused", "unanswered"}
AtRest  == {"ready"} \cup Answers
Working == {"snapshot", "apply", "restore", "rebuild"}

Blank == [c \in Col |-> 0]

FaceInit ==
    /\ state = Blank /\ view = Blank
    /\ phase = "ready" /\ serial = 0
    /\ pdu = {} /\ todo = {} /\ copy = Blank
    /\ during = {} /\ posted = {} /\ before = Blank /\ stale = {}

-----------------------------------------------------------------------------
\* A SET arrives.  The copying goes through all of the state.
Arrive ==
    /\ phase \in AtRest
    /\ serial < MaxPdus
    /\ serial' = serial + 1
    /\ pdu' \in Pdus
    /\ phase' = "snapshot" /\ todo' = Col /\ copy' = Blank
    /\ before' = state
    /\ during' = {} /\ posted' = {}
    /\ UNCHANGED <<state, view, stale>>

\* One column of deepcopy, or of oid_map.
CopyColumn ==
    /\ phase \in {"snapshot", "rebuild"}
    /\ \E c \in todo :
         /\ copy' = [copy EXCEPT ![c] = state[c]]
         /\ todo' = todo \ {c}
    /\ UNCHANGED <<state, view, phase, serial, pdu, during, posted, before, stale>>

Copied ==
    /\ phase = "snapshot" /\ todo = {}
    /\ phase' = "apply" /\ todo' = pdu
    /\ UNCHANGED <<state, view, serial, pdu, copy, during, posted, before, stale>>

(***************************************************************************)
(* apply_write_uncommitted of one varbind.  They are applied in any order, *)
(* the PDU's among them.                                                   *)
(***************************************************************************)
\* Bug: apply_write, which lets the view follow.
ApplyAndShow ==
    /\ phase = "apply"
    /\ \E c \in todo :
         /\ state' = [state EXCEPT ![c] = serial]
         /\ view' = [view EXCEPT ![c] = serial]
         /\ todo' = todo \ {c}
    /\ UNCHANGED <<phase, serial, pdu, copy, during, posted, before, stale>>

ApplyVarbind ==
    /\ phase = "apply"
    /\ \E c \in todo :
         /\ state' = [state EXCEPT ![c] = serial]
         /\ todo' = todo \ {c}
    /\ UNCHANGED <<view, phase, serial, pdu, copy, during, posted, before, stale>>

\* Bug: the error propagates, and what was written before stays.
RefuseAtOnce ==
    /\ phase = "apply" /\ todo # {}
    /\ phase' = "refused" /\ todo' = {}
    /\ UNCHANGED <<state, view, serial, pdu, copy, during, posted, before, stale>>

\* A varbind is not writable, or apply_write raises.
RefuseVarbind ==
    /\ phase = "apply" /\ todo # {}
    /\ phase' = "restore" /\ todo' = Col
    /\ UNCHANGED <<state, view, serial, pdu, copy, during, posted, before, stale>>

\* setattr of one field.
RestoreField ==
    /\ phase = "restore"
    /\ \E f \in Field :
         /\ f \cap todo # {}
         /\ state' = [c \in Col |-> IF c \in f THEN copy[c] ELSE state[c]]
         /\ todo' = todo \ f
    /\ UNCHANGED <<view, phase, serial, pdu, copy, during, posted, before, stale>>

Restored ==
    /\ phase = "restore" /\ todo = {}
    /\ phase' = "refused" /\ copy' = Blank
    /\ UNCHANGED <<state, view, serial, pdu, todo, during, posted, before, stale>>

-----------------------------------------------------------------------------
\* All varbinds have been applied: rebuild.
Commit ==
    /\ phase = "apply" /\ todo = {}
    /\ phase' = "rebuild" /\ todo' = Col /\ copy' = Blank /\ during' = {}
    /\ UNCHANGED <<state, view, serial, pdu, posted, before, stale>>

Rebuilt ==
    /\ phase = "rebuild" /\ todo = {}
    /\ view' = copy /\ stale' = during
    /\ phase' = "accepted" /\ copy' = Blank
    /\ UNCHANGED <<state, serial, pdu, todo, during, posted, before>>

(***************************************************************************)
(* deepcopy and oid_map go through dictionaries (vlans, pvids) to which    *)
(* other faces add and from which they remove: RuntimeError, caught by     *)
(* nobody here.  Before the first varbind nothing has happened; after the  *)
(* last one everything has, and only the view does not know.               *)
(***************************************************************************)
CopyRaises ==
    /\ phase \in {"snapshot", "rebuild"} /\ during # {}
    /\ phase' = "unanswered" /\ todo' = {} /\ copy' = Blank
    /\ stale' = IF phase = "rebuild" THEN stale \cup pdu ELSE stale
    /\ UNCHANGED <<state, view, serial, pdu, during, posted, before>>

-----------------------------------------------------------------------------
\* A form, an NSDP write or a configuration command changes a column.
Post ==
    /\ \E c \in Col :
         /\ state' = [state EXCEPT ![c] = Foreign]
         /\ during' = during \cup {c}
         /\ posted' = posted \cup {c}
         /\ stale' = stale \cup {c}
    /\ UNCHANGED <<view, phase, serial, pdu, todo, copy, before>>

FaceNext ==
    \/ Arrive \/ CopyColumn \/ Copied \/ ApplyVarbind
    \/ RefuseVarbind \/ RestoreField \/ Restored
    \/ Commit \/ Rebuilt \/ CopyRaises \/ Post

FaceSpec == FaceInit /\ [][FaceNext]_faceVars

-----------------------------------------------------------------------------
FaceTypeOK ==
    /\ state \in [Col -> Values] /\ view \in [Col -> Values]
    /\ copy \in [Col -> Values] /\ before \in [Col -> Values]
    /\ phase \in AtRest \cup Working
    /\ serial \in 0..MaxPdus
    /\ pdu \subseteq Col /\ todo \subseteq Col
    /\ during \subseteq posted /\ posted \subseteq Col /\ stale \subseteq Col

Whole == \A c \in Col \ posted : state[c] = IF c \in pdu THEN serial ELSE before[c]
Undone == \A c \in Col \ posted : state[c] = before[c]

\* What another face writes meanwhile is undone by nothing but a refusal, or
\* the PDU's own column.
PostsSurvive ==
    phase \notin {"restore", "refused"} => \A c \in posted \ pdu : state[c] = Foreign

(***************************************************************************)
(* "The whole PDU is ALL-OR-NOTHING" (write_variables): where no other     *)
(* face has written meanwhile, an accepted PDU has changed its columns and *)
(* no others, a refused one has changed nothing, however the copying and   *)
(* the putting back were torn, and one that is never answered did one or   *)
(* the other.  And a PDU that is not refused costs no other face a write.  *)
(***************************************************************************)
WholeOrNothing ==
    /\ phase = "accepted" => Whole
    /\ phase = "refused" => Undone
    /\ phase = "unanswered" => Whole \/ Undone
    /\ PostsSurvive

\* Between PDUs the view is the state, but for what other faces have written
\* or a rebuild that raised has missed: after a refused PDU too, although
\* restore_state does not compute it anew ("the state (and thus the view) is
\* back to exactly what it was before that SET began").
ViewIsCurrent ==
    phase \in AtRest => \A c \in Col \ stale : view[c] = state[c]

(***************************************************************************)
(* A GET between any two steps, hence any SNMP client at any time, sees    *)
(* nothing of a PDU that has not been accepted, and all of one that has    *)
(* (apply_write_uncommitted "mutates but does NOT rebuild the view"); and  *)
(* when no PDU is under way it sees the state.                             *)
(***************************************************************************)
ClientsSeeWhole ==
    /\ phase = "accepted" => \A c \in pdu \ posted : view[c] = serial
    /\ phase \notin {"ready", "accepted"} => \A c \in Col : view[c] # serial
    /\ ViewIsCurrent
=============================================================================
