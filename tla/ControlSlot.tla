---------------------------- MODULE ControlSlot ----------------------------
(***************************************************************************)
(* What the connection manager promises, seen from outside: who has        *)
(* control.  A party is an install, however many sockets it has open, or a *)
(* device that does not say which install it is.  Sockets, timers and      *)
(* request ids are hidden; ConnectionManager implements this               *)
(* specification (ConnectionManager!Slot).                                 *)
(***************************************************************************)
CONSTANTS
    Installed,   \* parties that identify themselves
    Guest,       \* parties that do not
    Nobody

Party == Installed \cup Guest

VARIABLES
    present,     \* the parties with an open socket
    holder,      \* the party in control
    reserved,    \* the absent install control is kept for
    waiting      \* the party whose request for control is pending

slotVars == <<present, holder, reserved, waiting>>

Free == holder = Nobody /\ reserved = Nobody

Init ==
    /\ present = {}
    /\ holder = Nobody
    /\ reserved = Nobody
    /\ waiting = Nobody

\* An install that control is kept for has it back on arrival; control nobody
\* has may go to whoever arrives.
Arrive(p) ==
    /\ p \notin present
    /\ present' = present \cup {p}
    /\ IF reserved = p
       THEN holder' = p /\ reserved' = Nobody
       ELSE holder' \in {holder} \cup {q \in {p} : Free} /\ UNCHANGED reserved
    /\ UNCHANGED waiting

\* The party in control leaves nobody else in charge: control is kept for it if
\* it can be recognised, and is free otherwise.
Leave(p) ==
    /\ p \in present
    /\ present' = present \ {p}
    /\ IF holder = p
       THEN holder' = Nobody /\ reserved' = IF p \in Installed THEN p ELSE Nobody
       ELSE UNCHANGED <<holder, reserved>>
    /\ waiting' = IF waiting = p THEN Nobody ELSE waiting

Take(p) ==
    /\ p \in present /\ Free
    /\ holder' = p
    /\ UNCHANGED <<present, reserved, waiting>>

Ask(p) ==
    /\ p \in present /\ ~Free /\ waiting = Nobody
    /\ waiting' = p
    /\ UNCHANGED <<present, holder, reserved>>

\* Refused, withdrawn or expired.
Dismiss ==
    /\ waiting # Nobody
    /\ waiting' = Nobody
    /\ UNCHANGED <<present, holder, reserved>>

\* The party in control, still there, hands it to another or lays it down.
Pass(p, q) ==
    /\ holder = p /\ p \in present
    /\ q \in present \cup {Nobody}
    /\ holder' = q
    /\ waiting' = Nobody
    /\ UNCHANGED <<present, reserved>>

\* The install never came back: control goes to the party waiting for it.
Lapse ==
    /\ reserved # Nobody
    /\ holder' = waiting
    /\ reserved' = Nobody
    /\ waiting' = Nobody
    /\ UNCHANGED present

Next ==
    \/ \E p \in Party : Arrive(p) \/ Leave(p) \/ Take(p) \/ Ask(p)
    \/ \E p \in Party, q \in Party \cup {Nobody} : Pass(p, q)
    \/ Dismiss
    \/ Lapse

Spec == Init /\ [][Next]_slotVars
=============================================================================
