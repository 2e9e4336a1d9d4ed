------------------------------- MODULE Inbox -------------------------------
(***************************************************************************)
(* What the clients of AbletonOSC may rely on: the requests that arrive    *)
(* are taken up one by one in the order they came, none twice and none     *)
(* left out, and the calls a request asks for are carried out in order,    *)
(* all of them unless one fails.                                           *)
(***************************************************************************)
EXTENDS Naturals, Sequences

CONSTANT Request   \* each a sequence of calls

VARIABLES
    waiting,   \* the requests not taken up yet
    done,      \* the calls carried out of the last one taken up
    failed     \* a call of it failed

Init == waiting = <<>> /\ done = <<>> /\ failed = FALSE

Arrive(r) == waiting' = Append(waiting, r) /\ UNCHANGED <<done, failed>>

TakeUp ==
    /\ waiting # <<>>
    /\ waiting' = Tail(waiting)
    /\ \E n \in 0..Len(Head(waiting)) :
        /\ done' = SubSeq(Head(waiting), 1, n)
        /\ n < Len(Head(waiting)) => failed'
    /\ failed' \in BOOLEAN

Spec == Init /\ [][TakeUp \/ \E r \in Request : Arrive(r)]_<<waiting, done, failed>>
=============================================================================
