--------------------------- MODULE Announcements ---------------------------
(***************************************************************************)
(* Who is told what.  ConnectionManager says who has control; this module  *)
(* adds what its methods send after they have changed that state, and what *)
(* each device therefore believes: announce, broadcast, broadcast_full_    *)
(* state and the sends of the websocket endpoint in bridge/server.py.      *)
(*                                                                         *)
(* A coroutine runs alone on the event loop until it ends or until a send  *)
(* has to wait because that socket's write buffer is full (a stalled       *)
(* socket) or because it awaits the socket's closing handshake; the        *)
(* coroutines waiting for a socket go on in the order they came.  Whatever *)
(* a coroutine read before the wait may be out of date after it.           *)
(***************************************************************************)
EXTENDS ConnectionManager, Sequences

CONSTANTS
    MaxEvents,   \* bound: how often something happens outside the event loop
    MaxStalled   \* bound: how many sockets are stalled at once

VARIABLES
    ready,     \* coroutines that can go on, in the order they will
    parked,    \* per socket, the coroutines waiting for it
    stalled,   \* sockets whose write buffer is full, or waiting to be closed
    dead,      \* sockets on which sends fail, before their handler has left
    view,      \* what the last messages sent to each socket say
    songs,     \* version of the song list
    events     \* things that have happened so far

loopVars == <<ready, parked>>
deviceVars == <<stalled, dead, view, songs>>
allVars == <<vars, loopVars, deviceVars, events>>

-----------------------------------------------------------------------------
(* State *)

Roster == [members |-> connected, primary |-> primary]
RoleOf(w) == IF primary = w THEN "primary" ELSE "observer"

NoView == [role |-> "none", prompt |-> NoRequest, songs |-> 0,
           roster |-> [members |-> {}, primary |-> NoSocket]]

\* A coroutine is what is left for it to do.  Its owner is the socket whose
\* handler it is, or NoSocket for a task of its own.
Op(kind, w, text) == [kind |-> kind, to |-> w, text |-> text]
Do(kind, w) == Op(kind, w, NoRequest)
Task(w, ops) == [owner |-> w, ops |-> ops]
Leaving(w) == Task(w, <<Do("leave", w)>>)

SendKinds == {"hello", "role", "songs", "prompt", "roster", "note", "close"}
InFlight == {ready[i] : i \in DOMAIN ready}
              \cup UNION {{parked[w][i] : i \in DOMAIN parked[w]} : w \in Socket}
Quiet == InFlight = {}

\* A handler takes its next message once it is done with the last.
HandlerFree(w) == w \notin dead /\ \A c \in InFlight : c.owner # w

LoopInit ==
    /\ Init
    /\ ready = <<>>
    /\ parked = [w \in Socket |-> <<>>]
    /\ stalled = {}
    /\ dead = {}
    /\ view = [w \in Socket |-> NoView]
    /\ songs = 0
    /\ events = 0

-----------------------------------------------------------------------------
(* What the methods send *)

\* The sockets of _clients in the order they connected, those of P first.
InOrder(S) ==
    CHOOSE f \in [1..Cardinality(S) -> S] :
        \A i, j \in DOMAIN f : i < j => <<f[i], f[j]>> \in older

PrimaryFirst(S) == InOrder(S \cap {primary}) \o InOrder(S \ {primary})

ToEach(ws, kind, text) == [i \in DOMAIN ws |-> Op(kind, ws[i], text)]

\* Variants of Announce: one change is enough; no change, no message.
Announce_FirstOnly(changed) ==
    ToEach(SelectSeq(changed, LAMBDA w : w = Head(changed)), "role", NoRequest)
        \o <<Do("broadcast_handoff", NoSocket), Do("broadcast_roster", NoSocket)>>

Announce_IfChanged(changed) ==
    IF changed = <<>> THEN <<>>
    ELSE ToEach(changed, "role", NoRequest)
           \o <<Do("broadcast_handoff", NoSocket), Do("broadcast_roster", NoSocket)>>

\* announce: the role changes, then the handoff state and the roster.
Announce(changed) ==
    ToEach(changed, "role", NoRequest)
        \o <<Do("broadcast_handoff", NoSocket), Do("broadcast_roster", NoSocket)>>

\* The broadcasts fix their targets as they start.  The handoff and roster texts
\* are composed then too; full_state composes each one as it is sent.
Expansion(op) ==
    CASE op.kind = "broadcast_handoff" ->
            ToEach(InOrder({w \in connected : SupportsHandoff(w)}), "prompt", request)
      [] op.kind = "broadcast_roster" ->
            ToEach(PrimaryFirst(connected), "roster", Roster)
      [] op.kind = "broadcast_full_state" ->
            ToEach(PrimaryFirst(connected), "songs", NoRequest)

\* What socket w's device believes after a message of op, sent now.
ViewAfter(op) ==
    LET w == op.to IN
    CASE op.kind \in {"hello", "role", "songs"} ->
            [view[w] EXCEPT !.role = RoleOf(w), !.songs = songs]
      [] op.kind = "prompt" -> [view[w] EXCEPT !.prompt = op.text]
      [] op.kind = "roster" -> [view[w] EXCEPT !.roster = op.text]
      [] OTHER -> view[w]

-----------------------------------------------------------------------------
(* The event loop *)

Current == Head(ready)
NextOp == Head(Current.ops)
Rest == Task(Current.owner, Tail(Current.ops))
GoOnWith(c) == ready' = <<c>> \o Tail(ready) /\ UNCHANGED parked

\* A handler whose connection is lost or closed learns that when its turn comes
\* again, and runs its finally clause.
Finish ==
    /\ ready # <<>> /\ Current.ops = <<>>
    /\ ready' = Tail(ready) \o IF Current.owner \in dead THEN <<Leaving(Current.owner)>> ELSE <<>>
    /\ UNCHANGED <<vars, parked, deviceVars, events>>

Expand ==
    /\ ready # <<>> /\ Current.ops # <<>>
    /\ NextOp.kind \in {"broadcast_handoff", "broadcast_roster", "broadcast_full_state"}
    /\ GoOnWith(Task(Current.owner, Expansion(NextOp) \o Tail(Current.ops)))
    /\ UNCHANGED <<vars, deviceVars, events>>

\* A snapshot for a socket that has left raises KeyError: announce looks first,
\* broadcast_full_state does not, and the rest of its sends are lost.
Abandon ==
    /\ ready # <<>> /\ Current.ops # <<>>
    /\ NextOp.kind \in {"role", "songs"} /\ NextOp.to \notin connected
    /\ GoOnWith(IF NextOp.kind = "songs" THEN Task(Current.owner, <<>>) ELSE Rest)
    /\ UNCHANGED <<vars, deviceVars, events>>

\* A failed send is ignored, except the endpoint's own first snapshot, whose
\* failure ends the handler.
SendFails ==
    /\ ready # <<>> /\ Current.ops # <<>>
    /\ NextOp.kind \in SendKinds
    /\ \/ NextOp.to \in dead
       \/ NextOp.to \notin connected /\ NextOp.kind \notin {"role", "songs"}
    /\ GoOnWith(IF NextOp.kind = "hello" THEN Task(Current.owner, <<>>) ELSE Rest)
    /\ UNCHANGED <<vars, deviceVars, events>>

\* Once close() is called other sends fail; its caller waits for the handshake.
Send ==
    /\ ready # <<>> /\ Current.ops # <<>>
    /\ NextOp.kind \in SendKinds /\ NextOp.to \in connected \ dead
    /\ view' = [view EXCEPT ![NextOp.to] = ViewAfter(NextOp)]
    /\ IF NextOp.kind = "close"
       THEN stalled' = stalled \cup {NextOp.to} /\ dead' = dead \cup {NextOp.to}
       ELSE UNCHANGED <<stalled, dead>>
    /\ IF NextOp.to \in stalled'
       THEN /\ ready' = Tail(ready)
            /\ parked' = [parked EXCEPT ![NextOp.to] = Append(@, Rest)]
       ELSE GoOnWith(Rest)
    /\ UNCHANGED <<vars, songs, events>>

\* The finally clause of a handler: disconnect, then tell who is concerned.
Leave ==
    /\ ready # <<>> /\ Current.ops # <<>> /\ NextOp.kind = "leave"
    /\ LET w == NextOp.to IN
       /\ Disconnect(w)
       /\ dead' = dead \ {w}
       /\ GoOnWith(Task(w, Announce(IF primary = w /\ primary' # NoSocket
                                    THEN <<primary'>> ELSE <<>>)))
    /\ UNCHANGED <<stalled, view, songs, events>>

EventLoop == Finish \/ Expand \/ Abandon \/ SendFails \/ Send \/ Leave

-----------------------------------------------------------------------------
(* What happens outside: devices, Ableton, the network and time *)

Event ==
    /\ ready = <<>>
    /\ events < MaxEvents
    /\ events' = events + 1

Start(w, ops) == ready' = <<Task(w, ops)>> /\ UNCHANGED parked

Connects(w, h) ==
    /\ Event
    /\ Connect(w, h)
    /\ \A c \in InFlight : c.owner # w
    /\ LET superseded == IF Supersedes(DeclaredClient(h).client_id) THEN <<primary>> ELSE <<>>
       IN  Start(w, <<Do("hello", w)>> \o Announce(superseded))
    /\ view' = [view EXCEPT ![w] = NoView]
    /\ UNCHANGED <<stalled, dead, songs>>

\* Ids are fresh: nobody has seen this one.
Requests(w, id) ==
    /\ Event /\ HandlerFree(w)
    /\ \A v \in Socket : view[v].prompt.id # id
    /\ RequestControl(w, id)
    /\ Start(w, IF SlotFree THEN Announce(<<w>>) ELSE <<Do("broadcast_handoff", NoSocket)>>)
    /\ UNCHANGED deviceVars

Cancels(w) ==
    /\ Event /\ HandlerFree(w)
    /\ CancelRequest(w)
    /\ Start(w, <<Do("note", w), Do("broadcast_handoff", NoSocket)>>)
    /\ UNCHANGED deviceVars

\* The primary answers the prompt it was last sent.
Responds(w, accept) ==
    /\ Event /\ HandlerFree(w)
    /\ Respond(w, view[w].prompt.id, accept)
    /\ Start(w, IF accept
                THEN Announce(<<request.requester>>
                                \o IF request.requester = w THEN <<>> ELSE <<w>>)
                ELSE <<Do("note", request.requester), Do("broadcast_handoff", NoSocket)>>)
    /\ UNCHANGED deviceVars

\* An answer to an older prompt: the primary is sent the current one.
AnswersTooLate(w) ==
    /\ Event /\ HandlerFree(w)
    /\ w \in Listening /\ primary = w /\ SupportsHandoff(w)
    /\ Start(w, <<Op("prompt", w, request)>>)
    /\ UNCHANGED <<vars, deviceVars>>

Grants(w, target) ==
    /\ Event /\ HandlerFree(w)
    /\ Grant(w, target)
    /\ Start(w, (IF Pending /\ request.requester # target
                 THEN <<Do("note", request.requester)>> ELSE <<>>)
                \o Announce(<<target, w>>))
    /\ UNCHANGED deviceVars

Releases(w) ==
    /\ Event /\ HandlerFree(w)
    /\ Release(w)
    /\ Start(w, <<Do("note", w), Do("close", w)>>
                \o Announce(IF Pending THEN <<request.requester>> ELSE <<>>))
    /\ UNCHANGED deviceVars

Registers(w) ==
    /\ Event /\ HandlerFree(w) /\ w \in Listening
    /\ Start(w, <<Do("broadcast_roster", NoSocket)>>)
    /\ UNCHANGED <<vars, deviceVars>>

Refreshes(w) ==
    /\ Event /\ HandlerFree(w) /\ w \in Listening
    /\ Start(w, <<Do("hello", w)>>)
    /\ UNCHANGED <<vars, deviceVars>>

SongsChange ==
    /\ Event
    /\ songs' = songs + 1
    /\ Start(NoSocket, <<Do("broadcast_full_state", NoSocket)>>)
    /\ UNCHANGED <<vars, stalled, dead, view>>

HoldEnds ==
    /\ Event
    /\ \E t \in holdTimers : ReservationExpiry(t)
    /\ IF Pending THEN Start(NoSocket, Announce(<<request.requester>>)) ELSE UNCHANGED loopVars
    /\ UNCHANGED deviceVars

RequestEnds ==
    /\ Event
    /\ \E t \in requestTimers : RequestExpiry(t)
    /\ Start(NoSocket, <<Do("note", request.requester), Do("broadcast_handoff", NoSocket)>>)
    /\ UNCHANGED deviceVars

TimePasses ==
    /\ ready = <<>> /\ Tick
    /\ UNCHANGED <<loopVars, deviceVars, events>>

Stalls(w) ==
    /\ Event
    /\ w \in connected \ (stalled \cup dead)
    /\ Cardinality(stalled \ dead) < MaxStalled
    /\ stalled' = stalled \cup {w}
    /\ UNCHANGED <<vars, loopVars, dead, view, songs>>

Drains(w) ==
    /\ ready = <<>> /\ w \in stalled
    /\ stalled' = stalled \ {w}
    /\ ready' = parked[w]
    /\ parked' = [parked EXCEPT ![w] = <<>>]
    /\ UNCHANGED <<vars, dead, view, songs, events>>

\* A lost connection ends the waits for it, and then its handler if that was
\* waiting for a message (a handler that was not finds out in Finish).
Drops(w) ==
    /\ Event
    /\ w \in connected \ dead
    /\ dead' = dead \cup {w}
    /\ stalled' = stalled \ {w}
    /\ ready' = parked[w] \o IF HandlerFree(w) THEN <<Leaving(w)>> ELSE <<>>
    /\ parked' = [parked EXCEPT ![w] = <<>>]
    /\ UNCHANGED <<vars, view, songs>>

World ==
    \/ \E w \in Socket, h \in Hello : Connects(w, h)
    \/ \E w \in Socket, id \in RequestId : Requests(w, id)
    \/ \E w \in Socket : Cancels(w)
    \/ \E w \in Socket, accept \in BOOLEAN : Responds(w, accept)
    \/ \E w \in Socket : AnswersTooLate(w)
    \/ \E w, target \in Socket : Grants(w, target)
    \/ \E w \in Socket : Releases(w)
    \/ \E w \in Socket : Registers(w)
    \/ \E w \in Socket : Refreshes(w)
    \/ SongsChange
    \/ HoldEnds
    \/ RequestEnds
    \/ TimePasses
    \/ \E w \in Socket : Stalls(w)
    \/ \E w \in Socket : Drains(w)
    \/ \E w \in Socket : Drops(w)

LoopNext == EventLoop \/ World

LoopSpec == LoopInit /\ [][LoopNext]_allVars

-----------------------------------------------------------------------------
(* What the devices believe once nothing is left to send *)

\* Devices that are neither gone nor on their way out.
Attached == Listening \ dead

\* Every device knows its own role: a snapshot looks the role up as it is sent
\* (_snapshot_for), so no interleaving of sends leaves an old one behind.
RolesTold == Quiet => \A w \in Attached : view[w].role = RoleOf(w)

\* Every handoff-capable device shows the request that is pending, or none
\* (broadcast_handoff), even when sends wait for a stalled device meanwhile.
PromptsTold ==
    Quiet => \A w \in Attached : SupportsHandoff(w) => view[w].prompt = request

\* Every device's "who's connected" list is the current one: a roster goes out
\* whenever a device connects, disconnects, registers a name or changes role.
RosterTold == Quiet => \A w \in Attached : view[w].roster = Roster

\* Every device has the current songs: a state goes out on every marker change.
SongsTold == Quiet => \A w \in Attached : view[w].songs = songs
=============================================================================
