----------------------------- MODULE OscServer -----------------------------
(***************************************************************************)
(* The OSC server inside Live (osc_server.py, and the tick of manager.py)  *)
(* and the clients that send to it.  Datagrams collect in the socket; ten  *)
(* times a second process() takes them one after the other until none is   *)
(* left, or until one makes it raise: the rest then waits for the next     *)
(* tick.  What a handler does is left open, except that it may raise.      *)
(***************************************************************************)
EXTENDS OscCodec, FiniteSets

CONSTANTS
    Host,         \* where requests come from
    BridgeHost,   \* the host of the bridge, to which reports first go
    Handlers,     \* the addresses with a callback, in the order of registration
    Requests,     \* what clients send (see Message and Bundle)
    Poll,         \* what the bridge sends again and again
    Noise,        \* datagrams that are no OSC
    MaxSent,      \* bound: other datagrams sent
    MaxWaiting    \* the datagrams the socket holds; more are lost

VARIABLES
    socket,       \* the datagrams received and not read: their sender and bytes,
                  \* and the calls the sender meant by them
    running,      \* process() is in its loop
    remote,       \* _remote_addr
    done,         \* the calls the last datagram led to
    raised,       \* one of its callbacks raised
    sent

vars == <<socket, running, remote, done, raised, sent>>

\* A request, as its datagram (if it can be built) and the messages meant.
Message(address, params) ==
    [dgram |-> BuildMessage(address, params), meant |-> <<[address |-> address, params |-> params]>>]
\* One of another sender, which packs its parameters itself.
Packed(address, tags, bytes, params) ==
    [dgram |-> Ok(WriteString(address) \o WriteString(tags) \o bytes),
     meant |-> <<[address |-> address, params |-> params]>>]
Bundle(timeTag, requests) ==
    [dgram |-> BuildBundle(timeTag, [n \in DOMAIN requests |-> requests[n].dgram.v]),
     meant |-> FlattenSeq([n \in DOMAIN requests |-> requests[n].meant])]

-----------------------------------------------------------------------------
(* Dispatch *)

Star == 42

\* Whether re.match finds the pattern, each * standing for one or more characters other
\* than a slash, at the start of an address.
RECURSIVE MatchesFrom(_, _, _, _)
MatchesFrom(pattern, p, address, a) ==
    \/ p > Len(pattern)
    \/ /\ p <= Len(pattern) /\ pattern[p] = Star
       /\ \E next \in a + 1..Len(address) + 1 :
            /\ \A n \in a..next - 1 : address[n] # Slash
            /\ MatchesFrom(pattern, p + 1, address, next)
    \/ /\ p <= Len(pattern) /\ pattern[p] # Star /\ a <= Len(address)
       /\ pattern[p] = address[a] /\ MatchesFrom(pattern, p + 1, address, a + 1)

IsHandled(address) == \E n \in DOMAIN Handlers : Handlers[n] = address
Wildcard(address) == \E n \in DOMAIN address : address[n] = Star

\* The callbacks process_message calls.
Targets(address) ==
    IF IsHandled(address) THEN <<address>>
    ELSE SelectSeq(Handlers, LAMBDA h : Wildcard(address) /\ MatchesFrom(address, 1, h, 1))

CallsOf(message) ==
    LET targets == Targets(message.address)
    IN  [n \in DOMAIN targets |-> [address |-> targets[n], params |-> message.params]]
Calls(messages) == FlattenSeq([n \in DOMAIN messages |-> CallsOf(messages[n])])

\* As tables: what each datagram is read as, and the calls each request means.
Datagrams == {r.dgram.v : r \in {q \in Requests \cup {Poll} : IsOk(q.dgram)}} \cup Noise
ParsedAs == [d \in Datagrams |-> Parse(d)]
CallsRead == [d \in Datagrams |-> IF IsOk(ParsedAs[d]) THEN Calls(ParsedAs[d].v) ELSE <<>>]
CallsMeant == [r \in Requests \cup {Poll} |-> Calls(r.meant)]

-----------------------------------------------------------------------------
Init ==
    /\ socket = <<>> /\ running = FALSE /\ remote = BridgeHost
    /\ done = <<>> /\ raised = FALSE /\ sent = 0

\* A datagram that finds the socket full is lost.
Arrives(host, dgram, meant) ==
    socket' = IF Len(socket) < MaxWaiting
              THEN Append(socket, [from |-> host, dgram |-> dgram, meant |-> meant])
              ELSE socket

\* SimpleUDPClient.send_message: what cannot be built is not sent.
Send(host, request) ==
    /\ sent < MaxSent /\ sent' = sent + 1
    /\ IsOk(request.dgram)
    /\ Arrives(host, request.dgram.v, CallsMeant[request])
    /\ UNCHANGED <<running, remote, done, raised>>

SendNoise(host, dgram) ==
    /\ sent < MaxSent /\ sent' = sent + 1
    /\ Arrives(host, dgram, <<>>)
    /\ UNCHANGED <<running, remote, done, raised>>

\* The bridge polls when its last poll has been read.
BridgePolls ==
    /\ \A n \in DOMAIN socket : socket[n].from # BridgeHost
    /\ Arrives(BridgeHost, Poll.dgram.v, CallsMeant[Poll])
    /\ UNCHANGED <<running, remote, done, raised, sent>>

\* Manager.tick.
Tick ==
    /\ ~running /\ running' = TRUE
    /\ UNCHANGED <<socket, remote, done, raised, sent>>

\* The errors parse_bundle catches; others end the loop.
Caught(error) == error = "ParseError"

\* Variant: a datagram is looked at, and taken from the socket once it is understood.
ProcessOne_Peeks ==
    /\ running /\ socket # <<>>
    /\ socket' = IF IsOk(ParsedAs[Head(socket).dgram]) THEN Tail(socket) ELSE socket
    /\ remote' = Head(socket).from
    /\ LET parsed == ParsedAs[Head(socket).dgram]
           calls == CallsRead[Head(socket).dgram]
       IN  \E n \in 0..Len(calls) :
             /\ done' = SubSeq(calls, 1, n)
             /\ raised' = (n < Len(calls))
             /\ running' = (~raised' /\ (IsOk(parsed) \/ Caught(parsed.error)))
    /\ UNCHANGED sent

\* Variant: the default reply address is set by the first other client, and stays.
ProcessOne_FirstClient ==
    /\ running /\ socket # <<>>
    /\ socket' = Tail(socket)
    /\ remote' = IF remote = BridgeHost THEN Head(socket).from ELSE remote
    /\ LET parsed == ParsedAs[Head(socket).dgram]
           calls == CallsRead[Head(socket).dgram]
       IN  \E n \in 0..Len(calls) :
             /\ done' = SubSeq(calls, 1, n)
             /\ raised' = (n < Len(calls))
             /\ running' = (~raised' /\ (IsOk(parsed) \/ Caught(parsed.error)))
    /\ UNCHANGED sent

\* One datagram of process()'s loop: its calls, up to the first that raises.
ProcessOne ==
    /\ running /\ socket # <<>>
    /\ socket' = Tail(socket)
    /\ remote' = Head(socket).from
    /\ LET parsed == ParsedAs[Head(socket).dgram]
           calls == CallsRead[Head(socket).dgram]
       IN  \E n \in 0..Len(calls) :
             /\ done' = SubSeq(calls, 1, n)
             /\ raised' = (n < Len(calls))
             /\ running' = (~raised' /\ (IsOk(parsed) \/ Caught(parsed.error)))
    /\ UNCHANGED sent

\* Nothing is left: EWOULDBLOCK.
Drained ==
    /\ running /\ socket = <<>> /\ running' = FALSE
    /\ UNCHANGED <<socket, remote, done, raised, sent>>

Next ==
    \/ \E host \in Host, request \in Requests : Send(host, request)
    \/ \E host \in Host, dgram \in Noise : SendNoise(host, dgram)
    \/ BridgePolls
    \/ Tick \/ ProcessOne \/ Drained

Spec == Init /\ [][Next]_vars

\* Live's timer ticks on, process() does not stop halfway, and the bridge polls.
Fairness == WF_vars(Tick) /\ WF_vars(ProcessOne \/ Drained) /\ WF_vars(BridgePolls)

FairSpec == Spec /\ Fairness

-----------------------------------------------------------------------------
(* Properties *)

\* Requests reach the handlers as they were meant: whatever their parameters, alone or
\* in bundles, between noise and failures, each one once and in its turn, with the
\* parameters the client gave (process, parse_bundle, python-osc).
AsMeant == INSTANCE Inbox WITH
    Request <- {CallsMeant[r] : r \in Requests \cup {Poll}} \cup {<<>>},
    waiting <- [n \in DOMAIN socket |-> socket[n].meant],
    failed <- raised
InboxSpec == AsMeant!Spec

\* A datagram that cannot be understood, or a callback that raises, does not stop the
\* ones behind it for good (process, tick): every datagram is read.
AllRead == []<>(\A n \in DOMAIN socket : socket[n].from = BridgeHost)

\* Reports of Live's listeners go to whichever host sent last; once other clients are
\* silent they go to the bridge again (process).
ReportsReturn == <>[](remote = BridgeHost)
=============================================================================
