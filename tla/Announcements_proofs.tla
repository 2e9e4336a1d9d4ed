------------------------ MODULE Announcements_proofs ------------------------
(***************************************************************************)
(* Proofs about Announcements for any devices, any number of events and    *)
(* any number of stalled sockets: the coroutines that send are an addition *)
(* to the connection manager, and they leave no device with an old role.   *)
(*                                                                         *)
(* The argument: a device whose last message does not say its role has a   *)
(* coroutine ahead that will (RoleInv).  Every event that moves control    *)
(* starts one for both devices concerned; a send looks the role up when it *)
(* is made; and only coroutines that tell no roles are ever cut short      *)
(* (LoopType: RoleOp, SongOp, Greets).                                     *)
(***************************************************************************)
EXTENDS Announcements, ConnectionManager_proofs, FiniteSetTheorems

-----------------------------------------------------------------------------
(* The order of connection *)

\* The dictionary _clients is finite, and of two sockets in it one came first.
OrderInv ==
    /\ IsFiniteSet(connected)
    /\ older \subseteq connected \X connected
    /\ \A a, b \in connected : a # b => <<a, b>> \in older \/ <<b, a>> \in older
    /\ \A a, b \in connected : <<a, b>> \in older => <<b, a>> \notin older
    /\ \A a, b, c \in connected : <<a, b>> \in older /\ <<b, c>> \in older => <<a, c>> \in older

\* Sockets can be put in the order in which they connected: each one's place is the
\* number of those before it.
LEMMA InOrderType ==
    ASSUME OrderInv, NEW S \in SUBSET connected
    PROVE  /\ Cardinality(S) \in Nat /\ InOrder(S) \in [1..Cardinality(S) -> S]
           /\ \A i, j \in 1..Cardinality(S) : i < j => <<InOrder(S)[i], InOrder(S)[j]>> \in older
<1> DEFINE n == Cardinality(S)
           Before(w) == {v \in S : <<v, w>> \in older}
           place == [w \in S |-> Cardinality(Before(w)) + 1]
           f == [i \in 1..n |-> CHOOSE w \in S : place[w] = i]
<1>1. IsFiniteSet(S) /\ n \in Nat
  BY FS_Subset, FS_CardinalityType DEF OrderInv
<1>2. ASSUME NEW w \in S
      PROVE  /\ IsFiniteSet(Before(w)) /\ Cardinality(Before(w)) \in Nat
             /\ Cardinality(Before(w)) <= n - 1
  <2>1. Before(w) \in SUBSET (S \ {w})
    BY <1>2 DEF OrderInv
  <2>2. IsFiniteSet(S \ {w}) /\ Cardinality(S \ {w}) = n - 1
    BY <1>1, <1>2, FS_RemoveElement
  <2> HIDE DEF n, Before
  <2>3. IsFiniteSet(Before(w)) /\ Cardinality(Before(w)) <= Cardinality(S \ {w})
    BY <2>1, <2>2, FS_Subset
  <2>4. Cardinality(Before(w)) \in Nat
    BY <2>3, FS_CardinalityType
  <2> QED BY <2>2, <2>3, <2>4
<1>3. place \in [S -> 1..n]
  <2> SUFFICES ASSUME NEW w \in S PROVE Cardinality(Before(w)) + 1 \in 1..n
    OBVIOUS
  <2> HIDE DEF n, Before
  <2> QED BY <1>1, <1>2
<1>4. ASSUME NEW v \in S, NEW w \in S, <<v, w>> \in older PROVE place[v] < place[w]
  <2>1. Before(v) \cup {v} \in SUBSET Before(w)
    BY <1>4 DEF OrderInv
  <2>2. v \notin Before(v)
    BY <1>4 DEF OrderInv
  <2>3. Cardinality(Before(v) \cup {v}) = Cardinality(Before(v)) + 1
    BY <1>2, <2>2, FS_AddElement
  <2>4. Cardinality(Before(v) \cup {v}) <= Cardinality(Before(w))
    BY <1>2, <2>1, FS_Subset
  <2>5. place[v] = Cardinality(Before(v)) + 1 /\ place[w] = Cardinality(Before(w)) + 1
    OBVIOUS
  <2>6. Cardinality(Before(v)) \in Nat /\ Cardinality(Before(w)) \in Nat
    BY <1>2
  <2> HIDE DEF place, Before
  <2> QED BY <2>3, <2>4, <2>5, <2>6
<1> HIDE DEF place, n
<1>5. ASSUME NEW v \in S, NEW w \in S, place[v] = place[w] PROVE v = w
  <2>1. place[v] \in Int /\ place[w] \in Int
    BY <1>1, <1>3
  <2>2. ~(place[v] < place[w]) /\ ~(place[w] < place[v])
    BY <1>5, <2>1
  <2>3. <<v, w>> \notin older /\ <<w, v>> \notin older
    BY <1>4, <2>2
  <2> QED BY <2>3 DEF OrderInv
<1>6. ASSUME NEW i \in 1..n PROVE \E w \in S : place[w] = i
  <2>1. place \in Injection(S, 1..n)
    BY <1>3, <1>5 DEF Injection, IsInjective
  <2>2. IsFiniteSet(1..n) /\ Cardinality(1..n) = n
    BY <1>1, FS_Interval
  <2>3. place \in Surjection(S, 1..n)
    BY <2>1, <2>2, FS_Injection DEF n
  <2> QED BY <1>6, <2>3 DEF Surjection
<1>7. \A i \in 1..n : f[i] \in S /\ place[f[i]] = i
  BY <1>6
<1>8. ASSUME NEW i \in 1..n, NEW j \in 1..n, i < j PROVE <<f[i], f[j]>> \in older
  <2>1. f[i] \in S /\ f[j] \in S /\ place[f[i]] = i /\ place[f[j]] = j
    BY <1>7
  <2>2. f[i] # f[j] /\ ~(place[f[j]] < place[f[i]])
    BY <1>1, <1>8, <2>1
  <2>3. <<f[j], f[i]>> \notin older
    BY <1>4, <2>1, <2>2
  <2> QED BY <2>1, <2>2, <2>3 DEF OrderInv
<1>9. f \in [1..n -> S]
  BY <1>7
<1>10. \E g \in [1..n -> S] : \A i, j \in DOMAIN g : i < j => <<g[i], g[j]>> \in older
  <2>1. DOMAIN f = 1..n
    BY <1>9
  <2> HIDE DEF f
  <2> QED BY <1>8, <1>9, <2>1
<1>11. /\ InOrder(S) \in [1..n -> S]
       /\ \A i, j \in DOMAIN InOrder(S) : i < j => <<InOrder(S)[i], InOrder(S)[j]>> \in older
  BY <1>10, Zenon DEF InOrder, n
<1>12. DOMAIN InOrder(S) = 1..n
  BY <1>11
<1> QED BY <1>1, <1>11, <1>12, Zenon DEF n

\* Each of them is there.
LEMMA InOrderLists ==
    ASSUME OrderInv, NEW S \in SUBSET connected, NEW w \in S
    PROVE  \E i \in 1..Cardinality(S) : InOrder(S)[i] = w
<1> DEFINE n == Cardinality(S)
           f == InOrder(S)
<1>1. IsFiniteSet(S) /\ n \in Nat
  BY FS_Subset, FS_CardinalityType DEF OrderInv
<1>2. f \in [1..n -> S] /\ \A i, j \in 1..n : i < j => <<f[i], f[j]>> \in older
  BY InOrderType
<1> HIDE DEF n, f
<1>3. ASSUME NEW i \in 1..n, NEW j \in 1..n, f[i] = f[j] PROVE i = j
  <2>1. f[i] \in connected /\ <<f[i], f[i]>> \notin older
    BY <1>2 DEF OrderInv
  <2>2. ~(i < j) /\ ~(j < i)
    BY <1>2, <1>3, <2>1, Zenon
  <2> QED BY <1>1, <2>2
<1>4. f \in Injection(1..n, S)
  BY <1>2, <1>3 DEF Injection, IsInjective
<1>5. IsFiniteSet(1..n) /\ Cardinality(1..n) = n
  BY <1>1, FS_Interval
<1>6. f \in Surjection(1..n, S)
  BY <1>1, <1>4, <1>5, FS_Injection DEF n
<1> QED BY <1>6 DEF Surjection, n, f

\* Each step of the manager keeps the order: a socket joins at the end (connect), and
\* one that leaves leaves no trace (disconnect).
LEMMA OrderStep == TypeOK /\ OrderInv /\ [Next]_vars => OrderInv'
<1> SUFFICES ASSUME TypeOK, OrderInv, [Next]_vars PROVE OrderInv'
  OBVIOUS
<1>1. ASSUME NEW w \in Socket, NEW h \in Hello, Connect(w, h) PROVE OrderInv'
  <2>1. /\ w \notin connected /\ connected' = connected \cup {w}
        /\ older' = older \cup (connected \X {w})
    BY <1>1 DEF Connect, Register
  <2>2. IsFiniteSet(connected')
    BY <2>1, FS_AddElement DEF OrderInv
  <2> QED BY <2>1, <2>2 DEF OrderInv
<1>2. ASSUME NEW w \in Socket, Disconnect(w) PROVE OrderInv'
  <2>1. /\ connected' = connected \ {w}
        /\ older' = older \cap (connected' \X connected')
    BY <1>2 DEF Disconnect, Unregister
  <2>2. IsFiniteSet(connected')
    BY <2>1, FS_RemoveElement DEF OrderInv
  <2> QED BY <2>1, <2>2 DEF OrderInv
<1>3. ASSUME UNCHANGED <<connected, older>> PROVE OrderInv'
  BY <1>3 DEF OrderInv
<1>4. ASSUME \/ \E w \in Socket, id \in RequestId : RequestControl(w, id)
             \/ \E w \in Socket : CancelRequest(w)
             \/ \E w \in Socket, id \in RequestId, accept \in BOOLEAN : Respond(w, id, accept)
             \/ \E w, target \in Socket : Grant(w, target)
             \/ \E w \in Socket : Release(w)
             \/ Tick
             \/ \E t \in HoldTimer : ReservationExpiry(t)
             \/ \E t \in RequestTimer : RequestExpiry(t)
             \/ UNCHANGED vars
      PROVE  UNCHANGED <<connected, older>>
  BY <1>4, Zenon
  DEF vars, socketVars, RequestControl, CancelRequest, Respond, Grant, Release, Tick,
      ReservationExpiry, RequestExpiry
<1> QED BY <1>1, <1>2, <1>3, <1>4, Zenon DEF Next

-----------------------------------------------------------------------------
(* Under the coroutines the manager goes its own way *)

\* What every step of the event loop or the world is to the manager: a step of its
\* own or none.
LEMMA ManagerUnderneath == TypeOK /\ [LoopNext]_allVars => [Next]_vars
<1> SUFFICES ASSUME TypeOK, [LoopNext]_allVars PROVE Next \/ UNCHANGED vars
  OBVIOUS
<1>1. CASE Finish \/ Expand \/ Abandon \/ SendFails \/ Send
  BY <1>1, Zenon DEF Finish, Expand, Abandon, SendFails, Send
<1>2. CASE Leave
  <2>1. Disconnect(NextOp.to) /\ NextOp.to \in Socket
    BY <1>2 DEF Leave, Disconnect, TypeOK
  <2> QED BY <2>1, Zenon DEF Next
<1>3. ASSUME NEW w \in Socket, NEW h \in Hello, Connects(w, h) PROVE Next
  BY <1>3, Zenon DEF Connects, Next
<1>4. ASSUME NEW w \in Socket, NEW id \in RequestId, Requests(w, id) PROVE Next
  BY <1>4, Zenon DEF Requests, Next
<1>5. ASSUME NEW w \in Socket, Cancels(w) PROVE Next
  BY <1>5, Zenon DEF Cancels, Next
<1>6. ASSUME NEW w \in Socket, NEW accept \in BOOLEAN, Responds(w, accept) PROVE Next
  <2>1. Respond(w, view[w].prompt.id, accept)
    BY <1>6 DEF Responds
  <2>2. view[w].prompt.id = request.id /\ request \in Request
    BY <2>1 DEF Respond, TypeOK, Pending
  <2>3. view[w].prompt.id \in RequestId
    BY <2>2 DEF Request
  <2> QED BY <2>1, <2>3, Zenon DEF Next
<1>7. ASSUME NEW w \in Socket, NEW target \in Socket, Grants(w, target) PROVE Next
  BY <1>7, Zenon DEF Grants, Next
<1>8. ASSUME NEW w \in Socket, Releases(w) PROVE Next
  BY <1>8, Zenon DEF Releases, Next
<1>9. CASE HoldEnds
  <2>1. PICK t \in holdTimers : ReservationExpiry(t)
    BY <1>9 DEF HoldEnds
  <2>2. t \in HoldTimer
    BY DEF TypeOK
  <2> QED BY <2>1, <2>2, Zenon DEF Next
<1>10. CASE RequestEnds
  <2>1. PICK t \in requestTimers : RequestExpiry(t)
    BY <1>10 DEF RequestEnds
  <2>2. t \in RequestTimer
    BY DEF TypeOK
  <2> QED BY <2>1, <2>2, Zenon DEF Next
<1>11. CASE TimePasses
  BY <1>11, Zenon DEF TimePasses, Next
<1>12. CASE SongsChange \/ \E w \in Socket : \/ AnswersTooLate(w) \/ Registers(w) \/ Refreshes(w)
                                             \/ Stalls(w) \/ Drains(w) \/ Drops(w)
  BY <1>12, Zenon DEF SongsChange, AnswersTooLate, Registers, Refreshes, Stalls, Drains, Drops
<1>13. CASE UNCHANGED allVars
  BY <1>13, Zenon DEF allVars
<1> QED BY <1>1, <1>2, <1>3, <1>4, <1>5, <1>6, <1>7, <1>8, <1>9, <1>10, <1>11, <1>12, <1>13,
          Zenon DEF LoopNext, EventLoop, World

\* The sends are an addition: every behaviour of Announcements is one of the
\* connection manager (the coroutines read its state and never write it).
THEOREM AddsToManager == LoopSpec => Spec
<1>1. LoopInit => Init
  BY DEF LoopInit
<1>2. Init => TypeOK
  <2>1. NoClient \in Client
    BY DEF NoClient, Client, HANDOFF_PROTOCOL
  <2> QED BY <2>1 DEF Init, TypeOK
<1>3. TypeOK /\ [LoopNext]_allVars => TypeOK'
  BY ManagerUnderneath, TypeStep
<1> QED BY <1>1, <1>2, <1>3, ManagerUnderneath, PTL DEF Spec, LoopSpec

-----------------------------------------------------------------------------
(* What the coroutines are made of *)

Texts == Request \cup {NoRequest} \cup [members : SUBSET Socket, primary : Socket \cup {NoSocket}]
Kinds == SendKinds \cup {"leave", "broadcast_handoff", "broadcast_roster", "broadcast_full_state"}
Ops == [kind : Kinds, to : Socket \cup {NoSocket}, text : Texts]

\* Two kinds of coroutines: those that tell roles, which nothing cuts short, and those
\* that tell songs, which one missing device does (Abandon).
RoleOp == {op \in Ops : op.kind \notin {"hello", "songs", "broadcast_full_state", "leave"}}
SongOp == {op \in Ops : op.kind \notin {"hello", "role"}}
PlainOps == Seq(RoleOp) \cup Seq(SongOp)
View == [role : {"none", "primary", "observer"}, prompt : Texts, songs : Nat, roster : Texts]
PlainTask == [owner : Socket \cup {NoSocket}, ops : PlainOps]

\* A device's first snapshot, and a refreshed one, is sent before anything else happens,
\* to a device that is there.
Greets(c) ==
    \E o \in Socket \cup {NoSocket}, w \in connected \ dead, rest \in PlainOps :
        c = Task(o, <<Do("hello", w)>> \o rest)

LoopType ==
    /\ parked \in [Socket -> Seq(PlainTask)]
    /\ ready \in Seq(PlainTask) \/ \E c : ready = <<c>> /\ Greets(c)
    /\ stalled \subseteq Socket /\ dead \subseteq connected
    /\ view \in [Socket -> View]
    /\ songs \in Nat

\* Lists of operations, one after the other.
LEMMA OpsType ==
    /\ Seq(RoleOp) \subseteq Seq(Ops) /\ Seq(SongOp) \subseteq Seq(Ops)
    /\ PlainOps \subseteq Seq(Ops) /\ <<>> \in PlainOps
<1>1. RoleOp \subseteq Ops /\ SongOp \subseteq Ops
  BY DEF RoleOp, SongOp
<1> QED BY <1>1 DEF PlainOps

\* The rest of a coroutine is of its kind.
LEMMA PlainTail ==
    ASSUME NEW ops \in PlainOps, ops # <<>>
    PROVE  Head(ops) \in Ops /\ Head(ops).kind # "hello" /\ Tail(ops) \in PlainOps
<1>1. CASE ops \in Seq(RoleOp)
  <2>1. Head(ops) \in RoleOp /\ Tail(ops) \in Seq(RoleOp)
    BY <1>1
  <2> QED BY <2>1 DEF RoleOp, PlainOps
<1>2. CASE ops \in Seq(SongOp)
  <2>1. Head(ops) \in SongOp /\ Tail(ops) \in Seq(SongOp)
    BY <1>2
  <2> QED BY <2>1 DEF SongOp, PlainOps
<1> QED BY <1>1, <1>2 DEF PlainOps

\* The texts there are.
LEMMA TextTypes ==
    ASSUME TypeOK
    PROVE  request \in Texts /\ NoRequest \in Texts /\ Roster \in Texts
BY DEF TypeOK, Texts, Roster

\* A single operation.
LEMMA DoType ==
    ASSUME NEW kind \in Kinds, NEW w \in Socket \cup {NoSocket}
    PROVE  /\ Do(kind, w) \in Ops /\ Do(kind, w).kind = kind /\ Do(kind, w).to = w
           /\ kind \notin {"hello", "songs", "broadcast_full_state", "leave"} => Do(kind, w) \in RoleOp
           /\ kind \notin {"hello", "role"} => Do(kind, w) \in SongOp
BY DEF Do, Op, Ops, Texts, RoleOp, SongOp

\* The operations of a broadcast to sockets in their order.
LEMMA ToEachType ==
    ASSUME NEW n \in Nat, NEW ws \in [1..n -> Socket], NEW kind \in Kinds, NEW text \in Texts
    PROVE  /\ ToEach(ws, kind, text) \in [1..n -> {op \in Ops : op.kind = kind}]
           /\ \A i \in 1..n : ToEach(ws, kind, text)[i].to = ws[i]
BY DEF ToEach, Op, Ops

\* A broadcast sends texts, or snapshots of the state, and no roles.
LEMMA ExpansionType ==
    ASSUME TypeOK, OrderInv, NEW op,
           op.kind \in {"broadcast_handoff", "broadcast_roster", "broadcast_full_state"}
    PROVE  /\ Expansion(op) \in Seq(SongOp)
           /\ op.kind # "broadcast_full_state" => Expansion(op) \in Seq(RoleOp)
<1>1. connected \subseteq Socket
  BY DEF TypeOK
<1>2. ASSUME NEW S \in SUBSET connected, NEW kind \in {"prompt", "roster", "songs"}, NEW text \in Texts,
             NEW ws \in Seq(Socket)
      PROVE  /\ ToEach(ws, kind, text) \in Seq(SongOp)
             /\ kind # "songs" => ToEach(ws, kind, text) \in Seq(RoleOp)
  <2>1. ws \in [1..Len(ws) -> Socket] /\ Len(ws) \in Nat
    OBVIOUS
  <2>2. ToEach(ws, kind, text) \in [1..Len(ws) -> {o \in Ops : o.kind = kind}]
    <3> DEFINE n == Len(ws)
    <3>1. kind \in Kinds
      BY DEF Kinds, SendKinds
    <3>2. n \in Nat /\ ws \in [1..n -> Socket]
      BY <2>1
    <3> HIDE DEF n
    <3>3. ToEach(ws, kind, text) \in [1..n -> {o \in Ops : o.kind = kind}]
      BY <3>1, <3>2, ToEachType
    <3> QED BY <3>3 DEF n
  <2>3. {o \in Ops : o.kind = kind} \subseteq SongOp
    BY DEF SongOp
  <2>4. kind # "songs" => {o \in Ops : o.kind = kind} \subseteq RoleOp
    BY DEF RoleOp
  <2> QED BY <2>1, <2>2, <2>3, <2>4
<1>3. ASSUME NEW S \in SUBSET connected PROVE InOrder(S) \in Seq(Socket)
  BY <1>1, InOrderType
<1>4. PrimaryFirst(connected) \in Seq(Socket)
  <2>1. InOrder(connected \cap {primary}) \in Seq(Socket) /\ InOrder(connected \ {primary}) \in Seq(Socket)
    BY <1>3
  <2> QED BY <2>1 DEF PrimaryFirst
<1>5. InOrder({w \in connected : SupportsHandoff(w)}) \in Seq(Socket)
  BY <1>3
<1> QED BY <1>2, <1>4, <1>5, TextTypes DEF Expansion

\* What announce does after a change of roles.
LEMMA AnnounceType ==
    ASSUME NEW changed \in Seq(Socket)
    PROVE  Announce(changed) \in Seq(RoleOp)
<1> DEFINE n == Len(changed)
           told == ToEach(changed, "role", NoRequest)
<1>1. n \in Nat /\ changed \in [1..n -> Socket]
  OBVIOUS
<1>2. NoRequest \in Texts /\ "role" \in Kinds
  BY DEF Texts, Kinds, SendKinds
<1>3. told \in [1..n -> {op \in Ops : op.kind = "role"}]
  <2> HIDE DEF n
  <2> QED BY <1>1, <1>2, ToEachType
<1>4. {op \in Ops : op.kind = "role"} \subseteq RoleOp
  BY DEF RoleOp
<1>5. told \in Seq(RoleOp)
  <2> HIDE DEF n, told
  <2> QED BY <1>1, <1>3, <1>4
<1>6. Do("broadcast_handoff", NoSocket) \in RoleOp /\ Do("broadcast_roster", NoSocket) \in RoleOp
  BY DoType DEF Kinds, SendKinds
<1> HIDE DEF told
<1> QED BY <1>5, <1>6 DEF Announce, told

-----------------------------------------------------------------------------
(* Who is still to be told *)

\* The operations ops tell w its role, with a snapshot made when it is sent.
Tells(ops, w) == \E i \in DOMAIN ops : ops[i].kind \in {"hello", "role"} /\ ops[i].to = w

Ahead(w) == \E c \in InFlight : Tells(c.ops, w)

\* A device that is not told its role yet is going to be: a coroutine has it ahead.
RoleInv == \A w \in Listening \ dead : view[w].role = RoleOf(w) \/ Ahead(w)

\* What a list of operations tells, one of its parts does.
LEMMA TellsParts ==
    ASSUME NEW S, NEW a \in Seq(S), NEW b \in Seq(S), NEW w
    PROVE  /\ Tells(a, w) => Tells(a \o b, w)
           /\ Tells(b, w) => Tells(a \o b, w)
           /\ a # <<>> /\ Tells(a, w) =>
                  (Head(a).kind \in {"hello", "role"} /\ Head(a).to = w) \/ Tells(Tail(a), w)
<1>1. ASSUME Tells(a, w) PROVE Tells(a \o b, w)
  <2>1. PICK i \in 1..Len(a) : a[i].kind \in {"hello", "role"} /\ a[i].to = w
    BY <1>1 DEF Tells
  <2>2. i \in DOMAIN (a \o b) /\ (a \o b)[i] = a[i]
    OBVIOUS
  <2> QED BY <2>1, <2>2 DEF Tells
<1>2. ASSUME Tells(b, w) PROVE Tells(a \o b, w)
  <2>1. PICK i \in 1..Len(b) : b[i].kind \in {"hello", "role"} /\ b[i].to = w
    BY <1>2 DEF Tells
  <2>2. Len(a) + i \in DOMAIN (a \o b) /\ (a \o b)[Len(a) + i] = b[i]
    OBVIOUS
  <2> QED BY <2>1, <2>2 DEF Tells
<1>3. ASSUME a # <<>>, Tells(a, w)
      PROVE  (Head(a).kind \in {"hello", "role"} /\ Head(a).to = w) \/ Tells(Tail(a), w)
  <2>1. PICK i \in 1..Len(a) : a[i].kind \in {"hello", "role"} /\ a[i].to = w
    BY <1>3 DEF Tells
  <2>2. CASE i = 1
    BY <1>3, <2>1, <2>2
  <2>3. CASE i # 1
    <3>1. i - 1 \in DOMAIN Tail(a) /\ Tail(a)[i - 1] = a[i]
      BY <1>3, <2>3
    <3> QED BY <2>1, <3>1 DEF Tells
  <2> QED BY <2>2, <2>3
<1> QED BY <1>1, <1>2, <1>3

\* A coroutine that tells songs tells no roles.
LEMMA SongsTellNoRoles ==
    ASSUME NEW ops \in Seq(SongOp), NEW w
    PROVE  ~Tells(ops, w)
<1>1. \A i \in DOMAIN ops : ops[i] \in SongOp
  OBVIOUS
<1> QED BY <1>1 DEF Tells, SongOp

\* announce tells every device in its list.
LEMMA AnnounceTells ==
    ASSUME NEW changed \in Seq(Socket), NEW j \in 1..Len(changed)
    PROVE  Tells(Announce(changed), changed[j])
<1> DEFINE told == ToEach(changed, "role", NoRequest)
           last == <<Do("broadcast_handoff", NoSocket), Do("broadcast_roster", NoSocket)>>
<1>1. told[j].kind = "role" /\ told[j].to = changed[j] /\ j \in DOMAIN told
  BY DEF ToEach, Op
<1>2. Tells(told, changed[j])
  <2> HIDE DEF told
  <2> QED BY <1>1 DEF Tells
<1>3. told \in Seq(Ops) /\ last \in Seq(Ops)
  <2>2. \A i \in 1..Len(changed) : Op("role", changed[i], NoRequest) \in Ops
    BY DEF Op, Ops, Texts, Kinds, SendKinds
  <2>3. told \in [1..Len(changed) -> Ops]
    BY <2>2 DEF ToEach
  <2>4. last \in Seq(Ops)
    BY DoType DEF Kinds, SendKinds
  <2> HIDE DEF told, last
  <2> QED BY <2>3, <2>4
<1>4. Tells(told \o last, changed[j])
  <2> HIDE DEF told, last
  <2> QED BY <1>2, <1>3, TellsParts
<1> QED BY <1>4 DEF Announce

-----------------------------------------------------------------------------
(* The coroutine that is running *)

\* What is known of the coroutine at the head of the queue, and of what follows it: it
\* is plain, or it greets somebody and nothing follows.
LEMMA CurrentType ==
    ASSUME LoopType, ready # <<>>
    PROVE  /\ Current.owner \in Socket \cup {NoSocket}
           /\ Tail(ready) \in Seq(PlainTask)
           /\ \/ Current.ops \in PlainOps
              \/ /\ Current.ops # <<>> /\ Tail(Current.ops) \in PlainOps
                 /\ NextOp.kind = "hello" /\ NextOp.to \in connected \ dead
<1>1. CASE ready \in Seq(PlainTask)
  <2>1. Head(ready) \in PlainTask /\ Tail(ready) \in Seq(PlainTask)
    BY <1>1
  <2> QED BY <2>1 DEF PlainTask, Current
<1>2. ASSUME NEW c, ready = <<c>>, Greets(c)
      PROVE  /\ Current.owner \in Socket \cup {NoSocket} /\ Tail(ready) = <<>>
             /\ Current.ops # <<>> /\ Tail(Current.ops) \in PlainOps
             /\ NextOp.kind = "hello" /\ NextOp.to \in connected \ dead
  <2>1. PICK o \in Socket \cup {NoSocket}, w \in connected \ dead, rest \in PlainOps :
            c = Task(o, <<Do("hello", w)>> \o rest)
    BY <1>2 DEF Greets
  <2>2. Current = c /\ Tail(ready) = <<>>
    BY <1>2 DEF Current
  <2>3. Current.owner = o /\ Current.ops = <<Do("hello", w)>> \o rest
    BY <2>1, <2>2 DEF Task
  <2>4. rest \in Seq(Ops)
    BY OpsType
  <2>5. Current.ops # <<>> /\ Head(Current.ops) = Do("hello", w) /\ Tail(Current.ops) = rest
    BY <2>3, <2>4
  <2>6. Do("hello", w).kind = "hello" /\ Do("hello", w).to = w
    BY DEF Do, Op
  <2> QED BY <2>1, <2>2, <2>3, <2>5, <2>6 DEF NextOp
<1>3. <<>> \in Seq(PlainTask)
  OBVIOUS
<1> QED BY <1>1, <1>2, <1>3 DEF LoopType

\* The next thing it does, and what it will be after that.
LEMMA NextType ==
    ASSUME LoopType, ready # <<>>, Current.ops # <<>>
    PROVE  /\ Rest \in PlainTask
           /\ NextOp.kind # "hello" => Current.ops \in PlainOps /\ NextOp \in Ops
           /\ NextOp.kind = "hello" => NextOp.to \in connected \ dead
           /\ \E S : Current.ops \in Seq(S)
           /\ NextOp.kind \in {"songs", "broadcast_full_state", "leave"} => Current.ops \in Seq(SongOp)
<1>1. CASE Current.ops \in PlainOps
  <2>1. NextOp \in Ops /\ NextOp.kind # "hello" /\ Tail(Current.ops) \in PlainOps
    BY <1>1, PlainTail DEF NextOp
  <2>2. Current.ops \in Seq(Ops)
    BY <1>1, OpsType
  <2>3. ASSUME NextOp.kind \in {"songs", "broadcast_full_state", "leave"}
        PROVE  Current.ops \in Seq(SongOp)
    <3>1. ASSUME Current.ops \in Seq(RoleOp) PROVE FALSE
      <4>1. Head(Current.ops) \in RoleOp
        BY <3>1
      <4> QED BY <2>3, <4>1 DEF RoleOp, NextOp
    <3> QED BY <1>1, <3>1 DEF PlainOps
  <2>4. Rest \in PlainTask
    BY <2>1, CurrentType DEF Rest, Task, PlainTask
  <2> QED BY <1>1, <2>1, <2>2, <2>3, <2>4
<1>2. CASE /\ Tail(Current.ops) \in PlainOps
           /\ NextOp.kind = "hello" /\ NextOp.to \in connected \ dead
  <2>1. Rest \in PlainTask
    BY <1>2, CurrentType DEF Rest, Task, PlainTask
  <2>2. \E S : Current.ops \in Seq(S)
    <3>1. CASE ready \in Seq(PlainTask)
      <4>1. Head(ready) \in PlainTask
        BY <3>1
      <4>2. Current.ops \in Seq(Ops)
        BY <4>1, OpsType DEF PlainTask, Current
      <4> QED BY <4>2
    <3>2. ASSUME NEW c, ready = <<c>>, Greets(c) PROVE \E S : Current.ops \in Seq(S)
      <4>1. PICK o \in Socket \cup {NoSocket}, w \in connected \ dead, rest \in PlainOps :
                c = Task(o, <<Do("hello", w)>> \o rest)
        BY <3>2 DEF Greets
      <4>2. Current.ops = <<Do("hello", w)>> \o rest /\ rest \in Seq(Ops)
        BY <3>2, <4>1, OpsType DEF Current, Task
      <4>3. rest \in Seq(Ops \cup {Do("hello", w)}) /\ <<Do("hello", w)>> \in Seq(Ops \cup {Do("hello", w)})
        BY <4>2
      <4>4. Current.ops \in Seq(Ops \cup {Do("hello", w)})
        BY <4>2, <4>3
      <4> QED BY <4>4
    <3> QED BY <3>1, <3>2 DEF LoopType
  <2> QED BY <1>2, <2>1, <2>2
<1> QED BY <1>1, <1>2, CurrentType

\* The queue with its head replaced by a plain coroutine.
LEMMA GoOnType ==
    ASSUME LoopType, ready # <<>>, NEW c \in PlainTask, GoOnWith(c)
    PROVE  ready' \in Seq(PlainTask) /\ parked' = parked
<1>1. Tail(ready) \in Seq(PlainTask) /\ <<c>> \in Seq(PlainTask)
  BY CurrentType
<1> QED BY <1>1 DEF GoOnWith

\* A coroutine made of plain operations.
LEMMA TaskType ==
    ASSUME NEW o \in Socket \cup {NoSocket}, NEW ops \in PlainOps
    PROVE  Task(o, ops) \in PlainTask /\ Task(o, ops).ops = ops
BY DEF Task, PlainTask

\* A handler on its way out.
LEMMA LeavingType ==
    ASSUME NEW w \in Socket \cup {NoSocket}
    PROVE  Leaving(w) \in PlainTask
<1>1. Do("leave", w) \in SongOp
  BY DoType DEF Kinds, SendKinds
<1>2. <<Do("leave", w)>> \in PlainOps
  BY <1>1 DEF PlainOps
<1> QED BY <1>2, TaskType DEF Leaving

\* Each step of the event loop leaves coroutines of these kinds.
LEMMA EventLoopType ==
    ASSUME TypeOK, OrderInv, LoopType, EventLoop
    PROVE  ready' \in Seq(PlainTask) /\ parked' \in [Socket -> Seq(PlainTask)]
<1>0. parked \in [Socket -> Seq(PlainTask)]
  BY DEF LoopType
<1>1. CASE Finish
  <2> DEFINE more == IF Current.owner \in dead THEN <<Leaving(Current.owner)>> ELSE <<>>
  <2>1. Tail(ready) \in Seq(PlainTask) /\ Leaving(Current.owner) \in PlainTask
    BY <1>1, CurrentType, LeavingType DEF Finish
  <2>2. more \in Seq(PlainTask)
    BY <2>1
  <2>3. ready' = Tail(ready) \o more /\ parked' = parked
    BY <1>1 DEF Finish
  <2> HIDE DEF more
  <2> QED BY <1>0, <2>1, <2>2, <2>3
<1>2. CASE Expand
  <2> DEFINE ops == Expansion(NextOp) \o Tail(Current.ops)
  <2>1. /\ ready # <<>> /\ Current.ops # <<>> /\ GoOnWith(Task(Current.owner, ops))
        /\ NextOp.kind \in {"broadcast_handoff", "broadcast_roster", "broadcast_full_state"}
    BY <1>2 DEF Expand
  <2>2. Current.ops \in PlainOps
    BY <2>1, NextType
  <2>3. ops \in PlainOps
    <3>1. CASE Current.ops \in Seq(RoleOp)
      <4>1. Head(Current.ops) \in RoleOp /\ Tail(Current.ops) \in Seq(RoleOp)
        BY <2>1, <3>1
      <4>2. NextOp.kind # "broadcast_full_state"
        BY <4>1 DEF RoleOp, NextOp
      <4>3. Expansion(NextOp) \in Seq(RoleOp)
        BY <2>1, <4>2, ExpansionType
      <4>4. ops \in Seq(RoleOp)
        BY <4>1, <4>3
      <4> HIDE DEF ops
      <4> QED BY <4>4 DEF PlainOps
    <3>2. CASE Current.ops \in Seq(SongOp)
      <4>1. Tail(Current.ops) \in Seq(SongOp)
        BY <2>1, <3>2
      <4>2. Expansion(NextOp) \in Seq(SongOp)
        BY <2>1, ExpansionType
      <4>3. ops \in Seq(SongOp)
        BY <4>1, <4>2
      <4> HIDE DEF ops
      <4> QED BY <4>3 DEF PlainOps
    <3> QED BY <2>2, <3>1, <3>2 DEF PlainOps
  <2> HIDE DEF ops
  <2>4. Task(Current.owner, ops) \in PlainTask
    BY <2>1, <2>3, CurrentType, TaskType
  <2> QED BY <1>0, <2>1, <2>4, GoOnType
<1>3. CASE Abandon \/ SendFails
  <2>1. /\ ready # <<>> /\ Current.ops # <<>>
        /\ GoOnWith(Task(Current.owner, <<>>)) \/ GoOnWith(Rest)
    BY <1>3 DEF Abandon, SendFails
  <2>2. Task(Current.owner, <<>>) \in PlainTask /\ Rest \in PlainTask
    BY <2>1, CurrentType, NextType, OpsType, TaskType
  <2> QED BY <1>0, <2>1, <2>2, GoOnType
<1>4. CASE Send
  <2>1. /\ ready # <<>> /\ Current.ops # <<>> /\ NextOp.to \in connected
        /\ \/ ready' = Tail(ready) /\ parked' = [parked EXCEPT ![NextOp.to] = Append(@, Rest)]
           \/ GoOnWith(Rest)
    BY <1>4 DEF Send
  <2>2. Rest \in PlainTask /\ Tail(ready) \in Seq(PlainTask) /\ NextOp.to \in Socket
    BY <2>1, NextType, CurrentType DEF TypeOK
  <2>3. Append(parked[NextOp.to], Rest) \in Seq(PlainTask)
    BY <1>0, <2>2
  <2>4. CASE GoOnWith(Rest)
    BY <1>0, <2>1, <2>2, <2>4, GoOnType
  <2>5. CASE ready' = Tail(ready) /\ parked' = [parked EXCEPT ![NextOp.to] = Append(@, Rest)]
    BY <1>0, <2>2, <2>3, <2>5
  <2> QED BY <2>1, <2>4, <2>5
<1>5. CASE Leave
  <2>1. PICK changed \in {<<>>, <<primary'>>} :
            /\ ready # <<>> /\ Current.ops # <<>>
            /\ NextOp.to \in connected /\ Disconnect(NextOp.to)
            /\ changed = <<primary'>> => primary' # NoSocket
            /\ GoOnWith(Task(NextOp.to, Announce(changed)))
    BY <1>5 DEF Leave, Disconnect
  <2>2. primary' \in Socket \cup {NoSocket}
    BY <2>1 DEF Disconnect, TypeOK
  <2>3. changed \in Seq(Socket)
    <3>1. CASE changed = <<>>
      BY <3>1
    <3>2. CASE changed = <<primary'>>
      <4>1. primary' \in Socket
        BY <2>1, <2>2, <3>2
      <4> QED BY <3>2, <4>1
    <3> QED BY <3>1, <3>2
  <2>4. Announce(changed) \in PlainOps
    BY <2>3, AnnounceType DEF PlainOps
  <2>5. Task(NextOp.to, Announce(changed)) \in PlainTask
    BY <2>1, <2>4, TaskType DEF TypeOK
  <2> QED BY <1>0, <2>1, <2>5, GoOnType
<1> QED BY <1>1, <1>2, <1>3, <1>4, <1>5 DEF EventLoop

\* Messages change what a device believes, and only that.
LEMMA ViewType ==
    ASSUME TypeOK, LoopType, NEW op \in [kind : Kinds, to : connected, text : Texts]
    PROVE  ViewAfter(op) \in View
<1>1. view[op.to] \in View /\ songs \in Nat
  BY DEF LoopType, TypeOK
<1>2. RoleOf(op.to) \in {"none", "primary", "observer"}
  BY DEF RoleOf
<1>3. op.text \in Texts
  OBVIOUS
<1> DEFINE v == view[op.to]
           r == RoleOf(op.to)
<1>4. /\ [v EXCEPT !.role = r, !.songs = songs] \in View
      /\ [v EXCEPT !.prompt = op.text] \in View
      /\ [v EXCEPT !.roster = op.text] \in View
  <2> HIDE DEF v, r
  <2>1. v \in View /\ r \in {"none", "primary", "observer"}
    BY <1>1, <1>2 DEF v, r
  <2> QED BY <1>1, <1>3, <2>1 DEF View
<1> QED BY <1>1, <1>4 DEF ViewAfter

\* The sockets and what their devices believe.
DevicesType ==
    /\ stalled \subseteq Socket /\ dead \subseteq connected
    /\ view \in [Socket -> View]
    /\ songs \in Nat

\* Each step of the event loop keeps those.
LEMMA EventLoopDevices ==
    ASSUME TypeOK, LoopType, EventLoop
    PROVE  DevicesType'
<1>0. DevicesType
  BY DEF LoopType, DevicesType
<1>1. CASE Finish \/ Expand \/ Abandon \/ SendFails
  <2>1. UNCHANGED <<connected, stalled, dead, view, songs>>
    BY <1>1, Zenon DEF Finish, Expand, Abandon, SendFails, vars, socketVars, deviceVars
  <2> QED BY <1>0, <2>1 DEF DevicesType
<1>2. CASE Send
  <2>1. /\ ready # <<>> /\ Current.ops # <<>> /\ NextOp.to \in connected \ dead
        /\ view' = [view EXCEPT ![NextOp.to] = ViewAfter(NextOp)]
        /\ stalled' \subseteq stalled \cup {NextOp.to} /\ dead' \subseteq dead \cup {NextOp.to}
        /\ connected' = connected /\ songs' = songs
    BY <1>2 DEF Send, vars, socketVars
  <2>2. ViewAfter(NextOp) \in View
    <3>1. CASE NextOp.kind = "hello"
      <4>1. view[NextOp.to] \in View /\ songs \in Nat /\ RoleOf(NextOp.to) \in {"none", "primary", "observer"}
        BY <2>1 DEF LoopType, TypeOK, RoleOf
      <4> DEFINE v == view[NextOp.to]
                 r == RoleOf(NextOp.to)
      <4>2. [v EXCEPT !.role = r, !.songs = songs] \in View
        <5>1. v \in View /\ r \in {"none", "primary", "observer"} /\ songs \in Nat
          BY <4>1
        <5> HIDE DEF v, r
        <5> QED BY <5>1 DEF View
      <4> QED BY <3>1, <4>2 DEF ViewAfter
    <3>2. CASE NextOp.kind # "hello"
      <4>1. NextOp \in [kind : Kinds, to : connected, text : Texts]
        BY <2>1, <3>2, NextType DEF Ops
      <4> QED BY <4>1, ViewType
    <3> QED BY <3>1, <3>2
  <2> QED BY <1>0, <2>1, <2>2 DEF DevicesType, TypeOK
<1>3. CASE Leave
  <2>1. connected' = connected \ {NextOp.to} /\ dead' = dead \ {NextOp.to}
    BY <1>3 DEF Leave, Disconnect, Unregister
  <2>2. UNCHANGED <<stalled, view, songs>>
    BY <1>3, Zenon DEF Leave
  <2> QED BY <1>0, <2>1, <2>2 DEF DevicesType
<1> QED BY <1>1, <1>2, <1>3, Zenon DEF EventLoop

-----------------------------------------------------------------------------
(* What begins outside the event loop *)

\* A new coroutine of plain operations, when no other can go on.
LEMMA StartPlain ==
    ASSUME LoopType, NEW o \in Socket \cup {NoSocket}, NEW ops \in PlainOps, Start(o, ops)
    PROVE  ready' \in Seq(PlainTask) /\ parked' \in [Socket -> Seq(PlainTask)]
<1>1. Task(o, ops) \in PlainTask
  BY TaskType
<1> QED BY <1>1 DEF Start, LoopType

\* The operations of a coroutine that nothing cuts short.
LEMMA RoleTask ==
    ASSUME NEW kind \in {"note", "prompt", "close", "broadcast_handoff", "broadcast_roster"},
           NEW w \in Socket \cup {NoSocket}
    PROVE  Do(kind, w) \in RoleOp /\ <<Do(kind, w)>> \in Seq(RoleOp)
<1>1. Do(kind, w) \in RoleOp
  BY DoType DEF Kinds, SendKinds
<1> QED BY <1>1

\* Each event leaves coroutines of these kinds, or a greeting alone.
LEMMA WorldType ==
    ASSUME TypeOK, TypeOK', LoopType, World
    PROVE  /\ ready' \in Seq(PlainTask) \/ \E c : ready' = <<c>> /\ Greets(c)'
           /\ parked' \in [Socket -> Seq(PlainTask)]
<1>0. parked \in [Socket -> Seq(PlainTask)] /\ <<>> \in Seq(PlainTask)
  BY DEF LoopType
<1>1. ASSUME NEW w \in Socket, NEW h \in Hello, Connects(w, h)
      PROVE  \E c : ready' = <<c>> /\ Greets(c)'
  <2>1. PICK superseded \in {<<>>, <<primary>>} :
            /\ superseded = <<primary>> => primary \in connected
            /\ Start(w, <<Do("hello", w)>> \o Announce(superseded))
    BY <1>1 DEF Connects, Supersedes
  <2>2. superseded \in Seq(Socket)
    <3>1. CASE superseded = <<>>
      BY <3>1
    <3>2. CASE superseded = <<primary>>
      <4>1. primary \in Socket
        BY <2>1, <3>2 DEF TypeOK
      <4> QED BY <3>2, <4>1
    <3> QED BY <3>1, <3>2
  <2>3. Announce(superseded) \in PlainOps
    BY <2>2, AnnounceType DEF PlainOps
  <2>4. w \in connected' \ dead'
    <3>1. w \notin connected /\ connected' = connected \cup {w} /\ dead' = dead
      BY <1>1 DEF Connects, Connect, Register
    <3> QED BY <3>1 DEF LoopType
  <2>5. Greets(Task(w, <<Do("hello", w)>> \o Announce(superseded)))'
    BY <2>3, <2>4, Zenon DEF Greets
  <2> QED BY <2>1, <2>5, Zenon DEF Start
<1>2. ASSUME NEW w \in Socket, NEW id \in RequestId, Requests(w, id)
      PROVE  ready' \in Seq(PlainTask) /\ parked' \in [Socket -> Seq(PlainTask)]
  <2>1. Start(w, Announce(<<w>>)) \/ Start(w, <<Do("broadcast_handoff", NoSocket)>>)
    BY <1>2 DEF Requests
  <2>2. Announce(<<w>>) \in PlainOps /\ <<Do("broadcast_handoff", NoSocket)>> \in PlainOps
    <3>1. <<w>> \in Seq(Socket)
      OBVIOUS
    <3> QED BY <3>1, AnnounceType, RoleTask DEF PlainOps
  <2> QED BY <2>1, <2>2, StartPlain
<1>3. ASSUME NEW w \in Socket, Cancels(w)
      PROVE  ready' \in Seq(PlainTask) /\ parked' \in [Socket -> Seq(PlainTask)]
  <2>1. Start(w, <<Do("note", w), Do("broadcast_handoff", NoSocket)>>)
    BY <1>3 DEF Cancels
  <2>2. <<Do("note", w), Do("broadcast_handoff", NoSocket)>> \in PlainOps
    <3>1. Do("note", w) \in RoleOp /\ Do("broadcast_handoff", NoSocket) \in RoleOp
      BY RoleTask
    <3> QED BY <3>1 DEF PlainOps
  <2> QED BY <2>1, <2>2, StartPlain
<1>4. ASSUME NEW w \in Socket, NEW accept \in BOOLEAN, Responds(w, accept)
      PROVE  ready' \in Seq(PlainTask) /\ parked' \in [Socket -> Seq(PlainTask)]
  <2> DEFINE changed == <<request.requester>> \o IF request.requester = w THEN <<>> ELSE <<w>>
  <2>1. \/ Start(w, Announce(changed))
        \/ Start(w, <<Do("note", request.requester), Do("broadcast_handoff", NoSocket)>>)
    BY <1>4 DEF Responds
  <2>2. request.requester \in Socket
    BY <1>4, RequesterOfPending DEF Responds, Respond
  <2>3. changed \in Seq(Socket)
    BY <2>2
  <2>4. <<Do("note", request.requester), Do("broadcast_handoff", NoSocket)>> \in PlainOps
    <3>1. Do("note", request.requester) \in RoleOp /\ Do("broadcast_handoff", NoSocket) \in RoleOp
      BY <2>2, RoleTask
    <3> QED BY <3>1 DEF PlainOps
  <2> HIDE DEF changed
  <2>5. Announce(changed) \in PlainOps
    BY <2>3, AnnounceType DEF PlainOps
  <2> QED BY <2>1, <2>4, <2>5, StartPlain
<1>5. ASSUME NEW w \in Socket, AnswersTooLate(w)
      PROVE  ready' \in Seq(PlainTask) /\ parked' \in [Socket -> Seq(PlainTask)]
  <2>1. Start(w, <<Op("prompt", w, request)>>)
    BY <1>5 DEF AnswersTooLate
  <2>2. Op("prompt", w, request) \in RoleOp
    BY TextTypes DEF Op, Ops, RoleOp, Kinds, SendKinds
  <2>3. <<Op("prompt", w, request)>> \in PlainOps
    BY <2>2 DEF PlainOps
  <2> QED BY <2>1, <2>3, StartPlain
<1>6. ASSUME NEW w \in Socket, NEW target \in Socket, Grants(w, target)
      PROVE  ready' \in Seq(PlainTask) /\ parked' \in [Socket -> Seq(PlainTask)]
  <2>1. PICK notes \in {<<>>, <<Do("note", request.requester)>>} :
            /\ notes # <<>> => Pending
            /\ Start(w, notes \o Announce(<<target, w>>))
    BY <1>6 DEF Grants
  <2>2. notes \in Seq(RoleOp)
    <3>1. CASE notes = <<>>
      BY <3>1
    <3>2. CASE notes = <<Do("note", request.requester)>>
      <4>1. request.requester \in Socket
        BY <2>1, <3>2, RequesterOfPending
      <4> QED BY <3>2, <4>1, RoleTask
    <3> QED BY <2>1, <3>1, <3>2
  <2>3. <<target, w>> \in Seq(Socket)
    OBVIOUS
  <2>4. notes \o Announce(<<target, w>>) \in PlainOps
    <3>1. Announce(<<target, w>>) \in Seq(RoleOp)
      BY <2>3, AnnounceType
    <3> QED BY <2>2, <3>1 DEF PlainOps
  <2> QED BY <2>1, <2>4, StartPlain
<1>7. ASSUME NEW w \in Socket, Releases(w)
      PROVE  ready' \in Seq(PlainTask) /\ parked' \in [Socket -> Seq(PlainTask)]
  <2>1. PICK changed \in {<<>>, <<request.requester>>} :
            /\ changed # <<>> => Pending
            /\ Start(w, <<Do("note", w), Do("close", w)>> \o Announce(changed))
    BY <1>7 DEF Releases
  <2>2. changed \in Seq(Socket)
    <3>1. CASE changed = <<>>
      BY <3>1
    <3>2. CASE changed = <<request.requester>>
      <4>1. request.requester \in Socket
        BY <2>1, <3>2, RequesterOfPending
      <4> QED BY <3>2, <4>1
    <3> QED BY <2>1, <3>1, <3>2
  <2>3. <<Do("note", w), Do("close", w)>> \in Seq(RoleOp)
    <3>1. Do("note", w) \in RoleOp /\ Do("close", w) \in RoleOp
      BY RoleTask
    <3> QED BY <3>1
  <2>4. <<Do("note", w), Do("close", w)>> \o Announce(changed) \in PlainOps
    <3>1. Announce(changed) \in Seq(RoleOp)
      BY <2>2, AnnounceType
    <3> QED BY <2>3, <3>1 DEF PlainOps
  <2> QED BY <2>1, <2>4, StartPlain
<1>8. ASSUME NEW w \in Socket, Registers(w)
      PROVE  ready' \in Seq(PlainTask) /\ parked' \in [Socket -> Seq(PlainTask)]
  <2>1. Start(w, <<Do("broadcast_roster", NoSocket)>>)
    BY <1>8 DEF Registers
  <2>2. <<Do("broadcast_roster", NoSocket)>> \in PlainOps
    BY RoleTask DEF PlainOps
  <2> QED BY <2>1, <2>2, StartPlain
<1>9. ASSUME NEW w \in Socket, Refreshes(w)
      PROVE  \E c : ready' = <<c>> /\ Greets(c)'
  <2>1. Start(w, <<Do("hello", w)>>) /\ w \in Listening /\ w \notin dead
    BY <1>9, Zenon DEF Refreshes, HandlerFree
  <2>2. connected' = connected /\ dead' = dead
    BY <1>9 DEF Refreshes, vars, socketVars, deviceVars
  <2>3. <<Do("hello", w)>> = <<Do("hello", w)>> \o <<>>
    OBVIOUS
  <2>4. w \in connected' \ dead'
    BY <2>1, <2>2 DEF Listening
  <2>5. Greets(Task(w, <<Do("hello", w)>> \o <<>>))'
    BY <2>4, OpsType, Zenon DEF Greets
  <2> QED BY <2>1, <2>3, <2>5, Zenon DEF Start
<1>10. CASE SongsChange
  <2>1. Start(NoSocket, <<Do("broadcast_full_state", NoSocket)>>)
    BY <1>10 DEF SongsChange
  <2>2. Do("broadcast_full_state", NoSocket) \in SongOp
    BY DoType DEF Kinds, SendKinds
  <2>3. <<Do("broadcast_full_state", NoSocket)>> \in PlainOps
    BY <2>2 DEF PlainOps
  <2> QED BY <2>1, <2>3, StartPlain
<1>11. CASE HoldEnds
  <2>1. CASE Pending
    <3>1. Start(NoSocket, Announce(<<request.requester>>)) /\ request.requester \in Socket
      BY <1>11, <2>1, RequesterOfPending DEF HoldEnds
    <3>2. <<request.requester>> \in Seq(Socket)
      BY <3>1
    <3>3. Announce(<<request.requester>>) \in PlainOps
      BY <3>2, AnnounceType DEF PlainOps
    <3> QED BY <3>1, <3>3, StartPlain
  <2>2. CASE ~Pending
    <3>1. ready' = <<>> /\ parked' = parked
      BY <1>11, <2>2 DEF HoldEnds, Event, loopVars
    <3> QED BY <1>0, <3>1
  <2> QED BY <2>1, <2>2
<1>12. CASE RequestEnds
  <2>1. Start(NoSocket, <<Do("note", request.requester), Do("broadcast_handoff", NoSocket)>>)
    BY <1>12 DEF RequestEnds
  <2>2. request.requester \in Socket \cup {NoSocket}
    BY DEF TypeOK, Request, NoRequest
  <2>3. <<Do("note", request.requester), Do("broadcast_handoff", NoSocket)>> \in PlainOps
    <3>1. Do("note", request.requester) \in RoleOp /\ Do("broadcast_handoff", NoSocket) \in RoleOp
      BY <2>2, RoleTask
    <3> QED BY <3>1 DEF PlainOps
  <2> QED BY <2>1, <2>3, StartPlain
<1>13. CASE TimePasses \/ \E w \in Socket : Stalls(w)
  <2>1. ready' = <<>> /\ parked' = parked
    BY <1>13 DEF TimePasses, Stalls, Event, loopVars
  <2> QED BY <1>0, <2>1
<1>14. ASSUME NEW w \in Socket, Drains(w)
       PROVE  ready' \in Seq(PlainTask) /\ parked' \in [Socket -> Seq(PlainTask)]
  BY <1>0, <1>14 DEF Drains
<1>15. ASSUME NEW w \in Socket, Drops(w)
       PROVE  ready' \in Seq(PlainTask) /\ parked' \in [Socket -> Seq(PlainTask)]
  <2>1. PICK more \in {<<>>, <<Leaving(w)>>} :
            ready' = parked[w] \o more /\ parked' = [parked EXCEPT ![w] = <<>>]
    BY <1>15 DEF Drops
  <2>2. more \in Seq(PlainTask)
    <3>1. CASE more = <<>>
      BY <3>1
    <3>2. CASE more = <<Leaving(w)>>
      BY <3>2, LeavingType
    <3> QED BY <2>1, <3>1, <3>2
  <2> QED BY <1>0, <2>1, <2>2
<1>16. ASSUME NEW w \in Socket, NEW h \in Hello, Connects(w, h) PROVE parked' = parked
  BY <1>16 DEF Connects, Start
<1>17. ASSUME NEW w \in Socket, Refreshes(w) PROVE parked' = parked
  BY <1>17 DEF Refreshes, Start
<1> QED BY <1>0, <1>1, <1>2, <1>3, <1>4, <1>5, <1>6, <1>7, <1>8, <1>9, <1>10, <1>11, <1>12, <1>13,
          <1>14, <1>15, <1>16, <1>17, Zenon DEF World

\* Each event keeps the types of the sockets and of what their devices believe.
LEMMA WorldDevices ==
    ASSUME TypeOK, LoopType, World
    PROVE  DevicesType'
<1>0. DevicesType
  BY DEF LoopType, DevicesType
<1>1. ASSUME NEW w \in Socket, NEW h \in Hello, Connects(w, h) PROVE DevicesType'
  <2>1. /\ connected' = connected \cup {w} /\ view' = [view EXCEPT ![w] = NoView]
        /\ UNCHANGED <<stalled, dead, songs>>
    BY <1>1 DEF Connects, Connect, Register
  <2>2. NoView \in View
    BY DEF NoView, View, Texts
  <2> QED BY <1>0, <2>1, <2>2 DEF DevicesType
<1>2. ASSUME UNCHANGED deviceVars, connected' = connected PROVE DevicesType'
  BY <1>0, <1>2 DEF DevicesType, deviceVars
<1>3. ASSUME NEW w \in Socket, NEW id \in RequestId, Requests(w, id) PROVE DevicesType'
  BY <1>2, <1>3, Zenon DEF Requests, RequestControl, socketVars
<1>4. ASSUME NEW w \in Socket, Cancels(w) PROVE DevicesType'
  BY <1>2, <1>4, Zenon DEF Cancels, CancelRequest, socketVars
<1>5. ASSUME NEW w \in Socket, NEW accept \in BOOLEAN, Responds(w, accept) PROVE DevicesType'
  BY <1>2, <1>5, Zenon DEF Responds, Respond, socketVars
<1>6. ASSUME NEW w \in Socket, NEW target \in Socket, Grants(w, target) PROVE DevicesType'
  BY <1>2, <1>6, Zenon DEF Grants, Grant, socketVars
<1>7. ASSUME NEW w \in Socket, Releases(w) PROVE DevicesType'
  BY <1>2, <1>7, Zenon DEF Releases, Release
<1>8. ASSUME NEW w \in Socket, AnswersTooLate(w) \/ Registers(w) \/ Refreshes(w) PROVE DevicesType'
  BY <1>2, <1>8, Zenon DEF AnswersTooLate, Registers, Refreshes, vars, socketVars
<1>9. CASE SongsChange
  <2>1. songs' = songs + 1 /\ UNCHANGED <<connected, stalled, dead, view>>
    BY <1>9 DEF SongsChange, vars, socketVars
  <2> QED BY <1>0, <2>1 DEF DevicesType
<1>10. CASE HoldEnds \/ RequestEnds
  <2>1. UNCHANGED deviceVars /\ connected' = connected
    BY <1>10, Zenon DEF HoldEnds, RequestEnds, ReservationExpiry, RequestExpiry, socketVars
  <2> QED BY <1>2, <2>1
<1>11. CASE TimePasses
  <2>1. UNCHANGED deviceVars /\ connected' = connected
    BY <1>11, Zenon DEF TimePasses, Tick, socketVars
  <2> QED BY <1>2, <2>1
<1>12. ASSUME NEW w \in Socket, Stalls(w) \/ Drains(w) \/ Drops(w) PROVE DevicesType'
  <2>1. /\ stalled' \subseteq stalled \cup {w}
        /\ dead' = dead \/ (w \in connected /\ dead' = dead \cup {w})
        /\ UNCHANGED <<connected, view, songs>>
    BY <1>12 DEF Stalls, Drains, Drops, vars, socketVars
  <2> QED BY <1>0, <2>1 DEF DevicesType
<1> QED BY <1>1, <1>3, <1>4, <1>5, <1>6, <1>7, <1>8, <1>9, <1>10, <1>11, <1>12, Zenon DEF World

\* The types hold through every step.
LEMMA LoopTypeStep ==
    ASSUME TypeOK, TypeOK', OrderInv, LoopType, [LoopNext]_allVars
    PROVE  LoopType'
<1>1. CASE EventLoop
  BY <1>1, EventLoopType, EventLoopDevices DEF LoopType, DevicesType
<1>2. CASE World
  BY <1>2, WorldType, WorldDevices DEF LoopType, DevicesType
<1>3. CASE UNCHANGED allVars
  <2>1. UNCHANGED <<connected, ready, parked, stalled, dead, view, songs>>
    BY <1>3 DEF allVars, vars, socketVars, loopVars, deviceVars
  <2>2. ASSUME NEW c, Greets(c) PROVE Greets(c)'
    BY <2>1, <2>2 DEF Greets
  <2> QED BY <2>1, <2>2 DEF LoopType
<1> QED BY <1>1, <1>2, <1>3 DEF LoopNext

-----------------------------------------------------------------------------
(* Nothing that is to be told gets lost *)

\* All but the running coroutine stay, and what it becomes is among them.
LEMMA GoOnFlight ==
    ASSUME LoopType, ready # <<>>, NEW c, GoOnWith(c)
    PROVE  c \in InFlight' /\ InFlight \ {Current} \subseteq InFlight'
<1>1. Tail(ready) \in Seq(PlainTask)
  BY CurrentType
<1>2. ready' = <<c>> \o Tail(ready) /\ parked' = parked
  BY DEF GoOnWith
<1>3. Tail(ready) \in Seq(PlainTask \cup {c}) /\ <<c>> \in Seq(PlainTask \cup {c})
  BY <1>1
<1>4. /\ 1 \in DOMAIN ready' /\ ready'[1] = c
      /\ \A i \in DOMAIN Tail(ready) : i + 1 \in DOMAIN ready' /\ ready'[i + 1] = Tail(ready)[i]
  BY <1>2, <1>3
<1>5. c \in InFlight'
  BY <1>4 DEF InFlight
<1>6. ASSUME NEW i \in DOMAIN ready, ready[i] # Current PROVE ready[i] \in InFlight'
  <2>1. \E S : ready \in Seq(S)
    <3>1. ASSUME NEW d, ready = <<d>> PROVE ready \in Seq({d})
      BY <3>1
    <3> QED BY <3>1 DEF LoopType
  <2>2. PICK S : ready \in Seq(S)
    BY <2>1
  <2>3. i \in 1..Len(ready) /\ i # 1
    BY <1>6, <2>2 DEF Current
  <2>4. i - 1 \in DOMAIN Tail(ready) /\ Tail(ready)[i - 1] = ready[i] /\ (i - 1) + 1 = i
    BY <2>2, <2>3
  <2>5. i \in DOMAIN ready' /\ ready'[i] = ready[i]
    BY <1>4, <2>4
  <2> QED BY <2>5 DEF InFlight
<1>7. ASSUME NEW w \in Socket, NEW i \in DOMAIN parked[w] PROVE parked[w][i] \in InFlight'
  BY <1>2 DEF InFlight
<1> QED BY <1>5, <1>6, <1>7 DEF InFlight

\* A new coroutine joins those that wait.
LEMMA StartFlight ==
    ASSUME LoopType, ready = <<>>, NEW o, NEW ops, Start(o, ops)
    PROVE  Task(o, ops) \in InFlight' /\ InFlight \subseteq InFlight'
<1>1. ready' = <<Task(o, ops)>> /\ parked' = parked
  BY DEF Start
<1>2. Task(o, ops) \in InFlight'
  <2>1. 1 \in DOMAIN ready' /\ ready'[1] = Task(o, ops)
    BY <1>1
  <2> QED BY <2>1 DEF InFlight
<1>3. DOMAIN ready = {}
  OBVIOUS
<1>4. ASSUME NEW w \in Socket, NEW i \in DOMAIN parked[w] PROVE parked[w][i] \in InFlight'
  BY <1>1 DEF InFlight
<1> QED BY <1>2, <1>3, <1>4 DEF InFlight

\* The coroutines that waited for a socket can go on.
LEMMA WakeFlight ==
    ASSUME LoopType, ready = <<>>, NEW w \in Socket, NEW more \in Seq(PlainTask),
           ready' = parked[w] \o more, parked' = [parked EXCEPT ![w] = <<>>]
    PROVE  InFlight \subseteq InFlight'
<1>1. parked \in [Socket -> Seq(PlainTask)] /\ DOMAIN ready = {}
  BY DEF LoopType
<1>2. ASSUME NEW i \in DOMAIN parked[w] PROVE parked[w][i] \in InFlight'
  <2>1. parked[w] \in Seq(PlainTask)
    BY <1>1
  <2>2. i \in DOMAIN ready' /\ ready'[i] = parked[w][i]
    BY <1>2, <2>1
  <2> QED BY <2>2 DEF InFlight
<1>3. ASSUME NEW v \in Socket \ {w}, NEW i \in DOMAIN parked[v] PROVE parked[v][i] \in InFlight'
  <2>1. parked'[v] = parked[v]
    BY <1>1
  <2> QED BY <1>3, <2>1 DEF InFlight
<1>4. ASSUME NEW c \in InFlight PROVE c \in InFlight'
  <2>1. PICK v \in Socket : \E i \in DOMAIN parked[v] : c = parked[v][i]
    BY <1>1, <1>4 DEF InFlight
  <2> QED BY <1>2, <1>3, <2>1
<1> QED BY <1>4

\* The coroutines behind the running one are still there if the queue and the waits keep
\* their places.
LEMMA OthersStay ==
    ASSUME LoopType, ready # <<>>,
           \A i \in DOMAIN Tail(ready) : i \in DOMAIN ready' /\ ready'[i] = Tail(ready)[i],
           \A w \in Socket : \A i \in DOMAIN parked[w] :
               i \in DOMAIN parked'[w] /\ parked'[w][i] = parked[w][i]
    PROVE  InFlight \ {Current} \subseteq InFlight'
<1>1. PICK S : ready \in Seq(S)
  <2>1. ASSUME NEW d, ready = <<d>> PROVE ready \in Seq({d})
    BY <2>1
  <2> QED BY <2>1 DEF LoopType
<1>2. ASSUME NEW i \in DOMAIN ready, ready[i] # Current PROVE ready[i] \in InFlight'
  <2>1. i \in 1..Len(ready) /\ i # 1
    BY <1>1, <1>2 DEF Current
  <2>2. i - 1 \in DOMAIN Tail(ready) /\ Tail(ready)[i - 1] = ready[i]
    BY <1>1, <2>1
  <2>3. i - 1 \in DOMAIN ready' /\ ready'[i - 1] = ready[i]
    BY <2>2
  <2> QED BY <2>3 DEF InFlight
<1>3. ASSUME NEW w \in Socket, NEW i \in DOMAIN parked[w] PROVE parked[w][i] \in InFlight'
  BY DEF InFlight
<1> QED BY <1>2, <1>3 DEF InFlight

\* A coroutine that has nothing left to do makes room for the next.
LEMMA FinishFlight ==
    ASSUME LoopType, ready # <<>>, Finish
    PROVE  InFlight \ {Current} \subseteq InFlight'
<1> DEFINE more == IF Current.owner \in dead THEN <<Leaving(Current.owner)>> ELSE <<>>
<1>1. ready' = Tail(ready) \o more /\ parked' = parked
  BY DEF Finish
<1>2. Tail(ready) \in Seq(PlainTask) /\ more \in Seq(PlainTask)
  <2>1. Leaving(Current.owner) \in PlainTask /\ Tail(ready) \in Seq(PlainTask)
    BY CurrentType, LeavingType
  <2> QED BY <2>1
<1> HIDE DEF more
<1>3. \A i \in DOMAIN Tail(ready) : i \in DOMAIN ready' /\ ready'[i] = Tail(ready)[i]
  BY <1>1, <1>2
<1> QED BY <1>1, <1>3, OthersStay

\* After a send its coroutine goes on, or waits for the socket to take it.
LEMMA SendFlight ==
    ASSUME TypeOK, LoopType, Send
    PROVE  Rest \in InFlight' /\ InFlight \ {Current} \subseteq InFlight'
<1>1. /\ ready # <<>> /\ Current.ops # <<>> /\ NextOp.to \in Socket
      /\ \/ ready' = Tail(ready) /\ parked' = [parked EXCEPT ![NextOp.to] = Append(@, Rest)]
         \/ GoOnWith(Rest)
  BY DEF Send, TypeOK
<1>2. CASE GoOnWith(Rest)
  BY <1>1, <1>2, GoOnFlight
<1>3. CASE ready' = Tail(ready) /\ parked' = [parked EXCEPT ![NextOp.to] = Append(@, Rest)]
  <2> DEFINE u == NextOp.to
             r == Rest
  <2>1. /\ parked \in [Socket -> Seq(PlainTask)] /\ u \in Socket /\ r \in PlainTask
        /\ parked' = [parked EXCEPT ![u] = Append(@, r)]
    BY <1>1, <1>3, NextType DEF LoopType
  <2> HIDE DEF u, r
  <2>2. parked[u] \in Seq(PlainTask) /\ parked'[u] = Append(parked[u], r)
    BY <2>1
  <2>3. Len(parked[u]) + 1 \in DOMAIN parked'[u] /\ parked'[u][Len(parked[u]) + 1] = r
    BY <2>2
  <2>4. r \in InFlight'
    BY <2>1, <2>3 DEF InFlight
  <2>5. \A w \in Socket : \A i \in DOMAIN parked[w] : i \in DOMAIN parked'[w] /\ parked'[w][i] = parked[w][i]
    <3> SUFFICES ASSUME NEW w \in Socket, NEW i \in DOMAIN parked[w]
                 PROVE  i \in DOMAIN parked'[w] /\ parked'[w][i] = parked[w][i]
      OBVIOUS
    <3>1. CASE w = u
      BY <2>2, <3>1
    <3>2. CASE w # u
      BY <2>1, <3>2
    <3> QED BY <3>1, <3>2
  <2>6. \A i \in DOMAIN Tail(ready) : i \in DOMAIN ready' /\ ready'[i] = Tail(ready)[i]
    BY <1>3
  <2>7. InFlight \ {Current} \subseteq InFlight'
    BY <1>1, <2>5, <2>6, OthersStay
  <2> QED BY <2>4, <2>7 DEF r
<1> QED BY <1>1, <1>2, <1>3

\* A role message, or a first snapshot, tells the role there is then.
LEMMA SendTells ==
    ASSUME TypeOK, LoopType, Send, NEW w \in Listening \ dead
    PROVE  /\ NextOp.to = w /\ NextOp.kind \in {"hello", "role"} => view'[w].role = RoleOf(w)
           /\ view[w].role = RoleOf(w) => view'[w].role = RoleOf(w)
<1>1. view' = [view EXCEPT ![NextOp.to] = ViewAfter(NextOp)] /\ NextOp.kind \in SendKinds
  BY DEF Send
<1>2. view \in [Socket -> View] /\ w \in Socket
  BY DEF LoopType, TypeOK, Listening
<1>3. CASE NextOp.to # w
  BY <1>1, <1>2, <1>3
<1>4. CASE NextOp.to = w
  <2> DEFINE v == view[w]
             r == RoleOf(w)
  <2>1. v \in View /\ view'[w] = ViewAfter(NextOp)
    BY <1>1, <1>2, <1>4
  <2>2. ViewAfter(NextOp) \in {[v EXCEPT !.role = r, !.songs = songs], [v EXCEPT !.prompt = NextOp.text],
                               [v EXCEPT !.roster = NextOp.text], v}
    BY <1>4 DEF ViewAfter
  <2>3. NextOp.kind \in {"hello", "role"} => ViewAfter(NextOp) = [v EXCEPT !.role = r, !.songs = songs]
    BY <1>4 DEF ViewAfter
  <2> HIDE DEF v, r
  <2>4. /\ [v EXCEPT !.role = r, !.songs = songs].role = r
        /\ [v EXCEPT !.prompt = NextOp.text].role = v.role
        /\ [v EXCEPT !.roster = NextOp.text].role = v.role
    BY <2>1 DEF View
  <2>5. NextOp.kind \in {"hello", "role"} => view'[w].role = r
    BY <2>1, <2>3, <2>4
  <2>6. v.role = r => view'[w].role = r
    BY <2>1, <2>2, <2>4
  <2> QED BY <2>5, <2>6 DEF v, r
<1> QED BY <1>3, <1>4

\* What the running coroutine tells next it tells now, or has ahead still.
LEMMA CurrentTells ==
    ASSUME LoopType, ready # <<>>, Current.ops # <<>>, NEW w, Tells(Current.ops, w)
    PROVE  (NextOp.kind \in {"hello", "role"} /\ NextOp.to = w) \/ Tells(Rest.ops, w)
<1>1. PICK S : Current.ops \in Seq(S)
  BY NextType
<1>2. \/ Head(Current.ops).kind \in {"hello", "role"} /\ Head(Current.ops).to = w
      \/ Tells(Tail(Current.ops), w)
  BY <1>1, TellsParts
<1>3. Rest.ops = Tail(Current.ops)
  BY DEF Rest, Task
<1> QED BY <1>2, <1>3 DEF NextOp

\* The event loop tells every role it was going to tell.
LEMMA EventLoopRoles ==
    ASSUME TypeOK, OrderInv, LoopType, Finish \/ Expand \/ Abandon \/ SendFails \/ Send,
           NEW w \in Listening \ dead, view[w].role = RoleOf(w) \/ Ahead(w)
    PROVE  view'[w].role = RoleOf(w) \/ Ahead(w)'
<1>0. ready # <<>> /\ w \in connected /\ w \notin dead
  BY DEF Finish, Expand, Abandon, SendFails, Send, Listening
<1>1. CASE view[w].role = RoleOf(w)
  <2>1. CASE Finish \/ Expand \/ Abandon \/ SendFails
    BY <1>1, <2>1, Zenon DEF Finish, Expand, Abandon, SendFails, deviceVars
  <2>2. CASE Send
    BY <1>1, <2>2, SendTells
  <2> QED BY <2>1, <2>2
<1>2. ASSUME NEW c, Tells(c.ops, w), GoOnWith(c) PROVE Ahead(w)'
  <2>1. c \in InFlight'
    BY <1>0, <1>2, GoOnFlight
  <2> QED BY <1>2, <2>1 DEF Ahead, Tells
<1>3. ASSUME NEW c \in InFlight, Tells(c.ops, w), c # Current PROVE Ahead(w)'
  <2>1. ASSUME c \in InFlight' PROVE Ahead(w)'
    BY <1>3, <2>1 DEF Ahead, Tells
  <2>2. ASSUME NEW d, GoOnWith(d) PROVE Ahead(w)'
    BY <1>0, <1>3, <2>1, <2>2, GoOnFlight
  <2>3. CASE Expand \/ Abandon \/ SendFails
    BY <2>2, <2>3 DEF Expand, Abandon, SendFails
  <2>4. CASE Finish
    BY <1>0, <1>3, <2>1, <2>4, FinishFlight
  <2>5. CASE Send
    BY <1>0, <1>3, <2>1, <2>5, SendFlight
  <2> QED BY <2>3, <2>4, <2>5
<1>4. ASSUME Tells(Current.ops, w) PROVE view'[w].role = RoleOf(w) \/ Ahead(w)'
  <2>1. CASE Finish
    BY <1>4, <2>1 DEF Finish, Tells
  <2>2. CASE Expand
    <3> DEFINE rest == Expansion(NextOp) \o Tail(Current.ops)
    <3>1. /\ Current.ops # <<>> /\ GoOnWith(Task(Current.owner, rest))
          /\ NextOp.kind \notin {"hello", "role"}
      BY <2>2 DEF Expand
    <3>2. Tells(Tail(Current.ops), w)
      BY <1>0, <1>4, <3>1, CurrentTells DEF Rest, Task
    <3>3. Current.ops \in PlainOps
      BY <1>0, <3>1, NextType
    <3>4. Tail(Current.ops) \in Seq(Ops) /\ Expansion(NextOp) \in Seq(Ops)
      BY <2>2, <3>1, <3>3, PlainTail, OpsType, ExpansionType DEF Expand
    <3>5. Tells(rest, w)
      BY <3>2, <3>4, TellsParts
    <3> HIDE DEF rest
    <3>6. Task(Current.owner, rest).ops = rest
      BY DEF Task
    <3> QED BY <1>2, <3>1, <3>5, <3>6
  <2>3. CASE Abandon
    <3>1. Current.ops # <<>> /\ NextOp.to # w
      BY <1>0, <2>3 DEF Abandon
    <3>2. NextOp.kind # "songs"
      BY <1>0, <1>4, <3>1, NextType, SongsTellNoRoles
    <3>3. GoOnWith(Rest)
      BY <2>3, <3>2 DEF Abandon
    <3> QED BY <1>0, <1>2, <1>4, <3>1, <3>3, CurrentTells
  <2>4. CASE SendFails
    <3>1. Current.ops # <<>> /\ NextOp.to # w /\ NextOp.kind # "hello"
      BY <1>0, <2>4, NextType DEF SendFails
    <3>2. GoOnWith(Rest)
      BY <2>4, <3>1 DEF SendFails
    <3> QED BY <1>0, <1>2, <1>4, <3>1, <3>2, CurrentTells
  <2>5. CASE Send
    <3>1. Current.ops # <<>>
      BY <2>5 DEF Send
    <3>2. CASE NextOp.kind \in {"hello", "role"} /\ NextOp.to = w
      BY <2>5, <3>2, SendTells
    <3>3. CASE Tells(Rest.ops, w)
      <4>1. Rest \in InFlight'
        BY <1>0, <2>5, SendFlight
      <4> QED BY <3>3, <4>1 DEF Ahead, Tells
    <3> QED BY <1>0, <1>4, <3>1, <3>2, <3>3, CurrentTells
  <2> QED BY <2>1, <2>2, <2>3, <2>4, <2>5
<1> QED BY <1>1, <1>3, <1>4 DEF Ahead

\* One device told.
LEMMA OneTold ==
    ASSUME NEW w \in Socket
    PROVE  Tells(Announce(<<w>>), w)
<1>1. <<w>> \in Seq(Socket) /\ 1 \in 1..Len(<<w>>) /\ <<w>>[1] = w
  OBVIOUS
<1> QED BY <1>1, AnnounceTells

\* A coroutine that will tell a device.
LEMMA AheadIn ==
    ASSUME NEW w, NEW o, NEW ops, Tells(ops, w), Task(o, ops) \in InFlight'
    PROVE  Ahead(w)'
<1>1. Task(o, ops).ops = ops
  BY DEF Task
<1>2. \E c \in InFlight' : Tells(c.ops, w)
  BY <1>1
<1> QED BY <1>2 DEF Ahead, Tells

\* A handler that ends tells the device that takes control from it.
LEMMA LeaveRoles ==
    ASSUME TypeOK, RolesConsistent, LoopType, RoleInv, Leave
    PROVE  RoleInv'
<1> DEFINE u == NextOp.to
           told == IF primary = u /\ primary' # NoSocket THEN <<primary'>> ELSE <<>>
<1>1. /\ ready # <<>> /\ Current.ops # <<>> /\ NextOp.kind = "leave"
      /\ Disconnect(u) /\ dead' = dead \ {u} /\ view' = view
      /\ GoOnWith(Task(u, Announce(told)))
  BY DEF Leave
<1>2. /\ connected' = connected \ {u} /\ released' = released \ {u}
      /\ primary' # primary => primary = u /\ primary' \in Socket \cup {NoSocket}
  BY <1>1 DEF Disconnect, Unregister, FirstSibling, StartReservation, TypeOK
<1>3. Task(u, Announce(told)) \in InFlight' /\ InFlight \ {Current} \subseteq InFlight'
  BY <1>1, GoOnFlight
<1>4. \A w : ~Tells(Current.ops, w)
  BY <1>1, NextType, SongsTellNoRoles
<1> SUFFICES ASSUME NEW w \in (Listening \ dead)'
             PROVE  view'[w].role = RoleOf(w)' \/ Ahead(w)'
  BY DEF RoleInv
<1>5. w \in Listening \ dead /\ w # u
  BY <1>1, <1>2 DEF Listening
<1>6. CASE RoleOf(w)' = RoleOf(w)
  <2>1. CASE view[w].role = RoleOf(w)
    BY <1>1, <1>6, <2>1
  <2>2. CASE Ahead(w)
    <3>1. PICK c \in InFlight : Tells(c.ops, w)
      BY <2>2 DEF Ahead
    <3>2. c \in InFlight'
      BY <1>3, <1>4, <3>1
    <3> QED BY <3>1, <3>2 DEF Ahead, Tells
  <2> QED BY <1>5, <2>1, <2>2 DEF RoleInv
<1>7. CASE RoleOf(w)' # RoleOf(w)
  <2>1. primary' = w /\ primary = u /\ w # NoSocket /\ w \in Socket
    BY <1>2, <1>5, <1>7, NullAssumption DEF RoleOf, Listening, TypeOK
  <2>2. told = <<w>>
    BY <2>1
  <2>3. Task(u, Announce(<<w>>)) \in InFlight'
    BY <1>3, <2>2
  <2>4. Tells(Announce(<<w>>), w)
    BY <2>1, OneTold
  <2> QED BY <2>3, <2>4, AheadIn
<1> QED BY <1>6, <1>7

\* An event that moves control from one device to another has both told.
LEMMA EventRoles ==
    ASSUME RoleInv, InFlight \subseteq InFlight',
           NEW w \in Listening \ dead, view'[w] = view[w],
           RoleOf(w)' = RoleOf(w) \/ Ahead(w)'
    PROVE  view'[w].role = RoleOf(w)' \/ Ahead(w)'
<1>1. view[w].role = RoleOf(w) \/ Ahead(w)
  BY DEF RoleInv
<1>2. ASSUME Ahead(w) PROVE Ahead(w)'
  BY <1>2 DEF Ahead, Tells
<1> QED BY <1>1, <1>2

\* The same for events that leave the roles, the sockets and the devices alone.
LEMMA NoRoleEvents ==
    ASSUME RoleInv, InFlight \subseteq InFlight', primary' = primary, view' = view,
           Listening' \subseteq Listening, dead \subseteq dead'
    PROVE  RoleInv'
<1> SUFFICES ASSUME NEW w \in (Listening \ dead)'
             PROVE  view'[w].role = RoleOf(w)' \/ Ahead(w)'
  BY DEF RoleInv
<1>1. w \in Listening \ dead /\ view'[w] = view[w] /\ RoleOf(w)' = RoleOf(w)
  BY DEF RoleOf
<1> QED BY <1>1, EventRoles

\* The same for events that move control between connected devices.
LEMMA RoleEvents ==
    ASSUME RoleInv, InFlight \subseteq InFlight', view' = view,
           Listening' \subseteq Listening, dead \subseteq dead',
           \A w \in Listening' : w \in {primary, primary'} => Ahead(w)'
    PROVE  RoleInv'
<1> SUFFICES ASSUME NEW w \in (Listening \ dead)'
             PROVE  view'[w].role = RoleOf(w)' \/ Ahead(w)'
  BY DEF RoleInv
<1>1. w \in Listening \ dead /\ view'[w] = view[w] /\ w \in Listening'
  BY DEF Listening
<1>2. RoleOf(w)' = RoleOf(w) \/ Ahead(w)'
  BY <1>1 DEF RoleOf
<1> QED BY <1>1, <1>2, EventRoles

\* A device that connects is greeted, and the one it supersedes is told.
LEMMA ConnectRoles ==
    ASSUME Consistent, LoopType, RoleInv, NEW w \in Socket, NEW h \in Hello, Connects(w, h)
    PROVE  RoleInv'
<1> DEFINE c == DeclaredClient(h).client_id
           told == IF Supersedes(c) THEN <<primary>> ELSE <<>>
           ops == <<Do("hello", w)>> \o Announce(told)
<1>1. /\ ready = <<>> /\ Connect(w, h) /\ Start(w, ops)
      /\ view' = [view EXCEPT ![w] = NoView] /\ dead' = dead
  BY DEF Connects, Event
<1>2. /\ w \notin connected /\ connected' = connected \cup {w} /\ released' = released
      /\ primary' # primary => primary' = w /\ (Supersedes(c) \/ primary = NoSocket)
  BY <1>1 DEF Connect, Register, Reclaims, TakesEmptySlot, SlotFree, Consistent, RolesConsistent
<1>3. Task(w, ops) \in InFlight' /\ InFlight \subseteq InFlight'
  BY <1>1, StartFlight
<1>4. TypeOK
  BY DEF Consistent
<1>5. told \in Seq(Socket)
  <2>1. CASE Supersedes(c)
    <3>1. primary \in Socket
      BY <1>4, <2>1 DEF Supersedes, TypeOK
    <3> QED BY <2>1, <3>1
  <2>2. CASE ~Supersedes(c)
    BY <2>2
  <2> QED BY <2>1, <2>2
<1>6. /\ Announce(told) \in Seq(Ops \cup {Do("hello", w)})
      /\ <<Do("hello", w)>> \in Seq(Ops \cup {Do("hello", w)})
  <2>1. Announce(told) \in Seq(Ops)
    BY <1>5, AnnounceType, OpsType
  <2> QED BY <2>1
<1>7. Tells(ops, w)
  <2>1. /\ 1 \in DOMAIN <<Do("hello", w)>>
        /\ <<Do("hello", w)>>[1].kind = "hello" /\ <<Do("hello", w)>>[1].to = w
    BY DEF Do, Op
  <2>2. Tells(<<Do("hello", w)>>, w)
    BY <2>1 DEF Tells
  <2> QED BY <1>6, <2>2, TellsParts
<1>8. ASSUME Supersedes(c) PROVE Tells(ops, primary)
  <2>1. told = <<primary>> /\ primary \in Socket
    BY <1>4, <1>8 DEF Supersedes, TypeOK
  <2>2. Tells(Announce(told), primary)
    BY <2>1, OneTold
  <2> QED BY <1>6, <2>2, TellsParts
<1> HIDE DEF ops, c
<1> SUFFICES ASSUME NEW v \in (Listening \ dead)'
             PROVE  view'[v].role = RoleOf(v)' \/ Ahead(v)'
  BY DEF RoleInv
<1>9. CASE v = w
  BY <1>3, <1>7, <1>9, AheadIn
<1>10. CASE v # w
  <2>1. v \in Listening \ dead /\ view'[v] = view[v]
    BY <1>1, <1>2, <1>4, <1>10 DEF Listening, LoopType, TypeOK
  <2>2. CASE primary' = primary
    BY <1>3, <2>1, <2>2, EventRoles DEF RoleOf
  <2>3. CASE primary' # primary
    <3>1. v # NoSocket
      BY <1>4, <2>1, NullAssumption DEF Listening, TypeOK
    <3>2. CASE v = primary
      <4>1. Tells(ops, v)
        BY <1>2, <1>8, <2>3, <3>1, <3>2
      <4> QED BY <1>3, <4>1, AheadIn
    <3>3. CASE v # primary
      <4>1. RoleOf(v)' = RoleOf(v)
        BY <1>2, <1>10, <2>3, <3>3 DEF RoleOf
      <4> QED BY <1>3, <2>1, <4>1, EventRoles
    <3> QED BY <3>2, <3>3
  <2> QED BY <2>2, <2>3
<1> QED BY <1>9, <1>10

\* Two devices told, after other operations.
LEMMA TwoTold ==
    ASSUME NEW notes \in Seq(RoleOp), NEW v \in Socket, NEW w \in Socket
    PROVE  /\ Tells(notes \o Announce(<<v, w>>), v) /\ Tells(notes \o Announce(<<v, w>>), w)
           /\ Tells(notes \o Announce(<<v>>), v)
<1>1. /\ <<v, w>> \in Seq(Socket) /\ 1 \in 1..Len(<<v, w>>) /\ 2 \in 1..Len(<<v, w>>)
      /\ <<v, w>>[1] = v /\ <<v, w>>[2] = w /\ <<v>> \in Seq(Socket)
  OBVIOUS
<1>2. Tells(Announce(<<v, w>>), v) /\ Tells(Announce(<<v, w>>), w) /\ Tells(Announce(<<v>>), v)
  BY <1>1, AnnounceTells, OneTold
<1>3. Announce(<<v, w>>) \in Seq(RoleOp) /\ Announce(<<v>>) \in Seq(RoleOp)
  BY <1>1, AnnounceType
<1> QED BY <1>2, <1>3, TellsParts

\* Each event that changes roles has the devices concerned told.
LEMMA WorldRoles ==
    ASSUME Consistent, LoopType, RoleInv, World
    PROVE  RoleInv'
<1>0. TypeOK /\ RolesConsistent
  BY DEF Consistent
<1>1. ASSUME NEW w \in Socket, NEW id \in RequestId, Requests(w, id) PROVE RoleInv'
  <2>1. /\ ready = <<>> /\ view' = view /\ dead' = dead /\ Listening' = Listening
        /\ \/ primary = NoSocket /\ primary' = w /\ Start(w, Announce(<<w>>))
           \/ primary' = primary /\ \E ops : Start(w, ops)
    BY <1>1 DEF Requests, Event, RequestControl, SlotFree, deviceVars, socketVars, Listening
  <2>2. InFlight \subseteq InFlight'
    BY <2>1, StartFlight
  <2>3. CASE primary' = primary
    BY <2>1, <2>2, <2>3, NoRoleEvents
  <2>4. CASE primary = NoSocket /\ primary' = w /\ Start(w, Announce(<<w>>))
    <3>1. Ahead(w)'
      BY <2>1, <2>4, StartFlight, OneTold, AheadIn
    <3>2. NoSocket \notin Listening'
      BY <1>0, <2>1, NullAssumption DEF Listening, TypeOK
    <3>3. \A v \in Listening' : v \in {primary, primary'} => v = w
      BY <2>4, <3>2
    <3>4. \A v \in Listening' : v \in {primary, primary'} => Ahead(v)'
      BY <3>1, <3>3 DEF Ahead, Tells
    <3> QED BY <2>1, <2>2, <3>4, RoleEvents
  <2> QED BY <2>1, <2>3, <2>4
<1>2. ASSUME NEW w \in Socket, Cancels(w) PROVE RoleInv'
  <2>1. /\ ready = <<>> /\ view' = view /\ dead' = dead /\ Listening' = Listening
        /\ primary' = primary /\ \E ops : Start(w, ops)
    BY <1>2 DEF Cancels, Event, CancelRequest, deviceVars, socketVars, Listening
  <2> QED BY <2>1, StartFlight, NoRoleEvents
<1>3. ASSUME NEW w \in Socket, NEW accept \in BOOLEAN, Responds(w, accept) PROVE RoleInv'
  <2> DEFINE r == request.requester
             changed == <<r>> \o IF r = w THEN <<>> ELSE <<w>>
  <2>1. /\ ready = <<>> /\ view' = view /\ dead' = dead /\ Listening' = Listening
        /\ primary = w /\ r \in Socket
        /\ \/ primary' = r /\ Start(w, Announce(changed))
           \/ primary' = primary /\ \E ops : Start(w, ops)
    <3>1. r \in Socket
      BY <1>0, <1>3, RequesterOfPending DEF Responds, Respond
    <3>2. CASE accept
      BY <1>3, <3>1, <3>2 DEF Responds, Event, Respond, deviceVars, socketVars, Listening
    <3>3. CASE ~accept
      BY <1>3, <3>1, <3>3 DEF Responds, Event, Respond, deviceVars, socketVars, Listening
    <3> QED BY <3>2, <3>3
  <2>2. InFlight \subseteq InFlight'
    BY <2>1, StartFlight
  <2>3. CASE primary' = primary
    BY <2>1, <2>2, <2>3, NoRoleEvents
  <2>4. CASE primary' = r /\ Start(w, Announce(changed))
    <3>1. Tells(Announce(changed), r) /\ Tells(Announce(changed), w)
      <4>1. CASE r = w
        <5>1. changed = <<w>>
          BY <4>1
        <5> QED BY <4>1, <5>1, OneTold
      <4>2. CASE r # w
        <5>1. changed = <<r>> \o <<w>>
          BY <4>2
        <5>2. r \in Socket
          BY <2>1
        <5> HIDE DEF r, changed
        <5>3. /\ changed \in Seq(Socket) /\ 1 \in 1..Len(changed) /\ 2 \in 1..Len(changed)
              /\ changed[1] = r /\ changed[2] = w
          <6>1. <<r>> \in Seq(Socket) /\ <<w>> \in Seq(Socket)
            BY <5>2
          <6> QED BY <5>1, <6>1
        <5> QED BY <5>3, AnnounceTells
      <4> QED BY <4>1, <4>2
    <3>2. Task(w, Announce(changed)) \in InFlight'
      BY <2>1, <2>4, StartFlight
    <3>3. \A v \in Listening' : v \in {primary, primary'} => Tells(Announce(changed), v)
      BY <2>1, <2>4, <3>1
    <3> HIDE DEF changed
    <3>4. \A v \in Listening' : v \in {primary, primary'} => Ahead(v)'
      BY <3>2, <3>3, AheadIn
    <3> QED BY <2>1, <2>2, <3>4, RoleEvents
  <2> QED BY <2>1, <2>3, <2>4
<1>4. ASSUME NEW w \in Socket, NEW target \in Socket, Grants(w, target) PROVE RoleInv'
  <2>1. PICK notes \in {<<>>, <<Do("note", request.requester)>>} :
            /\ notes # <<>> => Pending
            /\ Start(w, notes \o Announce(<<target, w>>))
    BY <1>4 DEF Grants
  <2>2. /\ ready = <<>> /\ view' = view /\ dead' = dead /\ Listening' = Listening
        /\ primary = w /\ primary' = target
    BY <1>4 DEF Grants, Event, Grant, deviceVars, socketVars, Listening
  <2>3. notes \in Seq(RoleOp)
    <3>1. CASE notes = <<>>
      BY <3>1
    <3>2. CASE notes = <<Do("note", request.requester)>>
      <4>1. request.requester \in Socket
        BY <1>0, <2>1, <3>2, RequesterOfPending
      <4> QED BY <3>2, <4>1, RoleTask
    <3> QED BY <2>1, <3>1, <3>2
  <2> DEFINE ops == notes \o Announce(<<target, w>>)
  <2>4. Tells(ops, target) /\ Tells(ops, w)
    BY <2>3, TwoTold
  <2>5. Task(w, ops) \in InFlight' /\ InFlight \subseteq InFlight'
    BY <2>1, <2>2, StartFlight
  <2> HIDE DEF ops
  <2>6. \A v \in Listening' : v \in {primary, primary'} => Ahead(v)'
    BY <2>2, <2>4, <2>5, AheadIn
  <2> QED BY <2>2, <2>5, <2>6, RoleEvents
<1>5. ASSUME NEW w \in Socket, Releases(w) PROVE RoleInv'
  <2> DEFINE r == request.requester
             told == IF Pending THEN <<r>> ELSE <<>>
             ops == <<Do("note", w), Do("close", w)>> \o Announce(told)
  <2>1. /\ ready = <<>> /\ view' = view /\ dead' = dead /\ Start(w, ops)
        /\ Listening' = Listening \ {w} /\ primary = w /\ primary' = r
    BY <1>5 DEF Releases, Event, Release, deviceVars, Listening
  <2>2. <<Do("note", w), Do("close", w)>> \in Seq(RoleOp)
    <3>1. Do("note", w) \in RoleOp /\ Do("close", w) \in RoleOp
      BY RoleTask
    <3> QED BY <3>1
  <2>3. Task(w, ops) \in InFlight' /\ InFlight \subseteq InFlight'
    BY <2>1, StartFlight
  <2>4. ASSUME NEW v \in Listening', v \in {primary, primary'} PROVE Ahead(v)'
    <3>1. v = r /\ v \in Socket
      BY <1>0, <2>1, <2>4 DEF Listening, TypeOK
    <3>2. Pending
      BY <1>0, <3>1, RequesterOfPending
    <3>3. Tells(ops, v)
      BY <2>2, <3>1, <3>2, TwoTold
    <3> HIDE DEF ops
    <3> QED BY <2>3, <3>3, AheadIn
  <2>5. Listening' \subseteq Listening /\ dead \subseteq dead'
    BY <2>1
  <2> HIDE DEF ops
  <2> QED BY <2>1, <2>3, <2>4, <2>5, RoleEvents
<1>6. ASSUME NEW w \in Socket, AnswersTooLate(w) \/ Registers(w) \/ Refreshes(w) PROVE RoleInv'
  <2>1. /\ ready = <<>> /\ view' = view /\ dead' = dead /\ Listening' = Listening
        /\ primary' = primary /\ \E ops : Start(w, ops)
    BY <1>6 DEF AnswersTooLate, Registers, Refreshes, Event, deviceVars, vars, socketVars, Listening
  <2> QED BY <2>1, StartFlight, NoRoleEvents
<1>7. CASE SongsChange
  <2>1. /\ ready = <<>> /\ view' = view /\ dead' = dead /\ Listening' = Listening
        /\ primary' = primary /\ \E ops : Start(NoSocket, ops)
    BY <1>7 DEF SongsChange, Event, vars, socketVars, Listening
  <2> QED BY <2>1, StartFlight, NoRoleEvents
<1>8. CASE HoldEnds
  <2>1. PICK t \in holdTimers : ReservationExpiry(t)
    BY <1>8 DEF HoldEnds
  <2>2. /\ ready = <<>> /\ view' = view /\ dead' = dead /\ Listening' = Listening
        /\ Pending => Start(NoSocket, Announce(<<request.requester>>))
        /\ ~Pending => UNCHANGED loopVars
    BY <1>8, <2>1 DEF HoldEnds, Event, ReservationExpiry, deviceVars, socketVars, Listening
  <2>3. InFlight \subseteq InFlight'
    <3>1. CASE Pending
      BY <2>2, <3>1, StartFlight
    <3>2. CASE ~Pending
      BY <2>2, <3>2 DEF loopVars, InFlight
    <3> QED BY <3>1, <3>2
  <2>4. CASE primary' = primary
    BY <2>2, <2>3, <2>4, NoRoleEvents
  <2>5. CASE primary' # primary
    <3>1. primary = NoSocket /\ Pending /\ primary' = request.requester
      BY <2>1, <2>5 DEF ReservationExpiry
    <3>2. request.requester \in Socket
      BY <1>0, <3>1, RequesterOfPending
    <3>3. NoSocket \notin Listening'
      BY <1>0, <2>2, NullAssumption DEF Listening, TypeOK
    <3>4. ASSUME NEW v \in Listening', v \in {primary, primary'} PROVE Ahead(v)'
      <4>1. v = request.requester
        BY <3>1, <3>3, <3>4
      <4>2. Tells(Announce(<<v>>), v) /\ Task(NoSocket, Announce(<<v>>)) \in InFlight'
        BY <2>2, <3>1, <3>2, <4>1, OneTold, StartFlight
      <4> QED BY <4>2, AheadIn
    <3> QED BY <2>2, <2>3, <3>4, RoleEvents
  <2> QED BY <2>4, <2>5
<1>9. CASE RequestEnds
  <2>1. /\ ready = <<>> /\ view' = view /\ dead' = dead /\ Listening' = Listening
        /\ primary' = primary /\ \E ops : Start(NoSocket, ops)
    BY <1>9 DEF RequestEnds, Event, RequestExpiry, deviceVars, socketVars, Listening
  <2> QED BY <2>1, StartFlight, NoRoleEvents
<1>10. CASE TimePasses \/ \E w \in Socket : Stalls(w)
  <2>1. /\ view' = view /\ dead' = dead /\ Listening' = Listening
        /\ primary' = primary /\ ready' = ready /\ parked' = parked
    BY <1>10 DEF TimePasses, Tick, Stalls, deviceVars, loopVars, vars, socketVars, Listening
  <2>2. InFlight \subseteq InFlight'
    BY <2>1 DEF InFlight
  <2> QED BY <2>1, <2>2, NoRoleEvents
<1>11. ASSUME NEW w \in Socket, Drains(w) PROVE RoleInv'
  <2>1. /\ ready = <<>> /\ ready' = parked[w] /\ parked' = [parked EXCEPT ![w] = <<>>]
        /\ view' = view /\ dead' = dead /\ Listening' = Listening /\ primary' = primary
    BY <1>11 DEF Drains, vars, socketVars, Listening
  <2>2. parked[w] = parked[w] \o <<>> /\ <<>> \in Seq(PlainTask)
    BY DEF LoopType
  <2>3. InFlight \subseteq InFlight'
    BY <2>1, <2>2, WakeFlight
  <2> QED BY <2>1, <2>3, NoRoleEvents
<1>12. ASSUME NEW w \in Socket, Drops(w) PROVE RoleInv'
  <2>1. PICK more \in {<<>>, <<Leaving(w)>>} :
            /\ ready = <<>> /\ ready' = parked[w] \o more /\ parked' = [parked EXCEPT ![w] = <<>>]
            /\ view' = view /\ dead \subseteq dead' /\ Listening' = Listening /\ primary' = primary
    BY <1>12 DEF Drops, Event, vars, socketVars, Listening
  <2>2. more \in Seq(PlainTask)
    <3>1. CASE more = <<>>
      BY <3>1
    <3>2. CASE more = <<Leaving(w)>>
      BY <3>2, LeavingType
    <3> QED BY <2>1, <3>1, <3>2
  <2>3. InFlight \subseteq InFlight'
    BY <2>1, <2>2, WakeFlight
  <2> QED BY <2>1, <2>3, NoRoleEvents
<1> QED BY <1>1, <1>2, <1>3, <1>4, <1>5, <1>6, <1>7, <1>8, <1>9, <1>10, <1>11, <1>12, ConnectRoles,
        Zenon DEF World

-----------------------------------------------------------------------------
(* The theorem *)

\* The inductive invariant: the manager's own, the order of the sockets, the kinds of
\* coroutines there are, and that nobody is forgotten.
Informed == Consistent /\ OrderInv /\ LoopType /\ RoleInv

\* Nobody is connected at first, and nothing is under way.
LEMMA InformedInit == LoopInit => Informed
<1> SUFFICES ASSUME LoopInit PROVE Informed
  OBVIOUS
<1>1. Consistent
  BY ConsistentInit DEF LoopInit
<1>2. OrderInv
  BY FS_EmptySet DEF LoopInit, Init, OrderInv
<1>3. NoView \in View
  BY DEF NoView, View, Texts
<1>4. LoopType
  BY <1>3 DEF LoopInit, LoopType
<1>5. RoleInv
  BY DEF LoopInit, Init, RoleInv, Listening
<1> QED BY <1>1, <1>2, <1>4, <1>5 DEF Informed

\* Every step keeps the invariant.
LEMMA InformedStep == Informed /\ [LoopNext]_allVars => Informed'
<1> SUFFICES ASSUME Informed, [LoopNext]_allVars PROVE Informed'
  OBVIOUS
<1>1. TypeOK /\ RolesConsistent /\ Consistent /\ OrderInv /\ LoopType /\ RoleInv
  BY DEF Informed, Consistent
<1>2. [Next]_vars
  BY <1>1, ManagerUnderneath
<1>3. Consistent' /\ OrderInv' /\ TypeOK'
  BY <1>1, <1>2, ConsistentStep, OrderStep DEF Consistent
<1>4. LoopType'
  BY <1>1, <1>3, LoopTypeStep
<1>5. RoleInv'
  <2>1. CASE Finish \/ Expand \/ Abandon \/ SendFails \/ Send
    <3>1. UNCHANGED vars /\ dead \subseteq dead'
      BY <2>1 DEF Finish, Expand, Abandon, SendFails, Send, deviceVars
    <3>2. primary' = primary /\ Listening' = Listening
      BY <3>1 DEF vars, socketVars, Listening
    <3> SUFFICES ASSUME NEW w \in (Listening \ dead)'
                 PROVE  view'[w].role = RoleOf(w)' \/ Ahead(w)'
      BY DEF RoleInv
    <3>3. w \in Listening \ dead /\ RoleOf(w)' = RoleOf(w)
      BY <3>1, <3>2 DEF RoleOf
    <3> QED BY <1>1, <2>1, <3>3, EventLoopRoles DEF RoleInv
  <2>2. CASE Leave
    BY <1>1, <2>2, LeaveRoles
  <2>3. CASE World
    BY <1>1, <2>3, WorldRoles
  <2>4. CASE UNCHANGED allVars
    <3>1. /\ primary' = primary /\ view' = view /\ dead' = dead /\ Listening' = Listening
          /\ ready' = ready /\ parked' = parked
      BY <2>4 DEF allVars, vars, socketVars, loopVars, deviceVars, Listening
    <3>2. InFlight \subseteq InFlight'
      BY <3>1 DEF InFlight
    <3> QED BY <1>1, <3>1, <3>2, NoRoleEvents
  <2> QED BY <2>1, <2>2, <2>3, <2>4 DEF LoopNext, EventLoop
<1> QED BY <1>3, <1>4, <1>5 DEF Informed

\* Once nothing is left to send, every device knows its role, whatever the order in
\* which devices come and go, ask, answer and grant, and whichever sends had to wait:
\* a snapshot looks the role up as it is sent, and every change of roles has both
\* devices told by a coroutine that nothing cuts short.
THEOREM RolesAlwaysTold == LoopSpec => []RolesTold
<1>1. Informed => RolesTold
  <2> SUFFICES ASSUME Informed, Quiet, NEW w \in Attached PROVE view[w].role = RoleOf(w)
    BY DEF RolesTold
  <2>1. view[w].role = RoleOf(w) \/ Ahead(w)
    BY DEF Informed, RoleInv, Attached
  <2> QED BY <2>1 DEF Ahead, Quiet
<1> QED BY <1>1, InformedInit, InformedStep, PTL DEF LoopSpec
=============================================================================
