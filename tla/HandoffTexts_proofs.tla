------------------------ MODULE HandoffTexts_proofs ------------------------
(***************************************************************************)
(* Proofs about the handoff texts of Announcements, for any devices and    *)
(* any number of events, while at most one socket is stalled at a time:    *)
(* in the end every device that understands them shows the request that is *)
(* pending.  (With two sockets stalled a newer text can overtake an older  *)
(* one, and the theorem is false.)                                         *)
(*                                                                         *)
(* The argument: a device that does not show the pending request has a     *)
(* coroutine ahead that will send it (NotLost), and an outdated text on    *)
(* its way to the device has such a coroutine behind it (ReadyInv,         *)
(* ParkedInv).  A text is composed when its broadcast starts and goes out  *)
(* in the order of connection, so what waits at the stalled socket is for  *)
(* devices that connected later (BehindInv), and every newer text has to   *)
(* come by that socket, and wait there in its place, before it gets to     *)
(* them (TellsBoth).  The other parts of PromptInv say what coroutines     *)
(* look like (ShapesInv), who waits where (WaitsInv), that a handler       *)
(* leaves last (LeavingInv), and that while a socket is stalled nothing    *)
(* older than the last event is running (FreshInv).                        *)
(***************************************************************************)
EXTENDS Announcements_proofs

-----------------------------------------------------------------------------
(* Handoff texts: what the coroutines have ahead *)

Coroutine == [owner : Socket \cup {NoSocket}, ops : Seq(Ops)]

\* The operations of one coroutine: those that send a handoff text, that a new text is to
\* be composed, that w will be sent r, or something else.
Prompts(ops) == {i \in DOMAIN ops : ops[i].kind = "prompt"}
Composes(ops) == \E i \in DOMAIN ops : ops[i].kind = "broadcast_handoff"
Updates(ops, w, r) == Composes(ops) \/ \E i \in Prompts(ops) : ops[i].to = w /\ ops[i].text = r
Outdated(ops, w, r) == \E i \in Prompts(ops) : ops[i].to = w /\ ops[i].text # r
Leaves(ops, w) == \E i \in DOMAIN ops : ops[i].kind = "leave" /\ ops[i].to = w
Closes(ops, w) == ops # <<>> /\ Head(ops).kind = "close" /\ Head(ops).to = w

SongKinds == {"songs", "broadcast_full_state"}

\* What coroutines of owner o look like: handoff texts come first and are the same text;
\* they are composed once, and by a coroutine that has no others; a handler closes its own
\* socket after a note to it; songs, and leaving, are tasks of their own.
Shaped(o, ops) ==
    /\ \A i \in Prompts(ops) : \A j \in 1..i : j \in Prompts(ops) /\ ops[j].text = ops[i].text
    /\ \A i \in DOMAIN ops : ops[i].kind = "broadcast_handoff" =>
           Prompts(ops) = {} /\ \A j \in DOMAIN ops : ops[j].kind = "broadcast_handoff" => j = i
    /\ \A i \in DOMAIN ops : ops[i].kind = "close" =>
           /\ ops[i].to = o /\ Prompts(ops) = {}
           /\ i = 1 \/ (i = 2 /\ ops[1].kind = "note" /\ ops[1].to = o)
    /\ \A i \in DOMAIN ops : ops[i].kind \in SongKinds => \A j \in DOMAIN ops : ops[j].kind \in SongKinds
    /\ \A i \in DOMAIN ops : ops[i].kind = "leave" => DOMAIN ops = {1}

\* All coroutines, seen alike.
LEMMA CoroutineType ==
    ASSUME TypeOK, LoopType
    PROVE  ready \in Seq(Coroutine) /\ parked \in [Socket -> Seq(Coroutine)]
<1>1. PlainTask \subseteq Coroutine
  <2>1. PlainOps \subseteq Seq(Ops)
    BY OpsType
  <2> QED BY <2>1 DEF PlainTask, Coroutine
<1>2. Seq(PlainTask) \subseteq Seq(Coroutine)
  BY <1>1
<1>3. parked \in [Socket -> Seq(Coroutine)]
  BY <1>2 DEF LoopType
<1>4. ASSUME NEW c, ready = <<c>>, Greets(c) PROVE ready \in Seq(Coroutine)
  <2>1. PICK o \in Socket \cup {NoSocket}, w \in connected \ dead, rest \in PlainOps :
            c = Task(o, <<Do("hello", w)>> \o rest)
    BY <1>4, Zenon DEF Greets
  <2>2. Do("hello", w) \in Ops
    BY <2>1, DoType DEF TypeOK, Kinds, SendKinds
  <2>3. rest \in Seq(Ops) /\ <<Do("hello", w)>> \in Seq(Ops)
    BY <2>2, OpsType
  <2>4. <<Do("hello", w)>> \o rest \in Seq(Ops)
    BY <2>3
  <2>5. c \in Coroutine
    BY <2>1, <2>4 DEF Task, Coroutine
  <2> QED BY <1>4, <2>5
<1> QED BY <1>2, <1>3, <1>4 DEF LoopType

\* What is left of a coroutine of this shape is of this shape.
LEMMA TailShaped ==
    ASSUME NEW o, NEW ops \in Seq(Ops), ops # <<>>, Shaped(o, ops)
    PROVE  /\ Tail(ops) \in Seq(Ops) /\ DOMAIN Tail(ops) = 1..Len(ops) - 1
           /\ \A i \in 1..Len(ops) - 1 : i + 1 \in DOMAIN ops /\ Tail(ops)[i] = ops[i + 1]
           /\ Shaped(o, Tail(ops))
<1> DEFINE rest == Tail(ops)
<1>1. /\ rest \in Seq(Ops) /\ DOMAIN rest = 1..Len(ops) - 1 /\ Len(ops) \in Nat \ {0}
      /\ DOMAIN ops = 1..Len(ops) /\ \A i \in 1..Len(ops) - 1 : i + 1 \in DOMAIN ops /\ rest[i] = ops[i + 1]
  OBVIOUS
<1> HIDE DEF rest
<1>2. \A i \in DOMAIN rest : i + 1 \in DOMAIN ops /\ rest[i] = ops[i + 1] /\ i \in Nat \ {0}
  BY <1>1
<1>3. \A i \in Prompts(rest) : i + 1 \in Prompts(ops)
  BY <1>2 DEF Prompts
<1>4. Prompts(ops) = {} => Prompts(rest) = {}
  BY <1>3
<1>5. ASSUME NEW i \in Prompts(rest), NEW j \in 1..i
      PROVE  j \in Prompts(rest) /\ rest[j].text = rest[i].text
  <2>1. i \in DOMAIN rest /\ i + 1 \in Prompts(ops)
    BY <1>3 DEF Prompts
  <2>2. j \in DOMAIN rest /\ j + 1 \in 1..i + 1
    BY <1>1, <2>1
  <2>3. j + 1 \in Prompts(ops) /\ ops[j + 1].text = ops[i + 1].text
    BY <2>1, <2>2, Zenon DEF Shaped
  <2>4. rest[j] = ops[j + 1] /\ rest[i] = ops[i + 1]
    BY <1>2, <2>1, <2>2
  <2> QED BY <2>2, <2>3, <2>4 DEF Prompts
<1>6. ASSUME NEW i \in DOMAIN rest, rest[i].kind = "broadcast_handoff"
      PROVE  Prompts(rest) = {} /\ \A j \in DOMAIN rest : rest[j].kind = "broadcast_handoff" => j = i
  <2>1. i + 1 \in DOMAIN ops /\ ops[i + 1].kind = "broadcast_handoff"
    BY <1>2, <1>6
  <2>2. /\ Prompts(ops) = {}
        /\ \A j \in DOMAIN ops : ops[j].kind = "broadcast_handoff" => j = i + 1
    BY <2>1, Zenon DEF Shaped
  <2>3. ASSUME NEW j \in DOMAIN rest, rest[j].kind = "broadcast_handoff" PROVE j = i
    <3>1. j + 1 \in DOMAIN ops /\ ops[j + 1].kind = "broadcast_handoff"
      BY <1>2, <2>3
    <3>2. j + 1 = i + 1
      BY <2>2, <3>1
    <3> QED BY <1>2, <2>3, <3>2
  <2> QED BY <1>4, <2>2, <2>3
<1>7. ASSUME NEW i \in DOMAIN rest, rest[i].kind = "close"
      PROVE  rest[i].to = o /\ Prompts(rest) = {} /\ i = 1
  <2>1. i + 1 \in DOMAIN ops /\ ops[i + 1].kind = "close" /\ rest[i] = ops[i + 1]
    BY <1>2, <1>7
  <2>2. ops[i + 1].to = o /\ Prompts(ops) = {} /\ (i + 1 = 1 \/ i + 1 = 2)
    BY <2>1, Zenon DEF Shaped
  <2> QED BY <1>2, <1>4, <1>7, <2>1, <2>2
<1>8. ASSUME NEW i \in DOMAIN rest, rest[i].kind \in SongKinds, NEW j \in DOMAIN rest
      PROVE  rest[j].kind \in SongKinds
  <2>1. i + 1 \in DOMAIN ops /\ ops[i + 1].kind \in SongKinds /\ j + 1 \in DOMAIN ops /\ rest[j] = ops[j + 1]
    BY <1>2, <1>8
  <2> QED BY <2>1, Zenon DEF Shaped
<1>9. ASSUME NEW i \in DOMAIN rest, rest[i].kind = "leave" PROVE FALSE
  <2>1. i + 1 \in DOMAIN ops /\ ops[i + 1].kind = "leave"
    BY <1>2, <1>9
  <2>2. DOMAIN ops = {1}
    BY <2>1, Zenon DEF Shaped
  <2> QED BY <1>2, <1>9, <2>1, <2>2
<1>10. Shaped(o, rest)
  BY <1>5, <1>6, <1>7, <1>8, <1>9, Zenon DEF Shaped
<1> QED BY <1>1, <1>10 DEF rest

\* s is b after a, place by place.
Joined(s, a, b) ==
    /\ Len(a) \in Nat /\ DOMAIN a = 1..Len(a) /\ Len(b) \in Nat /\ DOMAIN b = 1..Len(b)
    /\ Len(s) = Len(a) + Len(b) /\ DOMAIN s = 1..Len(a) + Len(b)
    /\ \A i \in DOMAIN a : i \in DOMAIN s /\ s[i] = a[i]
    /\ \A i \in DOMAIN b : Len(a) + i \in DOMAIN s /\ s[Len(a) + i] = b[i]
    /\ \A i \in DOMAIN s : i \in DOMAIN a \/ (i > Len(a) /\ \E j \in DOMAIN b : i = Len(a) + j)

\* One list after another.
LEMMA ListAfterList ==
    ASSUME NEW S, NEW a \in Seq(S), NEW b \in Seq(S)
    PROVE  a \o b \in Seq(S) /\ Joined(a \o b, a, b)
<1> DEFINE s == a \o b
<1>1. /\ s \in Seq(S) /\ DOMAIN s = 1..Len(a) + Len(b) /\ Len(s) = Len(a) + Len(b)
      /\ Len(a) \in Nat /\ Len(b) \in Nat /\ DOMAIN a = 1..Len(a) /\ DOMAIN b = 1..Len(b)
      /\ \A i \in 1..Len(a) : s[i] = a[i]
      /\ \A i \in 1..Len(b) : s[Len(a) + i] = b[i]
  OBVIOUS
<1> HIDE DEF s
<1>2. ASSUME NEW i \in DOMAIN s, i \notin DOMAIN a PROVE i > Len(a) /\ \E j \in DOMAIN b : i = Len(a) + j
  <2>1. i - Len(a) \in DOMAIN b /\ i = Len(a) + (i - Len(a)) /\ i > Len(a)
    BY <1>1, <1>2
  <2> QED BY <2>1
<1>3. \A i \in DOMAIN a : i \in DOMAIN s /\ s[i] = a[i]
  BY <1>1
<1>4. \A i \in DOMAIN b : Len(a) + i \in DOMAIN s /\ s[Len(a) + i] = b[i]
  BY <1>1
<1>5. Joined(s, a, b)
  BY <1>1, <1>2, <1>3, <1>4, Zenon DEF Joined
<1> QED BY <1>1, <1>5 DEF s

\* What announce sends.
LEMMA AnnounceSends ==
    ASSUME NEW changed \in Seq(Socket)
    PROVE  /\ Announce(changed) \in Seq(Ops) /\ Len(Announce(changed)) = Len(changed) + 2
           /\ \A i \in DOMAIN Announce(changed) :
                  Announce(changed)[i].kind =
                      IF i = Len(changed) + 1 THEN "broadcast_handoff"
                      ELSE IF i = Len(changed) + 2 THEN "broadcast_roster" ELSE "role"
<1> DEFINE told == ToEach(changed, "role", NoRequest)
           last == <<Do("broadcast_handoff", NoSocket), Do("broadcast_roster", NoSocket)>>
           n == Len(changed)
<1>1. n \in Nat /\ changed \in [1..n -> Socket]
  OBVIOUS
<1>2. told \in [1..n -> Ops] /\ \A i \in 1..n : told[i].kind = "role"
  <2>1. \A i \in 1..n : Op("role", changed[i], NoRequest) \in Ops /\ Op("role", changed[i], NoRequest).kind = "role"
    BY <1>1 DEF Op, Ops, Texts, Kinds, SendKinds
  <2>2. told = [i \in 1..n |-> Op("role", changed[i], NoRequest)]
    BY <1>1 DEF ToEach
  <2> HIDE DEF told
  <2> QED BY <2>1, <2>2
<1>3. told \in Seq(Ops) /\ Len(told) = n /\ DOMAIN told = 1..n
  <2> HIDE DEF told, n
  <2> QED BY <1>1, <1>2
<1>4. /\ last \in Seq(Ops) /\ Len(last) = 2 /\ DOMAIN last = 1..2
      /\ last[1].kind = "broadcast_handoff" /\ last[2].kind = "broadcast_roster"
  <2>1. /\ Do("broadcast_handoff", NoSocket) \in Ops /\ Do("broadcast_roster", NoSocket) \in Ops
        /\ Do("broadcast_handoff", NoSocket).kind = "broadcast_handoff"
        /\ Do("broadcast_roster", NoSocket).kind = "broadcast_roster"
    BY DoType DEF Kinds, SendKinds
  <2> QED BY <2>1
<1>5. Announce(changed) = told \o last
  BY DEF Announce
<1> HIDE DEF told, last, n
<1>6. /\ told \o last \in Seq(Ops) /\ DOMAIN (told \o last) = 1..n + 2
      /\ \A i \in 1..n : (told \o last)[i] = told[i]
      /\ (told \o last)[n + 1] = last[1] /\ (told \o last)[n + 2] = last[2]
  <2>1. told \o last \in Seq(Ops) /\ Joined(told \o last, told, last)
    BY <1>3, <1>4, ListAfterList
  <2>2. 1 \in DOMAIN last /\ 2 \in DOMAIN last
    BY <1>4
  <2> QED BY <1>3, <1>4, <2>1, <2>2 DEF Joined
<1>7. Len(told \o last) = n + 2
  BY <1>1, <1>6
<1>8. ASSUME NEW i \in 1..n + 2
      PROVE  (told \o last)[i].kind = IF i = n + 1 THEN "broadcast_handoff"
                                      ELSE IF i = n + 2 THEN "broadcast_roster" ELSE "role"
  <2>1. i \in 1..n \/ i = n + 1 \/ i = n + 2
    BY <1>1, <1>8
  <2>2. i \in 1..n => i # n + 1 /\ i # n + 2
    BY <1>1
  <2>3. n + 1 # n + 2
    BY <1>1
  <2> QED BY <1>2, <1>4, <1>6, <2>1, <2>2, <2>3
<1> QED BY <1>5, <1>6, <1>7, <1>8 DEF n

\* What a coroutine does at its start that will compose a handoff text.
Introduces(o, pre) ==
    /\ \A i \in DOMAIN pre : pre[i].kind \in {"hello", "note", "close"}
    /\ \A i \in DOMAIN pre : pre[i].kind = "close" =>
           i = 2 /\ pre[2].to = o /\ pre[1].kind = "note" /\ pre[1].to = o

\* A new coroutine is of that shape, and leaves or closes nothing first.
Proper(o, ops) ==
    /\ Shaped(o, ops) /\ \A w : ~Leaves(ops, w) /\ ~Closes(ops, w)

\* Such a coroutine is of the shape all have, whatever roles it announces.
LEMMA AnnounceShaped ==
    ASSUME NEW o, NEW pre \in Seq(Ops), Introduces(o, pre), NEW changed \in Seq(Socket)
    PROVE  /\ Proper(o, pre \o Announce(changed)) /\ Composes(pre \o Announce(changed))
           /\ Prompts(pre \o Announce(changed)) = {}
<1> DEFINE a == Announce(changed)
           n == Len(changed)
           k == Len(pre)
           s == pre \o a
<1>1. /\ a \in Seq(Ops) /\ n \in Nat /\ k \in Nat /\ DOMAIN a = 1..n + 2
      /\ \A i \in DOMAIN a : a[i].kind = IF i = n + 1 THEN "broadcast_handoff"
                                         ELSE IF i = n + 2 THEN "broadcast_roster" ELSE "role"
  BY AnnounceSends
<1>2. /\ s \in Seq(Ops) /\ DOMAIN s = 1..k + Len(a)
      /\ \A i \in DOMAIN pre : i \in DOMAIN s /\ s[i] = pre[i]
      /\ \A i \in DOMAIN a : k + i \in DOMAIN s /\ s[k + i] = a[i]
      /\ \A i \in DOMAIN s : i \in DOMAIN pre \/ \E j \in DOMAIN a : i = k + j
  <2>1. a \in Seq(Ops)
    BY <1>1
  <2> HIDE DEF a
  <2>2. s \in Seq(Ops) /\ Joined(s, pre, a)
    BY <2>1, ListAfterList
  <2> HIDE DEF s
  <2> QED BY <2>2, Zenon DEF Joined
<1> HIDE DEF a, n, s
<1>3. \A i \in DOMAIN pre : pre[i].kind \in {"hello", "note", "close"} /\ s[i] = pre[i] /\ i \in 1..k
  BY <1>2 DEF Introduces
<1>4. /\ k + (n + 1) \in DOMAIN s /\ s[k + (n + 1)].kind = "broadcast_handoff"
      /\ \A i \in DOMAIN s : /\ s[i].kind \in {"hello", "note", "close", "role", "broadcast_handoff", "broadcast_roster"}
                             /\ s[i].kind = "broadcast_handoff" => i = k + (n + 1)
                             /\ s[i].kind = "close" => i \in DOMAIN pre
  <2>1. n + 1 \in DOMAIN a
    BY <1>1
  <2>2. s[k + (n + 1)].kind = "broadcast_handoff" /\ k + (n + 1) \in DOMAIN s
    BY <1>1, <1>2, <2>1
  <2>3. ASSUME NEW i \in DOMAIN s
        PROVE  /\ s[i].kind \in {"hello", "note", "close", "role", "broadcast_handoff", "broadcast_roster"}
               /\ s[i].kind = "broadcast_handoff" => i = k + (n + 1)
               /\ s[i].kind = "close" => i \in DOMAIN pre
    <3>1. CASE i \in DOMAIN pre
      BY <1>3, <3>1
    <3>2. ASSUME NEW j \in DOMAIN a, i = k + j
          PROVE  /\ s[i].kind \in {"role", "broadcast_handoff", "broadcast_roster"}
                 /\ s[i].kind = "broadcast_handoff" => i = k + (n + 1)
      <4>1. s[i].kind = a[j].kind
        BY <1>2, <3>2
      <4>2. a[j].kind = IF j = n + 1 THEN "broadcast_handoff"
                        ELSE IF j = n + 2 THEN "broadcast_roster" ELSE "role"
        BY <1>1
      <4> QED BY <3>2, <4>1, <4>2
    <3> QED BY <1>2, <2>3, <3>1, <3>2
  <2> QED BY <2>2, <2>3
<1>5. Prompts(s) = {} /\ Composes(s)
  BY <1>4 DEF Prompts, Composes
<1>6. ASSUME NEW i \in DOMAIN s, s[i].kind = "close"
      PROVE  s[i].to = o /\ i = 2 /\ s[1].kind = "note" /\ s[1].to = o
  <2>1. i \in DOMAIN pre /\ s[i] = pre[i]
    BY <1>3, <1>4, <1>6
  <2>2. i = 2 /\ pre[2].to = o /\ pre[1].kind = "note" /\ pre[1].to = o
    BY <1>6, <2>1 DEF Introduces
  <2>3. 1 \in DOMAIN pre
    BY <2>1, <2>2
  <2>4. s[1] = pre[1]
    BY <1>2, <2>3
  <2> QED BY <2>1, <2>2, <2>4
<1>7. Shaped(o, s)
  <2>1. \A i \in DOMAIN s : s[i].kind \notin SongKinds /\ s[i].kind # "leave"
    BY <1>4 DEF SongKinds
  <2>2. \A i \in DOMAIN s : s[i].kind = "broadcast_handoff" =>
            Prompts(s) = {} /\ \A j \in DOMAIN s : s[j].kind = "broadcast_handoff" => j = i
    BY <1>4, <1>5, Zenon
  <2>3. \A i \in DOMAIN s : s[i].kind = "close" =>
           /\ s[i].to = o /\ Prompts(s) = {}
           /\ i = 1 \/ (i = 2 /\ s[1].kind = "note" /\ s[1].to = o)
    BY <1>5, <1>6, Zenon
  <2>4. \A i \in Prompts(s) : \A j \in 1..i : j \in Prompts(s) /\ s[j].text = s[i].text
    BY <1>5
  <2> QED BY <2>1, <2>2, <2>3, <2>4, Zenon DEF Shaped
<1>8. ASSUME NEW w PROVE ~Leaves(s, w) /\ ~Closes(s, w)
  <2>1. ~Leaves(s, w)
    BY <1>4 DEF Leaves
  <2>2. ASSUME Closes(s, w) PROVE FALSE
    <3>1. s # <<>> /\ 1 \in DOMAIN s /\ Head(s) = s[1]
      BY <1>2, <2>2 DEF Closes
    <3>2. s[1].kind = "close"
      BY <2>2, <3>1 DEF Closes
    <3> QED BY <1>6, <3>1, <3>2
  <2> QED BY <2>1, <2>2
<1> QED BY <1>5, <1>7, <1>8, Zenon DEF Proper, s, a

\* The other coroutines that events start: one operation, or a note and a broadcast.
LEMMA ShortShaped ==
    ASSUME NEW o, NEW x \in Ops, NEW y \in Ops
    PROVE  /\ x.kind \notin {"close", "leave"} =>
                  /\ Proper(o, <<x>>)
                  /\ x.kind = "broadcast_handoff" => Composes(<<x>>) /\ Prompts(<<x>>) = {}
                  /\ x.kind # "prompt" => Prompts(<<x>>) = {}
           /\ x.kind = "note" /\ y.kind = "broadcast_handoff" =>
                  Proper(o, <<x, y>>) /\ Composes(<<x, y>>) /\ Prompts(<<x, y>>) = {}
           /\ x.kind = "leave" => Shaped(o, <<x>>) /\ Prompts(<<x>>) = {}
           /\ Shaped(o, <<>>)
<1>1. ASSUME x.kind \notin {"close"}
      PROVE  Shaped(o, <<x>>) /\ (x.kind = "broadcast_handoff" => Composes(<<x>>))
             /\ (x.kind # "prompt" => Prompts(<<x>>) = {})
             /\ (x.kind # "leave" => Proper(o, <<x>>))
  <2>1. DOMAIN <<x>> = {1} /\ <<x>>[1] = x /\ Head(<<x>>) = x
    OBVIOUS
  <2> DEFINE s == <<x>>
  <2> HIDE DEF s
  <2>2. DOMAIN s = {1} /\ s[1] = x /\ Head(s) = x
    BY <2>1 DEF s
  <2>3. Shaped(o, s)
    BY <1>1, <2>2 DEF Shaped, Prompts
  <2> QED BY <1>1, <2>2, <2>3 DEF Proper, Composes, Prompts, Leaves, Closes, s
<1>2. ASSUME x.kind = "note", y.kind = "broadcast_handoff"
      PROVE  Proper(o, <<x, y>>) /\ Composes(<<x, y>>) /\ Prompts(<<x, y>>) = {}
  <2> DEFINE s == <<x, y>>
  <2>1. DOMAIN s = {1, 2} /\ s[1] = x /\ s[2] = y /\ Head(s) = x
    OBVIOUS
  <2> HIDE DEF s
  <2>2. Prompts(s) = {} /\ Composes(s)
    BY <1>2, <2>1 DEF Prompts, Composes
  <2>3. Shaped(o, s)
    BY <1>2, <2>1, <2>2 DEF Shaped, SongKinds
  <2> QED BY <1>2, <2>1, <2>2, <2>3 DEF Proper, Leaves, Closes, s
<1>3. Shaped(o, <<>>)
  <2>1. DOMAIN <<>> = {}
    OBVIOUS
  <2> QED BY <2>1 DEF Shaped, Prompts
<1> QED BY <1>1, <1>2, <1>3

-----------------------------------------------------------------------------
(* Handoff texts: what each device will have been sent in the end *)

\* A socket that is stalled and still there, and one whose close is waited for.
Live == (stalled \cap connected) \ dead
Held == stalled \ Live

\* The devices that understand handoff texts, and those that are to show the pending one.
Capable == {w \in connected : SupportsHandoff(w)}
Needs == Capable \ dead

\* Texts composed since the last event: they say r, and go to the devices of caps in the
\* order in which those connected.
Fresh(ops, r, caps, order) ==
    \A i \in Prompts(ops) :
        /\ ops[i].text = r /\ ops[i].to \in caps
        /\ \A j \in Prompts(ops) : i < j => <<ops[i].to, ops[j].to>> \in order

\* The text r goes to v, and after that to w.
TellsBoth(ops, v, w, r) ==
    \E i, j \in Prompts(ops) : i < j /\ ops[i].to = v /\ ops[j].to = w /\ ops[j].text = r

AllShaped(cs) == \A i \in DOMAIN cs : Shaped(cs[i].owner, cs[i].ops)
ShapesInv == AllShaped(ready) /\ \A u \in Socket : AllShaped(parked[u])

\* Who waits where: at the one live socket that is stalled, or a handler for its own
\* socket to be closed.
WaitsInv ==
    /\ IsFiniteSet(stalled)
    /\ \A u, v \in Live : u = v
    /\ \A u \in Socket \ stalled : parked[u] = <<>>
    /\ \A u \in Held : Len(parked[u]) = 1 /\ parked[u][1].owner = u /\ Prompts(parked[u][1].ops) = {}
    /\ \A u \in Socket : \A i \in DOMAIN parked[u] : \A v \in Socket :
           ~Leaves(parked[u][i].ops, v) /\ (Closes(parked[u][i].ops, v) => v = u)

\* Whoever is about to leave, or to be closed, is not stalled; handlers leave last.
LeavingInv ==
    /\ \A i \in DOMAIN ready : \A v \in Socket :
           Leaves(ready[i].ops, v) \/ Closes(ready[i].ops, v) => v \notin Live
    /\ \A i, j \in DOMAIN ready : \A v \in Socket :
           i < j /\ Leaves(ready[i].ops, v) => Prompts(ready[j].ops) = {}

\* While a socket is stalled, one coroutine runs at a time, and none of an older event.
FreshInv ==
    Live # {} =>
        Len(ready) <= 1 /\ \A i \in DOMAIN ready : Fresh(ready[i].ops, request, Capable, older)

\* The texts that wait behind a stalled socket are for devices that connected after it.
BehindInv ==
    \A v \in Live : \A i \in DOMAIN parked[v] : \A j \in Prompts(parked[v][i].ops) :
        /\ v \in Capable
        /\ parked[v][i].ops[j].to \in connected => <<v, parked[v][i].ops[j].to>> \in older

HeldComposes == \E u \in Held : Composes(parked[u][1].ops)

\* A device that does not show the pending request will be sent it.
NotLost == \A w \in Needs : view[w].prompt = request \/ \E c \in InFlight : Updates(c.ops, w, request)

\* An outdated text on its way is followed by the right one, ...
ReadyInv ==
    \A w \in Needs : \A i \in DOMAIN ready : Outdated(ready[i].ops, w, request) =>
        HeldComposes \/ \E j \in DOMAIN ready : i < j /\ Updates(ready[j].ops, w, request)

\* ... wherever it waits.
ParkedInv ==
    \A w \in Needs : \A v \in Live : \A i \in DOMAIN parked[v] : Outdated(parked[v][i].ops, w, request) =>
        \/ HeldComposes
        \/ \E j \in DOMAIN parked[v] : i < j /\ Updates(parked[v][j].ops, w, request)
        \/ \E j \in DOMAIN ready : Composes(ready[j].ops) \/ TellsBoth(ready[j].ops, v, w, request)

PromptInv ==
    /\ ShapesInv /\ WaitsInv /\ LeavingInv /\ FreshInv /\ BehindInv
    /\ NotLost /\ ReadyInv /\ ParkedInv

\* Taking the first operation from a coroutine.
LEMMA HeadAndRest ==
    ASSUME NEW o, NEW ops \in Seq(Ops), ops # <<>>, Shaped(o, ops), NEW r
    PROVE  /\ Composes(ops) /\ Head(ops).kind # "broadcast_handoff" => Composes(Tail(ops))
           /\ \A w : /\ Updates(ops, w, r) =>
                            \/ Updates(Tail(ops), w, r) \/ Head(ops).kind = "broadcast_handoff"
                            \/ Head(ops).kind = "prompt" /\ Head(ops).to = w /\ Head(ops).text = r
                     /\ Outdated(Tail(ops), w, r) => Outdated(ops, w, r)
                     /\ Head(ops).kind = "prompt" /\ Head(ops).to = w =>
                            Head(ops).text = r \/ Outdated(ops, w, r)
                     /\ \A v : TellsBoth(ops, v, w, r) =>
                            /\ Updates(Tail(ops), w, r)
                            /\ TellsBoth(Tail(ops), v, w, r) \/ (Head(ops).kind = "prompt" /\ Head(ops).to = v)
<1> DEFINE rest == Tail(ops)
           op == Head(ops)
<1>1. /\ rest \in Seq(Ops) /\ DOMAIN rest = 1..Len(ops) - 1
      /\ \A i \in 1..Len(ops) - 1 : i + 1 \in DOMAIN ops /\ rest[i] = ops[i + 1]
  BY TailShaped
<1>2. op = ops[1] /\ 1 \in DOMAIN ops /\ DOMAIN ops = 1..Len(ops) /\ Len(ops) \in Nat
  OBVIOUS
<1> HIDE DEF rest, op
<1>3. \A i \in DOMAIN rest : i \in Nat \ {0} /\ i + 1 \in DOMAIN ops /\ rest[i] = ops[i + 1]
  BY <1>1, <1>2
<1>4. \A i \in DOMAIN ops : i = 1 \/ (i - 1 \in DOMAIN rest /\ rest[i - 1] = ops[i] /\ i \in Nat /\ i > 1)
  BY <1>1, <1>2
<1>5. Composes(ops) /\ op.kind # "broadcast_handoff" => Composes(rest)
  BY <1>2, <1>4 DEF Composes
<1>6. \A i \in Prompts(rest) : i \in Nat /\ i + 1 \in Prompts(ops) /\ rest[i] = ops[i + 1]
  BY <1>3 DEF Prompts
<1>7. \A i \in Prompts(ops) : i = 1 \/ (i - 1 \in Prompts(rest) /\ rest[i - 1] = ops[i] /\ i \in Nat /\ i > 1)
  BY <1>4 DEF Prompts
<1>8. 1 \in Prompts(ops) <=> op.kind = "prompt"
  BY <1>2 DEF Prompts
<1>9. ASSUME NEW w, Updates(ops, w, r)
      PROVE  \/ Updates(rest, w, r) \/ op.kind = "broadcast_handoff"
             \/ op.kind = "prompt" /\ op.to = w /\ op.text = r
  <2>1. CASE Composes(ops)
    BY <1>5, <2>1 DEF Updates
  <2>2. ASSUME NEW i \in Prompts(ops), ops[i].to = w, ops[i].text = r
        PROVE  Updates(rest, w, r) \/ (op.kind = "prompt" /\ op.to = w /\ op.text = r)
    BY <1>2, <1>7, <1>8, <2>2 DEF Updates
  <2> QED BY <1>9, <2>1, <2>2 DEF Updates
<1>10. \A w : Outdated(rest, w, r) => Outdated(ops, w, r)
  BY <1>6 DEF Outdated
<1>11. \A w : op.kind = "prompt" /\ op.to = w => op.text = r \/ Outdated(ops, w, r)
  BY <1>2, <1>8 DEF Outdated
<1>13. ASSUME NEW w, NEW v, TellsBoth(ops, v, w, r)
       PROVE  Updates(rest, w, r) /\ (TellsBoth(rest, v, w, r) \/ (op.kind = "prompt" /\ op.to = v))
  <2>1. PICK i \in Prompts(ops), j \in Prompts(ops) :
            i < j /\ ops[i].to = v /\ ops[j].to = w /\ ops[j].text = r
    BY <1>13 DEF TellsBoth
  <2>2. j # 1
    BY <1>7, <2>1
  <2>3. j - 1 \in Prompts(rest) /\ rest[j - 1] = ops[j]
    BY <1>7, <2>2
  <2>4. Updates(rest, w, r)
    BY <2>1, <2>3 DEF Updates
  <2>5. CASE i = 1
    BY <1>2, <1>8, <2>1, <2>4, <2>5
  <2>6. CASE i # 1
    <3>1. i - 1 \in Prompts(rest) /\ rest[i - 1] = ops[i] /\ i - 1 < j - 1
      BY <1>7, <2>1, <2>2, <2>6
    <3>2. TellsBoth(rest, v, w, r)
      BY <2>1, <2>3, <3>1, Zenon DEF TellsBoth
    <3> QED BY <2>4, <3>2
  <2> QED BY <2>5, <2>6
<1> QED BY <1>5, <1>9, <1>10, <1>11, <1>13, Zenon DEF rest, op

\* What comes after the first operation.
LEMMA RestOnly ==
    ASSUME NEW o, NEW ops \in Seq(Ops), ops # <<>>, Shaped(o, ops)
    PROVE  /\ \A w : /\ ~Leaves(Tail(ops), w)
                     /\ Closes(Tail(ops), w) => Head(ops).kind = "note" /\ Head(ops).to = w
           /\ Prompts(Tail(ops)) # {} => Head(ops).kind = "prompt"
           /\ \A i \in Prompts(Tail(ops)) : i + 1 \in Prompts(ops) /\ Tail(ops)[i] = ops[i + 1]
<1> DEFINE rest == Tail(ops)
           op == Head(ops)
<1>1. /\ rest \in Seq(Ops) /\ DOMAIN rest = 1..Len(ops) - 1
      /\ \A i \in 1..Len(ops) - 1 : i + 1 \in DOMAIN ops /\ rest[i] = ops[i + 1]
  BY TailShaped
<1>2. op = ops[1] /\ 1 \in DOMAIN ops /\ DOMAIN ops = 1..Len(ops) /\ Len(ops) \in Nat
  OBVIOUS
<1> HIDE DEF rest, op
<1>3. \A i \in DOMAIN rest : i \in Nat \ {0} /\ i + 1 \in DOMAIN ops /\ rest[i] = ops[i + 1]
  BY <1>1, <1>2
<1>6. \A i \in Prompts(rest) : i \in Nat /\ i + 1 \in Prompts(ops) /\ rest[i] = ops[i + 1]
  BY <1>3 DEF Prompts
<1>8. 1 \in Prompts(ops) <=> op.kind = "prompt"
  BY <1>2 DEF Prompts
<1>14. ASSUME NEW w PROVE ~Leaves(rest, w)
  <2> SUFFICES ASSUME NEW i \in DOMAIN rest, rest[i].kind = "leave" PROVE FALSE
    BY DEF Leaves
  <2>1. i + 1 \in DOMAIN ops /\ ops[i + 1].kind = "leave" /\ i \in Nat \ {0}
    BY <1>3
  <2>2. DOMAIN ops = {1}
    BY <2>1, Zenon DEF Shaped
  <2> QED BY <2>1, <2>2
<1>15. ASSUME NEW w, Closes(rest, w) PROVE op.kind = "note" /\ op.to = w
  <2>1. 1 \in DOMAIN rest /\ Head(rest) = rest[1]
    BY <1>1, <1>15 DEF Closes
  <2>2. 1 + 1 \in DOMAIN ops /\ rest[1] = ops[1 + 1]
    BY <1>3, <2>1
  <2>3. 2 \in DOMAIN ops /\ ops[2].kind = "close" /\ ops[2].to = w
    BY <1>15, <2>1, <2>2 DEF Closes
  <2>4. ops[2].to = o /\ (2 = 1 \/ (ops[1].kind = "note" /\ ops[1].to = o))
    BY <2>3, Zenon DEF Shaped
  <2> QED BY <1>2, <2>3, <2>4
<1>16. ASSUME Prompts(rest) # {} PROVE op.kind = "prompt"
  <2>1. PICK i \in Prompts(rest) : TRUE
    BY <1>16
  <2>2. i + 1 \in Prompts(ops) /\ 1 \in 1..i + 1
    BY <1>6
  <2>3. 1 \in Prompts(ops)
    BY <2>2, Zenon DEF Shaped
  <2> QED BY <1>8, <2>3
<1> QED BY <1>6, <1>14, <1>15, <1>16, Zenon DEF rest, op

\* Its texts stay up to date.
LEMMA RestFresh ==
    ASSUME NEW o, NEW ops \in Seq(Ops), ops # <<>>, Shaped(o, ops), NEW r, NEW caps, NEW order,
           Fresh(ops, r, caps, order)
    PROVE  Fresh(Tail(ops), r, caps, order)
<1> DEFINE rest == Tail(ops)
           op == Head(ops)
<1>1. /\ rest \in Seq(Ops) /\ DOMAIN rest = 1..Len(ops) - 1
      /\ \A i \in 1..Len(ops) - 1 : i + 1 \in DOMAIN ops /\ rest[i] = ops[i + 1]
  BY TailShaped
<1>2. op = ops[1] /\ 1 \in DOMAIN ops /\ DOMAIN ops = 1..Len(ops) /\ Len(ops) \in Nat
  OBVIOUS
<1> HIDE DEF rest, op
<1>3. \A i \in DOMAIN rest : i \in Nat \ {0} /\ i + 1 \in DOMAIN ops /\ rest[i] = ops[i + 1]
  BY <1>1, <1>2
<1>6. \A i \in Prompts(rest) : i \in Nat /\ i + 1 \in Prompts(ops) /\ rest[i] = ops[i + 1]
  BY <1>3 DEF Prompts
<1>12. Fresh(rest, r, caps, order)
  <2> SUFFICES ASSUME NEW i \in Prompts(rest)
               PROVE  /\ rest[i].text = r /\ rest[i].to \in caps
                      /\ \A j \in Prompts(rest) : i < j => <<rest[i].to, rest[j].to>> \in order
    BY DEF Fresh
  <2>1. i + 1 \in Prompts(ops) /\ rest[i] = ops[i + 1]
    BY <1>6
  <2>2. ops[i + 1].text = r /\ ops[i + 1].to \in caps
    BY <2>1, Zenon DEF Fresh
  <2>3. ASSUME NEW j \in Prompts(rest), i < j PROVE <<rest[i].to, rest[j].to>> \in order
    <3>1. j + 1 \in Prompts(ops) /\ rest[j] = ops[j + 1] /\ i + 1 < j + 1
      BY <1>6, <2>3
    <3> QED BY <2>1, <3>1, Zenon DEF Fresh
  <2> QED BY <2>1, <2>2, <2>3
<1> QED BY <1>12 DEF rest

-----------------------------------------------------------------------------
(* Places in the queue *)

\* The running coroutine comes first.
LEMMA FirstPlace ==
    ASSUME TypeOK, LoopType, ready # <<>>
    PROVE  /\ Len(ready) \in Nat \ {0} /\ DOMAIN ready = 1..Len(ready) /\ 1 \in DOMAIN ready
           /\ Current = ready[1] /\ Current.ops \in Seq(Ops) /\ Current.owner \in Socket \cup {NoSocket}
           /\ \A i \in DOMAIN ready : ready[i] \in Coroutine
<1>1. ready \in Seq(Coroutine)
  BY CoroutineType
<1>2. /\ Len(ready) \in Nat \ {0} /\ DOMAIN ready = 1..Len(ready) /\ 1 \in DOMAIN ready
      /\ Head(ready) = ready[1] /\ \A i \in DOMAIN ready : ready[i] \in Coroutine
  BY <1>1
<1> QED BY <1>2 DEF Current, Coroutine

\* When it goes on as c, only the first place changes.
LEMMA GoOnPlaces ==
    ASSUME TypeOK, LoopType, ready # <<>>, NEW c \in Coroutine, GoOnWith(c)
    PROVE  /\ parked' = parked /\ DOMAIN ready' = DOMAIN ready /\ Len(ready') = Len(ready) /\ ready'[1] = c
           /\ \A i \in DOMAIN ready : i # 1 => ready'[i] = ready[i]
<1>1. ready \in Seq(Coroutine)
  BY CoroutineType
<1>2. /\ Tail(ready) \in Seq(Coroutine) /\ Len(Tail(ready)) = Len(ready) - 1 /\ <<c>> \in Seq(Coroutine)
      /\ \A i \in 1..Len(ready) - 1 : Tail(ready)[i] = ready[i + 1]
      /\ Len(ready) \in Nat \ {0} /\ DOMAIN ready = 1..Len(ready)
  BY <1>1
<1> DEFINE t == Tail(ready)
<1> HIDE DEF t
<1>3. /\ ready' = <<c>> \o t /\ parked' = parked
      /\ t \in Seq(Coroutine) /\ Len(t) = Len(ready) - 1
      /\ \A i \in 1..Len(ready) - 1 : t[i] = ready[i + 1]
  BY <1>2 DEF GoOnWith, t
<1>4. /\ Len(ready') = Len(ready) /\ DOMAIN ready' = 1..Len(ready) /\ ready'[1] = c
      /\ \A i \in 1..Len(t) : ready'[i + 1] = t[i]
  <2> DEFINE one == <<c>>
  <2>1. one \in Seq(Coroutine) /\ Len(one) = 1 /\ DOMAIN one = {1} /\ one[1] = c
    OBVIOUS
  <2>2. ready' = one \o t
    BY <1>3
  <2> HIDE DEF one
  <2>3. Joined(ready', one, t)
    BY <1>3, <2>1, <2>2, ListAfterList
  <2>4. Len(ready') = 1 + Len(t) /\ DOMAIN ready' = 1..1 + Len(t)
    BY <2>1, <2>3, Zenon DEF Joined
  <2>5. ready'[1] = c /\ \A i \in DOMAIN t : ready'[1 + i] = t[i]
    BY <2>1, <2>3 DEF Joined
  <2>6. DOMAIN t = 1..Len(t) /\ Len(t) \in Nat
    BY <1>3
  <2>7. \A i \in 1..Len(t) : ready'[i + 1] = t[i]
    BY <2>5, <2>6
  <2>8. Len(t) = Len(ready) - 1 /\ Len(ready) \in Nat \ {0}
    BY <1>2, <1>3
  <2>9. 1 + Len(t) = Len(ready)
    BY <2>8
  <2> QED BY <2>4, <2>5, <2>7, <2>9, Zenon
<1>5. ASSUME NEW i \in DOMAIN ready, i # 1 PROVE ready'[i] = ready[i]
  <2>1. i - 1 \in 1..Len(ready) - 1 /\ (i - 1) + 1 = i
    BY <1>2, <1>5
  <2>2. t[i - 1] = ready[i]
    BY <1>3, <2>1
  <2>3. ready'[i] = t[i - 1]
    BY <1>3, <1>4, <2>1
  <2> QED BY <2>2, <2>3
<1> QED BY <1>2, <1>3, <1>4, <1>5

\* When it does not go on, the others move up, and more come after them.
LEMMA MoveUpPlaces ==
    ASSUME TypeOK, LoopType, ready # <<>>, NEW more \in Seq(Coroutine), ready' = Tail(ready) \o more
    PROVE  /\ ready' \in Seq(Coroutine) /\ DOMAIN ready' = 1..Len(ready) - 1 + Len(more)
           /\ Len(ready') = Len(ready) - 1 + Len(more)
           /\ \A i \in DOMAIN ready : i # 1 => i - 1 \in DOMAIN ready' /\ ready'[i - 1] = ready[i]
           /\ \A i \in DOMAIN ready' :
                  \/ i + 1 \in DOMAIN ready /\ ready'[i] = ready[i + 1]
                  \/ i >= Len(ready) /\ \E k \in DOMAIN more : ready'[i] = more[k]
<1>1. ready \in Seq(Coroutine)
  BY CoroutineType
<1> DEFINE t == Tail(ready)
<1>2. /\ t \in Seq(Coroutine) /\ Len(t) = Len(ready) - 1
      /\ \A i \in 1..Len(ready) - 1 : t[i] = ready[i + 1]
      /\ Len(ready) \in Nat \ {0} /\ DOMAIN ready = 1..Len(ready)
  BY <1>1
<1> HIDE DEF t
<1>3. ready' = t \o more
  BY DEF t
<1>4. /\ ready' \in Seq(Coroutine) /\ DOMAIN ready' = 1..Len(ready) - 1 + Len(more)
      /\ Len(ready') = Len(ready) - 1 + Len(more) /\ Len(more) \in Nat /\ DOMAIN more = 1..Len(more)
      /\ \A i \in 1..Len(ready) - 1 : ready'[i] = t[i]
      /\ \A i \in 1..Len(more) : ready'[Len(ready) - 1 + i] = more[i]
  <2>1. ready' \in Seq(Coroutine) /\ Joined(ready', t, more)
    BY <1>2, <1>3, ListAfterList
  <2> QED BY <1>2, <2>1 DEF Joined
<1>5. ASSUME NEW i \in DOMAIN ready, i # 1 PROVE i - 1 \in DOMAIN ready' /\ ready'[i - 1] = ready[i]
  <2>1. i - 1 \in 1..Len(ready) - 1 /\ (i - 1) + 1 = i /\ i - 1 \in DOMAIN ready'
    BY <1>2, <1>4, <1>5
  <2>2. t[i - 1] = ready[i] /\ ready'[i - 1] = t[i - 1]
    BY <1>2, <1>4, <2>1
  <2> QED BY <2>1, <2>2
<1>6. ASSUME NEW i \in DOMAIN ready'
      PROVE  \/ i + 1 \in DOMAIN ready /\ ready'[i] = ready[i + 1]
             \/ i >= Len(ready) /\ \E k \in DOMAIN more : ready'[i] = more[k]
  <2>1. CASE i \in 1..Len(ready) - 1
    <3>1. ready'[i] = ready[i + 1]
      BY <1>2, <1>4, <2>1
    <3>2. i + 1 \in DOMAIN ready
      BY <1>2, <2>1
    <3> QED BY <3>1, <3>2
  <2>2. CASE i \notin 1..Len(ready) - 1
    <3> DEFINE k == i - (Len(ready) - 1)
    <3>1. k \in 1..Len(more) /\ Len(ready) - 1 + k = i /\ i >= Len(ready)
      BY <1>2, <1>4, <2>2
    <3>2. ready'[i] = more[k]
      BY <1>4, <3>1
    <3> QED BY <1>4, <3>1, <3>2
  <2> QED BY <2>1, <2>2
<1> QED BY <1>4, <1>5, <1>6

\* A coroutine that comes to wait does so behind the others.
LEMMA ParkPlaces ==
    ASSUME TypeOK, LoopType, NEW v \in Socket, NEW c \in Coroutine,
           parked' = [parked EXCEPT ![v] = Append(@, c)]
    PROVE  /\ \A u \in Socket : u # v => parked'[u] = parked[u]
           /\ Len(parked[v]) \in Nat /\ DOMAIN parked[v] = 1..Len(parked[v])
           /\ Len(parked'[v]) = Len(parked[v]) + 1 /\ DOMAIN parked'[v] = 1..Len(parked[v]) + 1
           /\ parked'[v][Len(parked[v]) + 1] = c
           /\ \A i \in DOMAIN parked[v] : i \in DOMAIN parked'[v] /\ parked'[v][i] = parked[v][i]
           /\ \A i \in DOMAIN parked'[v] : i \in DOMAIN parked[v] \/ i = Len(parked[v]) + 1
<1>1. parked \in [Socket -> Seq(Coroutine)]
  BY CoroutineType
<1> DEFINE s == parked[v]
<1>2. s \in Seq(Coroutine) /\ parked'[v] = Append(s, c) /\ \A u \in Socket : u # v => parked'[u] = parked[u]
  BY <1>1
<1> HIDE DEF s
<1>3. /\ Len(s) \in Nat /\ DOMAIN s = 1..Len(s)
      /\ Len(Append(s, c)) = Len(s) + 1 /\ DOMAIN Append(s, c) = 1..Len(s) + 1
      /\ Append(s, c)[Len(s) + 1] = c
      /\ \A i \in DOMAIN s : i \in DOMAIN Append(s, c) /\ Append(s, c)[i] = s[i]
      /\ \A i \in DOMAIN Append(s, c) : i \in DOMAIN s \/ i = Len(s) + 1
  BY <1>2
<1> QED BY <1>2, <1>3 DEF s

\* A new coroutine is alone.
LEMMA StartPlaces ==
    ASSUME NEW o, NEW ops, Start(o, ops)
    PROVE  /\ parked' = parked /\ Len(ready') = 1 /\ DOMAIN ready' = {1}
           /\ ready'[1] = Task(o, ops) /\ Task(o, ops).ops = ops /\ Task(o, ops).owner = o
BY DEF Start, Task

-----------------------------------------------------------------------------
(* Handoff texts: the event loop *)

\* While nobody comes or goes, the same devices are concerned.
LEMMA SameDevices ==
    ASSUME UNCHANGED <<connected, client, stalled, dead>>
    PROVE  Live' = Live /\ Held' = Held /\ Capable' = Capable /\ Needs' = Needs
BY DEF Live, Held, Capable, Needs, SupportsHandoff

\* What is behind the running coroutine, and what waits, is as before.
LEMMA SameWaits ==
    ASSUME WaitsInv, stalled' = stalled, Live' = Live, Held' = Held, parked' = parked
    PROVE  WaitsInv'
BY Zenon DEF WaitsInv

\* c carries on what the running coroutine has to tell.
Replaces(c) ==
    /\ c \in Coroutine /\ Shaped(c.owner, c.ops)
    /\ \A v \in Socket : ~Leaves(c.ops, v) /\ (Closes(c.ops, v) => v \notin Live)
    /\ Live # {} => Fresh(c.ops, request, Capable, older)
    /\ \A w \in Needs :
           /\ Updates(Current.ops, w, request) => Updates(c.ops, w, request) \/ view'[w].prompt = request
           /\ Outdated(c.ops, w, request) => Outdated(Current.ops, w, request)
           /\ view'[w].prompt \in {view[w].prompt, request} \/ Outdated(Current.ops, w, request)
           /\ \A v \in Live \cap Capable :
                  <<v, w>> \in older /\ (Composes(Current.ops) \/ TellsBoth(Current.ops, v, w, request)) =>
                      Composes(c.ops) \/ TellsBoth(c.ops, v, w, request)

\* Going on like that loses nothing.
LEMMA GoOnPrompts ==
    ASSUME TypeOK, LoopType, PromptInv, ready # <<>>, NEW c, GoOnWith(c), Replaces(c),
           UNCHANGED <<vars, stalled, dead>>
    PROVE  PromptInv'
<1>1. /\ ShapesInv /\ WaitsInv /\ LeavingInv /\ FreshInv /\ BehindInv
      /\ NotLost /\ ReadyInv /\ ParkedInv
  BY DEF PromptInv
<1>2. /\ connected' = connected /\ client' = client /\ older' = older /\ request' = request
      /\ stalled' = stalled /\ dead' = dead
  BY DEF vars, socketVars, reqVars
<1>3. Live' = Live /\ Held' = Held /\ Capable' = Capable /\ Needs' = Needs
  BY <1>2, SameDevices
<1>4. /\ c \in Coroutine /\ Shaped(c.owner, c.ops)
      /\ \A v \in Socket : ~Leaves(c.ops, v) /\ (Closes(c.ops, v) => v \notin Live)
      /\ Live # {} => Fresh(c.ops, request, Capable, older)
      /\ \A w \in Needs :
           /\ Updates(Current.ops, w, request) => Updates(c.ops, w, request) \/ view'[w].prompt = request
           /\ Outdated(c.ops, w, request) => Outdated(Current.ops, w, request)
           /\ view'[w].prompt \in {view[w].prompt, request} \/ Outdated(Current.ops, w, request)
  BY Zenon DEF Replaces
<1>5. ASSUME NEW w \in Needs, NEW v \in Live \cap Capable, <<v, w>> \in older,
             Composes(Current.ops) \/ TellsBoth(Current.ops, v, w, request)
      PROVE  Composes(c.ops) \/ TellsBoth(c.ops, v, w, request)
  BY <1>5, Zenon DEF Replaces
<1>6. /\ parked' = parked /\ DOMAIN ready' = DOMAIN ready /\ Len(ready') = Len(ready) /\ ready'[1] = c
      /\ \A i \in DOMAIN ready : i # 1 => ready'[i] = ready[i]
  BY <1>4, GoOnPlaces
<1>7. 1 \in DOMAIN ready /\ Current = ready[1] /\ DOMAIN ready = 1..Len(ready) /\ Len(ready) \in Nat
  BY FirstPlace
<1>8. ShapesInv'
  <2>1. \A u \in Socket : AllShaped(parked[u])
    BY <1>1 DEF ShapesInv
  <2>2. \A i \in DOMAIN ready' : Shaped(ready'[i].owner, ready'[i].ops)
    BY <1>1, <1>4, <1>6, Zenon DEF ShapesInv, AllShaped
  <2> QED BY <1>6, <2>1, <2>2, Zenon DEF ShapesInv, AllShaped
<1>9. WaitsInv'
  BY <1>1, <1>2, <1>3, <1>6, SameWaits
<1>10. LeavingInv'
  <2>1. ASSUME NEW i \in DOMAIN ready', NEW v \in Socket, Leaves(ready'[i].ops, v) \/ Closes(ready'[i].ops, v)
        PROVE  v \notin Live
    BY <1>1, <1>4, <1>6, <2>1, Zenon DEF LeavingInv
  <2>2. ASSUME NEW i \in DOMAIN ready', NEW j \in DOMAIN ready', NEW v \in Socket, i < j, Leaves(ready'[i].ops, v)
        PROVE  Prompts(ready'[j].ops) = {}
    <3>1. i # 1 /\ j # 1
      BY <1>4, <1>6, <1>7, <2>2
    <3> QED BY <1>1, <1>6, <2>2, <3>1, Zenon DEF LeavingInv
  <2> QED BY <1>3, <2>1, <2>2, Zenon DEF LeavingInv
<1>11. FreshInv'
  <2> SUFFICES ASSUME Live # {}
               PROVE  /\ Len(ready') <= 1
                      /\ \A i \in DOMAIN ready' : Fresh(ready'[i].ops, request, Capable, older)
    BY <1>2, <1>3, Zenon DEF FreshInv
  <2> QED BY <1>1, <1>4, <1>6, Zenon DEF FreshInv
<1>12. BehindInv'
  BY <1>1, <1>2, <1>3, <1>6, Zenon DEF BehindInv
<1>13. HeldComposes => HeldComposes'
  BY <1>3, <1>6, Zenon DEF HeldComposes
<1>14. HeldComposes => \E d \in InFlight' : Composes(d.ops)
  <2> SUFFICES ASSUME HeldComposes PROVE \E d \in InFlight' : Composes(d.ops)
    OBVIOUS
  <2>1. PICK u \in Held : Composes(parked[u][1].ops)
    BY DEF HeldComposes
  <2>2. u \in Socket /\ Len(parked[u]) = 1
    BY <1>1, <2>1 DEF WaitsInv, Held, LoopType
  <2>3. parked[u] \in Seq(Coroutine)
    BY <2>2, CoroutineType
  <2>4. 1 \in DOMAIN parked[u]
    BY <2>2, <2>3
  <2>5. parked'[u][1] \in InFlight' /\ parked'[u][1] = parked[u][1]
    BY <1>6, <2>2, <2>4 DEF InFlight
  <2> QED BY <2>1, <2>5
<1>15. c \in InFlight' /\ InFlight \ {Current} \subseteq InFlight'
  BY GoOnFlight
<1>16. NotLost'
  <2> SUFFICES ASSUME NEW w \in Needs
               PROVE  view'[w].prompt = request \/ \E d \in InFlight' : Updates(d.ops, w, request)
    BY <1>2, <1>3, Zenon DEF NotLost
  <2>1. CASE Outdated(Current.ops, w, request)
    <3>1. HeldComposes \/ \E j \in DOMAIN ready : 1 < j /\ Updates(ready[j].ops, w, request)
      BY <1>1, <1>7, <2>1 DEF ReadyInv
    <3>2. ASSUME NEW j \in DOMAIN ready, 1 < j, Updates(ready[j].ops, w, request)
          PROVE  \E d \in InFlight' : Updates(d.ops, w, request)
      <4>1. ready'[j] = ready[j] /\ j \in DOMAIN ready'
        BY <1>6, <3>2
      <4>2. ready'[j] \in InFlight'
        BY <4>1 DEF InFlight
      <4> QED BY <3>2, <4>1, <4>2
    <3> QED BY <1>14, <3>1, <3>2 DEF Updates
  <2>2. CASE ~Outdated(Current.ops, w, request)
    <3>1. view'[w].prompt \in {view[w].prompt, request}
      BY <1>4, <2>2
    <3>2. CASE view[w].prompt = request
      BY <3>1, <3>2
    <3>3. ASSUME NEW d \in InFlight, Updates(d.ops, w, request)
          PROVE  view'[w].prompt = request \/ \E e \in InFlight' : Updates(e.ops, w, request)
      BY <1>4, <1>15, <3>3, Zenon
    <3> QED BY <1>1, <3>2, <3>3 DEF NotLost
  <2> QED BY <2>1, <2>2
<1>17. ReadyInv'
  <2> SUFFICES ASSUME NEW w \in Needs, NEW i \in DOMAIN ready', Outdated(ready'[i].ops, w, request)
               PROVE  HeldComposes' \/ \E j \in DOMAIN ready' : i < j /\ Updates(ready'[j].ops, w, request)
    BY <1>2, <1>3, Zenon DEF ReadyInv
  <2>1. i \in DOMAIN ready /\ Outdated(ready[i].ops, w, request)
    BY <1>4, <1>6, <1>7, Zenon
  <2>2. HeldComposes \/ \E j \in DOMAIN ready : i < j /\ Updates(ready[j].ops, w, request)
    BY <1>1, <2>1, Zenon DEF ReadyInv
  <2>3. ASSUME NEW j \in DOMAIN ready, i < j, Updates(ready[j].ops, w, request)
        PROVE  \E k \in DOMAIN ready' : i < k /\ Updates(ready'[k].ops, w, request)
    <3>1. j # 1
      BY <1>7, <2>1, <2>3
    <3> QED BY <1>6, <2>3, <3>1, Zenon
  <2> QED BY <1>13, <2>2, <2>3
<1>18. ParkedInv'
  <2> SUFFICES ASSUME NEW w \in Needs, NEW v \in Live, NEW i \in DOMAIN parked[v],
                      Outdated(parked[v][i].ops, w, request)
               PROVE  \/ HeldComposes'
                      \/ \E j \in DOMAIN parked[v] : i < j /\ Updates(parked[v][j].ops, w, request)
                      \/ \E j \in DOMAIN ready' : Composes(ready'[j].ops) \/ TellsBoth(ready'[j].ops, v, w, request)
    BY <1>2, <1>3, <1>6, Zenon DEF ParkedInv
  <2>1. \/ HeldComposes
        \/ \E j \in DOMAIN parked[v] : i < j /\ Updates(parked[v][j].ops, w, request)
        \/ \E j \in DOMAIN ready : Composes(ready[j].ops) \/ TellsBoth(ready[j].ops, v, w, request)
    BY <1>1, Zenon DEF ParkedInv
  <2>2. v \in Capable /\ <<v, w>> \in older
    <3>1. PICK k \in Prompts(parked[v][i].ops) : parked[v][i].ops[k].to = w
      BY DEF Outdated
    <3>2. w \in connected
      BY DEF Needs, Capable
    <3> QED BY <1>1, <3>1, <3>2 DEF BehindInv
  <2>3. ASSUME NEW j \in DOMAIN ready, Composes(ready[j].ops) \/ TellsBoth(ready[j].ops, v, w, request)
        PROVE  \E k \in DOMAIN ready' : Composes(ready'[k].ops) \/ TellsBoth(ready'[k].ops, v, w, request)
    <3>1. CASE j = 1
      BY <1>5, <1>6, <1>7, <2>2, <2>3, <3>1
    <3>2. CASE j # 1
      BY <1>6, <2>3, <3>2, Zenon
    <3> QED BY <3>1, <3>2
  <2> QED BY <1>13, <2>1, <2>3, Zenon
<1> QED BY <1>8, <1>9, <1>10, <1>11, <1>12, <1>16, <1>17, <1>18 DEF PromptInv

\* A coroutine with nothing left to do tells nobody anything.
LEMMA EmptyTells ==
    ASSUME NEW w, NEW v, NEW r
    PROVE  /\ ~Composes(<<>>) /\ ~Updates(<<>>, w, r) /\ ~TellsBoth(<<>>, v, w, r)
           /\ Prompts(<<>>) = {} /\ ~Leaves(<<>>, w) /\ ~Closes(<<>>, w)
<1>1. DOMAIN <<>> = {}
  OBVIOUS
<1> QED BY <1>1 DEF Composes, Updates, TellsBoth, Prompts, Leaves, Closes

\* A handler on its way out has only that to do.
LEMMA LeavingTells ==
    ASSUME NEW w, NEW v
    PROVE  /\ Prompts(Leaving(w).ops) = {} /\ Shaped(Leaving(w).owner, Leaving(w).ops)
           /\ Leaves(Leaving(w).ops, v) => v = w
           /\ ~Closes(Leaving(w).ops, v)
<1> DEFINE ops == Leaving(w).ops
<1>1. DOMAIN ops = {1} /\ ops[1].kind = "leave" /\ ops[1].to = w /\ Head(ops) = ops[1]
  BY DEF Leaving, Task, Do, Op
<1> HIDE DEF ops
<1>2. Prompts(ops) = {}
  BY <1>1 DEF Prompts
<1>3. \A o : Shaped(o, ops)
  BY <1>1, <1>2 DEF Shaped, SongKinds
<1>4. /\ Leaves(ops, v) => v = w
      /\ ~Closes(ops, v)
  BY <1>1 DEF Leaves, Closes
<1> QED BY <1>2, <1>3, <1>4 DEF ops

\* A coroutine that has no handoff text has none that is outdated, or for two devices.
LEMMA NoPrompts ==
    ASSUME NEW ops, Prompts(ops) = {}
    PROVE  /\ \A w, r : ~Outdated(ops, w, r) /\ (Updates(ops, w, r) => Composes(ops))
           /\ \A v, w, r : ~TellsBoth(ops, v, w, r)
           /\ \A r, caps, order : Fresh(ops, r, caps, order)
BY DEF Outdated, Updates, TellsBoth, Fresh

\* The end of a coroutine loses nothing; a handler whose connection is gone leaves last.
LEMMA FinishPrompts ==
    ASSUME TypeOK, LoopType, PromptInv, Finish
    PROVE  PromptInv'
<1>1. /\ ShapesInv /\ WaitsInv /\ LeavingInv /\ FreshInv /\ BehindInv
      /\ NotLost /\ ReadyInv /\ ParkedInv
  BY DEF PromptInv
<1>2. /\ connected' = connected /\ client' = client /\ older' = older /\ request' = request
      /\ stalled' = stalled /\ dead' = dead /\ view' = view /\ parked' = parked
      /\ ready # <<>> /\ Current.ops = <<>>
  BY DEF Finish, vars, socketVars, reqVars, deviceVars
<1>3. Live' = Live /\ Held' = Held /\ Capable' = Capable /\ Needs' = Needs
  BY <1>2, SameDevices
<1> DEFINE more == IF Current.owner \in dead THEN <<Leaving(Current.owner)>> ELSE <<>>
<1>4. more \in Seq(Coroutine) /\ Len(more) \in {0, 1}
      /\ \A k \in DOMAIN more : more[k] = Leaving(Current.owner) /\ Current.owner \in dead
  <2>1. Current.owner \in dead => Leaving(Current.owner) \in Coroutine
    <3>1. Leaving(Current.owner) \in PlainTask
      BY <1>2, FirstPlace, LeavingType
    <3> QED BY <3>1, OpsType DEF PlainTask, Coroutine
  <2>2. DOMAIN <<>> = {} /\ Len(<<>>) = 0 /\ <<>> \in Seq(Coroutine)
    OBVIOUS
  <2> DEFINE x == Leaving(Current.owner)
  <2> HIDE DEF x
  <2>3. x \in Coroutine => <<x>> \in Seq(Coroutine) /\ Len(<<x>>) = 1 /\ DOMAIN <<x>> = {1} /\ <<x>>[1] = x
    OBVIOUS
  <2> QED BY <2>1, <2>2, <2>3 DEF x
<1>5. ready' = Tail(ready) \o more
  BY DEF Finish
<1> HIDE DEF more
<1>6. 1 \in DOMAIN ready /\ Current = ready[1] /\ DOMAIN ready = 1..Len(ready) /\ Len(ready) \in Nat \ {0}
  BY <1>2, FirstPlace
<1>7. /\ DOMAIN ready' = 1..Len(ready) - 1 + Len(more) /\ Len(ready') = Len(ready) - 1 + Len(more)
      /\ \A i \in DOMAIN ready : i # 1 => i - 1 \in DOMAIN ready' /\ ready'[i - 1] = ready[i]
      /\ \A i \in DOMAIN ready' :
             \/ i + 1 \in DOMAIN ready /\ ready'[i] = ready[i + 1]
             \/ i >= Len(ready) /\ \E k \in DOMAIN more : ready'[i] = more[k]
  BY <1>2, <1>4, <1>5, MoveUpPlaces
<1>8. \A i \in DOMAIN ready' :
          \/ i + 1 \in DOMAIN ready /\ ready'[i] = ready[i + 1]
          \/ i >= Len(ready) /\ ready'[i] = Leaving(Current.owner) /\ Current.owner \in dead
  BY <1>4, <1>7, Zenon
<1>9. ShapesInv'
  <2>1. \A u \in Socket : AllShaped(parked[u])
    BY <1>1 DEF ShapesInv
  <2>2. \A i \in DOMAIN ready' : Shaped(ready'[i].owner, ready'[i].ops)
    BY <1>1, <1>8, LeavingTells, Zenon DEF ShapesInv, AllShaped
  <2> QED BY <1>2, <2>1, <2>2, Zenon DEF ShapesInv, AllShaped
<1>10. WaitsInv'
  BY <1>1, <1>2, <1>3, SameWaits
<1>11. LeavingInv'
  <2>1. ASSUME NEW i \in DOMAIN ready', NEW v \in Socket, Leaves(ready'[i].ops, v) \/ Closes(ready'[i].ops, v)
        PROVE  v \notin Live
    <3>1. CASE i + 1 \in DOMAIN ready /\ ready'[i] = ready[i + 1]
      BY <1>1, <2>1, <3>1, Zenon DEF LeavingInv
    <3>2. CASE ready'[i] = Leaving(Current.owner) /\ Current.owner \in dead
      BY <2>1, <3>2, LeavingTells DEF Live
    <3> QED BY <1>8, <3>1, <3>2
  <2>2. ASSUME NEW i \in DOMAIN ready', NEW j \in DOMAIN ready', NEW v \in Socket, i < j, Leaves(ready'[i].ops, v)
        PROVE  Prompts(ready'[j].ops) = {}
    <3>1. CASE ready'[j] = Leaving(Current.owner)
      BY <3>1, LeavingTells
    <3>2. CASE j + 1 \in DOMAIN ready /\ ready'[j] = ready[j + 1]
      <4>1. ~(i >= Len(ready)) /\ i + 1 < j + 1
        BY <1>6, <1>7, <2>2, <3>2
      <4>2. i + 1 \in DOMAIN ready /\ ready'[i] = ready[i + 1]
        BY <1>8, <4>1
      <4> QED BY <1>1, <2>2, <3>2, <4>1, <4>2, Zenon DEF LeavingInv
    <3> QED BY <1>8, <3>1, <3>2
  <2> QED BY <1>3, <2>1, <2>2, Zenon DEF LeavingInv
<1>12. FreshInv'
  <2> SUFFICES ASSUME Live # {}
               PROVE  /\ Len(ready') <= 1
                      /\ \A i \in DOMAIN ready' : Fresh(ready'[i].ops, request, Capable, older)
    BY <1>2, <1>3, Zenon DEF FreshInv
  <2>1. Len(ready) = 1
    BY <1>1, <1>6 DEF FreshInv
  <2>2. Len(ready') <= 1
    BY <1>4, <1>7, <2>1
  <2>3. ASSUME NEW i \in DOMAIN ready' PROVE ready'[i] = Leaving(Current.owner)
    <3>1. i \in 1..1 => ~(i + 1 \in 1..1)
      OBVIOUS
    <3>2. i + 1 \notin DOMAIN ready
      BY <1>4, <1>6, <1>7, <2>1
    <3> QED BY <1>8, <3>2
  <2> QED BY <2>2, <2>3, LeavingTells, NoPrompts
<1>13. BehindInv'
  BY <1>1, <1>2, <1>3, Zenon DEF BehindInv
<1>14. HeldComposes => HeldComposes'
  BY <1>2, <1>3, Zenon DEF HeldComposes
<1>15. NotLost'
  <2> SUFFICES ASSUME NEW w \in Needs
               PROVE  view[w].prompt = request \/ \E d \in InFlight' : Updates(d.ops, w, request)
    BY <1>2, <1>3, Zenon DEF NotLost
  <2>1. ~Updates(Current.ops, w, request)
    BY <1>2, EmptyTells
  <2>2. InFlight \ {Current} \subseteq InFlight'
    BY <1>2, FinishFlight
  <2> QED BY <1>1, <2>1, <2>2 DEF NotLost
<1>16. ReadyInv'
  <2> SUFFICES ASSUME NEW w \in Needs, NEW i \in DOMAIN ready', Outdated(ready'[i].ops, w, request)
               PROVE  HeldComposes' \/ \E j \in DOMAIN ready' : i < j /\ Updates(ready'[j].ops, w, request)
    BY <1>2, <1>3, Zenon DEF ReadyInv
  <2>1. i + 1 \in DOMAIN ready /\ Outdated(ready[i + 1].ops, w, request) /\ i \in Nat
    <3>1. Prompts(ready'[i].ops) # {}
      BY DEF Outdated
    <3>2. ready'[i] # Leaving(Current.owner)
      BY <3>1, LeavingTells
    <3>3. i + 1 \in DOMAIN ready /\ ready'[i] = ready[i + 1]
      BY <1>8, <3>2
    <3> QED BY <1>7, <3>3
  <2>2. HeldComposes \/ \E j \in DOMAIN ready : i + 1 < j /\ Updates(ready[j].ops, w, request)
    BY <1>1, <2>1, Zenon DEF ReadyInv
  <2>3. ASSUME NEW j \in DOMAIN ready, i + 1 < j, Updates(ready[j].ops, w, request)
        PROVE  \E k \in DOMAIN ready' : i < k /\ Updates(ready'[k].ops, w, request)
    <3>1. j # 1 /\ i < j - 1
      BY <1>6, <2>1, <2>3
    <3>2. j - 1 \in DOMAIN ready' /\ ready'[j - 1] = ready[j]
      BY <1>7, <3>1
    <3> QED BY <2>3, <3>1, <3>2
  <2> QED BY <1>14, <2>2, <2>3
<1>17. ParkedInv'
  <2> SUFFICES ASSUME NEW w \in Needs, NEW v \in Live, NEW i \in DOMAIN parked[v],
                      Outdated(parked[v][i].ops, w, request)
               PROVE  \/ HeldComposes'
                      \/ \E j \in DOMAIN parked[v] : i < j /\ Updates(parked[v][j].ops, w, request)
                      \/ \E j \in DOMAIN ready' : Composes(ready'[j].ops) \/ TellsBoth(ready'[j].ops, v, w, request)
    BY <1>2, <1>3, Zenon DEF ParkedInv
  <2>1. \/ HeldComposes
        \/ \E j \in DOMAIN parked[v] : i < j /\ Updates(parked[v][j].ops, w, request)
        \/ \E j \in DOMAIN ready : Composes(ready[j].ops) \/ TellsBoth(ready[j].ops, v, w, request)
    BY <1>1, Zenon DEF ParkedInv
  <2>2. ASSUME NEW j \in DOMAIN ready, Composes(ready[j].ops) \/ TellsBoth(ready[j].ops, v, w, request)
        PROVE  \E k \in DOMAIN ready' : Composes(ready'[k].ops) \/ TellsBoth(ready'[k].ops, v, w, request)
    <3>1. j # 1
      BY <1>2, <1>6, <2>2, EmptyTells
    <3> QED BY <1>7, <2>2, <3>1
  <2> QED BY <1>14, <2>1, <2>2, Zenon
<1> QED BY <1>9, <1>10, <1>11, <1>12, <1>13, <1>15, <1>16, <1>17 DEF PromptInv

\* What is left of the running coroutine.
LEMMA RestShaped ==
    ASSUME TypeOK, LoopType, ShapesInv, ready # <<>>, Current.ops # <<>>
    PROVE  /\ Shaped(Current.owner, Current.ops) /\ Current.ops \in Seq(Ops)
           /\ Rest \in Coroutine /\ Rest.ops = Tail(Current.ops) /\ Rest.owner = Current.owner
           /\ Shaped(Rest.owner, Rest.ops) /\ NextOp = Head(Current.ops)
<1>1. 1 \in DOMAIN ready /\ Current = ready[1] /\ Current.ops \in Seq(Ops) /\ Current.owner \in Socket \cup {NoSocket}
  BY FirstPlace
<1>2. Shaped(Current.owner, Current.ops)
  BY <1>1 DEF ShapesInv, AllShaped
<1>3. Rest.ops = Tail(Current.ops) /\ Rest.owner = Current.owner
  BY DEF Rest, Task
<1>4. Tail(Current.ops) \in Seq(Ops) /\ Shaped(Current.owner, Tail(Current.ops))
  BY <1>1, <1>2, TailShaped
<1>5. Rest \in Coroutine
  BY <1>1, <1>4 DEF Rest, Task, Coroutine
<1> QED BY <1>1, <1>2, <1>3, <1>4, <1>5 DEF NextOp

\* A send that has to wait for a stalled device: whatever else is to be told waits
\* behind it, and is up to date as long as nothing else has happened.
LEMMA ParkPrompts ==
    ASSUME TypeOK, LoopType, PromptInv, Send, NextOp.kind # "close", NextOp.to \in stalled
    PROVE  PromptInv'
<1>1. /\ ShapesInv /\ WaitsInv /\ LeavingInv /\ FreshInv /\ BehindInv
      /\ NotLost /\ ReadyInv /\ ParkedInv
  BY DEF PromptInv
<1> DEFINE v == NextOp.to
           op == NextOp
           ops == Current.ops
           rest == Tail(Current.ops)
<1>2. /\ connected' = connected /\ client' = client /\ older' = older /\ request' = request
      /\ stalled' = stalled /\ dead' = dead /\ ready # <<>> /\ Current.ops # <<>>
      /\ op.kind \in SendKinds /\ v \in connected \ dead
      /\ view' = [view EXCEPT ![v] = ViewAfter(op)]
      /\ ready' = Tail(ready) /\ parked' = [parked EXCEPT ![v] = Append(@, Rest)]
  BY DEF Send, vars, socketVars, reqVars, deviceVars
<1>3. Live' = Live /\ Held' = Held /\ Capable' = Capable /\ Needs' = Needs
  BY <1>2, SameDevices
<1>4. v \in Live /\ v \in Socket /\ v \notin Held
  BY <1>2 DEF Live, Held, TypeOK
<1>5. /\ Shaped(Current.owner, ops) /\ ops \in Seq(Ops) /\ ops # <<>>
      /\ Rest \in Coroutine /\ Rest.ops = rest /\ Shaped(Rest.owner, Rest.ops) /\ op = Head(ops)
      /\ rest = Tail(ops) /\ rest \in Seq(Ops)
  <2>1. rest \in Seq(Ops)
    BY <1>1, <1>2, RestShaped DEF Coroutine
  <2> QED BY <1>1, <1>2, <2>1, RestShaped
<1>6. 1 \in DOMAIN ready /\ Current = ready[1] /\ DOMAIN ready = 1..Len(ready) /\ Len(ready) \in Nat \ {0}
  BY <1>2, FirstPlace
<1>7. Len(ready) = 1 /\ Fresh(ops, request, Capable, older)
  BY <1>1, <1>4, <1>6 DEF FreshInv
<1>8. DOMAIN ready' = {} /\ Len(ready') = 0
  <2>1. ready \in Seq(Coroutine)
    BY CoroutineType
  <2> QED BY <1>2, <1>7, <2>1
<1>9. /\ \A u \in Socket : u # v => parked'[u] = parked[u]
      /\ Len(parked[v]) \in Nat /\ DOMAIN parked[v] = 1..Len(parked[v])
      /\ parked'[v][Len(parked[v]) + 1] = Rest /\ Len(parked[v]) + 1 \in DOMAIN parked'[v]
      /\ \A i \in DOMAIN parked[v] : i \in DOMAIN parked'[v] /\ parked'[v][i] = parked[v][i]
      /\ \A i \in DOMAIN parked'[v] : i \in DOMAIN parked[v] \/ i = Len(parked[v]) + 1
  <2> HIDE DEF v
  <2>1. Rest \in Coroutine /\ v \in Socket /\ parked' = [parked EXCEPT ![v] = Append(@, Rest)]
    BY <1>2, <1>4, <1>5 DEF v
  <2>2. /\ \A u \in Socket : u # v => parked'[u] = parked[u]
        /\ Len(parked[v]) \in Nat /\ DOMAIN parked[v] = 1..Len(parked[v])
        /\ DOMAIN parked'[v] = 1..Len(parked[v]) + 1
        /\ parked'[v][Len(parked[v]) + 1] = Rest
        /\ \A i \in DOMAIN parked[v] : i \in DOMAIN parked'[v] /\ parked'[v][i] = parked[v][i]
        /\ \A i \in DOMAIN parked'[v] : i \in DOMAIN parked[v] \/ i = Len(parked[v]) + 1
    BY <2>1, ParkPlaces
  <2>3. Len(parked[v]) + 1 \in DOMAIN parked'[v]
    BY <2>2
  <2> QED BY <2>2, <2>3
<1>10. \A u \in Socket : \A i \in DOMAIN parked'[u] :
           \/ i \in DOMAIN parked[u] /\ parked'[u][i] = parked[u][i]
           \/ u = v /\ parked'[u][i] = Rest
  BY <1>9
<1> HIDE DEF v, op, ops, rest
<1>11. ShapesInv'
  <2>1. \A u \in Socket : \A i \in DOMAIN parked'[u] : Shaped(parked'[u][i].owner, parked'[u][i].ops)
    BY <1>1, <1>5, <1>10, Zenon DEF ShapesInv, AllShaped
  <2> QED BY <1>8, <2>1, Zenon DEF ShapesInv, AllShaped
<1>12. WaitsInv'
  <2>1. IsFiniteSet(stalled) /\ \A u, x \in Live : u = x
    BY <1>1 DEF WaitsInv
  <2>2. ASSUME NEW u \in Socket \ stalled PROVE parked'[u] = <<>>
    BY <1>1, <1>4, <1>9, <2>2 DEF WaitsInv, Live
  <2>3. ASSUME NEW u \in Held
        PROVE  Len(parked'[u]) = 1 /\ parked'[u][1].owner = u /\ Prompts(parked'[u][1].ops) = {}
    <3>1. u \in Socket /\ u # v
      BY <1>4, <2>3 DEF Held, LoopType
    <3> QED BY <1>1, <1>9, <2>3, <3>1 DEF WaitsInv
  <2>4. ASSUME NEW u \in Socket, NEW i \in DOMAIN parked'[u], NEW x \in Socket
        PROVE  ~Leaves(parked'[u][i].ops, x) /\ (Closes(parked'[u][i].ops, x) => x = u)
    <3>1. CASE i \in DOMAIN parked[u] /\ parked'[u][i] = parked[u][i]
      BY <1>1, <3>1 DEF WaitsInv
    <3>2. CASE u = v /\ parked'[u][i] = Rest
      <4>1. ~Leaves(rest, x) /\ (Closes(rest, x) => op.to = x)
        BY <1>5, RestOnly
      <4> QED BY <1>5, <3>2, <4>1 DEF v, op
    <3> QED BY <1>10, <3>1, <3>2
  <2> QED BY <1>2, <1>3, <2>1, <2>2, <2>3, <2>4, Zenon DEF WaitsInv
<1>13. LeavingInv' /\ FreshInv' /\ ReadyInv'
  BY <1>8 DEF LeavingInv, FreshInv, ReadyInv
<1>14. BehindInv'
  <2> SUFFICES ASSUME NEW u \in Live, NEW i \in DOMAIN parked'[u], NEW j \in Prompts(parked'[u][i].ops)
               PROVE  /\ u \in Capable
                      /\ parked'[u][i].ops[j].to \in connected => <<u, parked'[u][i].ops[j].to>> \in older
    BY <1>2, <1>3, Zenon DEF BehindInv
  <2>1. u \in Socket
    BY DEF Live, TypeOK
  <2>2. CASE i \in DOMAIN parked[u] /\ parked'[u][i] = parked[u][i]
    BY <1>1, <2>2 DEF BehindInv
  <2>3. CASE u = v /\ parked'[u][i] = Rest
    <3>1. j \in Prompts(rest)
      BY <1>5, <2>3
    <3>2. op.kind = "prompt" /\ j + 1 \in Prompts(ops) /\ rest[j] = ops[j + 1]
      BY <1>5, <3>1, RestOnly
    <3>3. 1 \in Prompts(ops) /\ ops[1] = op /\ 1 < j + 1
      <4>1. 1 \in DOMAIN ops /\ ops[1] = op
        BY <1>5
      <4>2. j \in Nat \ {0}
        BY <1>5, <3>1 DEF Prompts
      <4> QED BY <3>2, <4>1, <4>2 DEF Prompts
    <3>4. op.to \in Capable /\ <<op.to, ops[j + 1].to>> \in older
      BY <1>7, <3>2, <3>3 DEF Fresh
    <3> QED BY <1>5, <2>3, <3>2, <3>4 DEF v, op
  <2> QED BY <1>10, <2>1, <2>2, <2>3
<1>15. HeldComposes => HeldComposes'
  <2>1. \A u \in Held : parked'[u] = parked[u]
    BY <1>4, <1>9 DEF Held, LoopType
  <2> QED BY <1>3, <2>1, Zenon DEF HeldComposes
<1>16. \A w : /\ Updates(ops, w, request) =>
                     Updates(rest, w, request) \/ (op.kind = "prompt" /\ op.to = w /\ op.text = request)
              /\ ~Outdated(rest, w, request)
              /\ Composes(ops) => Composes(rest)
              /\ \A x : TellsBoth(ops, x, w, request) => Updates(rest, w, request)
  <2> SUFFICES ASSUME NEW w
               PROVE  /\ Updates(ops, w, request) =>
                            Updates(rest, w, request) \/ (op.kind = "prompt" /\ op.to = w /\ op.text = request)
                      /\ ~Outdated(rest, w, request)
                      /\ Composes(ops) => Composes(rest)
                      /\ \A x : TellsBoth(ops, x, w, request) => Updates(rest, w, request)
    OBVIOUS
  <2>1. op.kind # "broadcast_handoff"
    BY <1>2 DEF SendKinds
  <2>2. Fresh(rest, request, Capable, older)
    BY <1>5, <1>7, RestFresh
  <2>3. ~Outdated(rest, w, request)
    BY <2>2 DEF Fresh, Outdated
  <2>4. /\ Composes(ops) /\ Head(ops).kind # "broadcast_handoff" => Composes(Tail(ops))
        /\ Updates(ops, w, request) =>
               \/ Updates(Tail(ops), w, request) \/ Head(ops).kind = "broadcast_handoff"
               \/ Head(ops).kind = "prompt" /\ Head(ops).to = w /\ Head(ops).text = request
        /\ \A x : TellsBoth(ops, x, w, request) => Updates(Tail(ops), w, request)
    BY <1>5, HeadAndRest
  <2> QED BY <1>5, <2>1, <2>3, <2>4
<1>17. NotLost'
  <2> SUFFICES ASSUME NEW w \in Needs
               PROVE  view'[w].prompt = request \/ \E d \in InFlight' : Updates(d.ops, w, request)
    BY <1>2, <1>3, Zenon DEF NotLost
  <2>1. Rest \in InFlight' /\ InFlight \ {Current} \subseteq InFlight'
    BY SendFlight
  <2>2. w \in Socket
    BY DEF Needs, Capable, TypeOK
  <2>3. op.kind = "prompt" => op.text = request
    <3>1. 1 \in DOMAIN ops /\ ops[1] = op
      BY <1>5
    <3> QED BY <1>7, <3>1 DEF Fresh, Prompts
  <2>4. /\ view'[w].prompt \in {view[w].prompt, request}
        /\ op.kind = "prompt" /\ op.to = w => view'[w].prompt = request
    <3>1. CASE w # v
      <4>1. view'[w] = view[w]
        BY <1>2, <2>2, <3>1 DEF LoopType, v
      <4>2. op.to # w
        BY <3>1 DEF v, op
      <4> QED BY <4>1, <4>2
    <3>2. CASE w = v
      <4>1. view'[w] = ViewAfter(op) /\ view[w] \in View
        BY <1>2, <2>2, <3>2 DEF LoopType
      <4>2. ViewAfter(op).prompt = IF op.kind = "prompt" THEN op.text ELSE view[w].prompt
        BY <1>2, <3>2, <4>1 DEF ViewAfter, View, v, op, SendKinds
      <4> QED BY <2>3, <4>1, <4>2
    <3> QED BY <3>1, <3>2
  <2>5. CASE view[w].prompt = request
    BY <2>4, <2>5
  <2>6. ASSUME NEW d \in InFlight, Updates(d.ops, w, request)
        PROVE  view'[w].prompt = request \/ \E e \in InFlight' : Updates(e.ops, w, request)
    <3>1. CASE d = Current
      <4>1. Updates(ops, w, request)
        BY <2>6, <3>1 DEF ops
      <4> QED BY <1>5, <1>16, <2>1, <2>4, <4>1
    <3>2. CASE d # Current
      BY <2>1, <2>6, <3>2
    <3> QED BY <3>1, <3>2
  <2> QED BY <1>1, <2>5, <2>6 DEF NotLost
<1>18. ParkedInv'
  <2> SUFFICES ASSUME NEW w \in Needs, NEW u \in Live, NEW i \in DOMAIN parked'[u],
                      Outdated(parked'[u][i].ops, w, request)
               PROVE  \/ HeldComposes'
                      \/ \E j \in DOMAIN parked'[u] : i < j /\ Updates(parked'[u][j].ops, w, request)
    BY <1>2, <1>3 DEF ParkedInv
  <2>1. u = v
    BY <1>1, <1>4 DEF WaitsInv
  <2>2. i \in DOMAIN parked[v] /\ parked'[v][i] = parked[v][i]
    <3>1. i \in DOMAIN parked[v] \/ parked'[v][i] = Rest
      BY <1>9, <2>1
    <3> QED BY <1>5, <1>9, <1>16, <2>1, <3>1
  <2>3. \/ HeldComposes
        \/ \E j \in DOMAIN parked[v] : i < j /\ Updates(parked[v][j].ops, w, request)
        \/ \E j \in DOMAIN ready : Composes(ready[j].ops) \/ TellsBoth(ready[j].ops, v, w, request)
    BY <1>1, <2>1, <2>2, Zenon DEF ParkedInv
  <2>4. ASSUME NEW j \in DOMAIN parked[v], i < j, Updates(parked[v][j].ops, w, request)
        PROVE  \E k \in DOMAIN parked'[v] : i < k /\ Updates(parked'[v][k].ops, w, request)
    BY <1>9, <2>4
  <2>5. ASSUME NEW j \in DOMAIN ready, Composes(ready[j].ops) \/ TellsBoth(ready[j].ops, v, w, request)
        PROVE  \E k \in DOMAIN parked'[v] : i < k /\ Updates(parked'[v][k].ops, w, request)
    <3>1. j = 1
      BY <1>6, <1>7
    <3>2. Composes(ops) \/ TellsBoth(ops, v, w, request)
      BY <1>6, <2>5, <3>1 DEF ops
    <3>3. Updates(rest, w, request)
      BY <1>16, <3>2 DEF Updates
    <3>4. i < Len(parked[v]) + 1
      BY <1>9, <2>2
    <3> QED BY <1>5, <1>9, <3>3, <3>4
  <2> QED BY <1>15, <2>1, <2>3, <2>4, <2>5
<1> QED BY <1>11, <1>12, <1>13, <1>14, <1>17, <1>18 DEF PromptInv

\* A handler that closes its socket waits for it alone; it has no handoff text left, but may
\* have one to compose.
LEMMA ClosePrompts ==
    ASSUME TypeOK, LoopType, PromptInv, Send, NextOp.kind = "close"
    PROVE  PromptInv'
<1>1. /\ ShapesInv /\ WaitsInv /\ LeavingInv /\ FreshInv /\ BehindInv
      /\ NotLost /\ ReadyInv /\ ParkedInv
  BY DEF PromptInv
<1> DEFINE v == NextOp.to
           ops == Current.ops
           rest == Tail(Current.ops)
<1>2. /\ connected' = connected /\ client' = client /\ older' = older /\ request' = request
      /\ stalled' = stalled \cup {v} /\ dead' = dead \cup {v} /\ ready # <<>> /\ ops # <<>>
      /\ v \in connected \ dead
      /\ view' = [view EXCEPT ![v] = ViewAfter(NextOp)]
      /\ ready' = Tail(ready) /\ parked' = [parked EXCEPT ![v] = Append(@, Rest)]
  BY DEF Send, vars, socketVars, reqVars, deviceVars
<1>3. /\ Shaped(Current.owner, ops) /\ ops \in Seq(Ops)
      /\ Rest \in Coroutine /\ Rest.ops = rest /\ Shaped(Rest.owner, Rest.ops) /\ Rest.owner = Current.owner
      /\ rest = Tail(ops) /\ Head(ops).kind = "close" /\ Head(ops).to = v
      /\ 1 \in DOMAIN ops /\ Head(ops) = ops[1]
  <2>1. ops \in Seq(Ops) /\ Head(ops) = NextOp
    BY <1>1, <1>2, RestShaped
  <2>2. 1 \in DOMAIN ops /\ Head(ops) = ops[1]
    BY <1>2, <2>1
  <2> QED BY <1>1, <1>2, <2>1, <2>2, RestShaped
<1>4. 1 \in DOMAIN ready /\ Current = ready[1] /\ DOMAIN ready = 1..Len(ready) /\ Len(ready) \in Nat \ {0}
  BY <1>2, FirstPlace
<1> HIDE DEF v, rest, ops
<1>5. Prompts(ops) = {} /\ Rest.owner = v /\ Prompts(rest) = {} /\ \A x : ~Leaves(rest, x) /\ ~Closes(rest, x)
  <2>1. Prompts(ops) = {} /\ Current.owner = v
    BY <1>3, Zenon DEF Shaped
  <2>2. /\ \A x : ~Leaves(rest, x) /\ (Closes(rest, x) => Head(ops).kind = "note")
        /\ Prompts(rest) # {} => Head(ops).kind = "prompt"
    BY <1>2, <1>3, RestOnly
  <2>3. "close" # "note" /\ "close" # "prompt"
    OBVIOUS
  <2> QED BY <1>3, <2>1, <2>2, <2>3
<1>6. v \in Socket /\ v \notin Live /\ v \notin stalled
  <2>1. v \in Socket
    BY <1>2 DEF TypeOK
  <2>2. Closes(ready[1].ops, v)
    BY <1>2, <1>3, <1>4 DEF Closes, ops
  <2>3. v \notin Live
    BY <1>1, <1>4, <2>1, <2>2 DEF LeavingInv
  <2> QED BY <1>2, <2>1, <2>3 DEF Live
<1>7. /\ Live' = Live /\ Held' = Held \cup {v} /\ Capable' = Capable /\ Needs' = Needs \ {v} /\ v \notin Held
  BY <1>2, <1>6 DEF Live, Held, Capable, Needs, SupportsHandoff
<1>8. /\ \A u \in Socket : u # v => parked'[u] = parked[u]
      /\ Len(parked'[v]) = 1 /\ DOMAIN parked'[v] = {1} /\ parked'[v][1] = Rest
  <2>1. parked[v] = <<>>
    BY <1>1, <1>6 DEF WaitsInv
  <2>2. parked \in [Socket -> Seq(Coroutine)]
    BY CoroutineType
  <2>3. parked'[v] = <<Rest>> /\ \A u \in Socket : u # v => parked'[u] = parked[u]
    BY <1>2, <1>6, <2>1, <2>2
  <2> QED BY <2>3
<1>9. /\ DOMAIN ready' = 1..Len(ready) - 1 /\ Len(ready') = Len(ready) - 1
      /\ \A i \in DOMAIN ready : i # 1 => i - 1 \in DOMAIN ready' /\ ready'[i - 1] = ready[i]
      /\ \A i \in DOMAIN ready' : i \in Nat /\ i + 1 \in DOMAIN ready /\ ready'[i] = ready[i + 1]
  <2> DEFINE t == Tail(ready)
  <2>1. ready \in Seq(Coroutine)
    BY CoroutineType
  <2>2. /\ Len(t) = Len(ready) - 1 /\ DOMAIN t = 1..Len(ready) - 1
        /\ \A i \in 1..Len(ready) - 1 : t[i] = ready[i + 1]
    BY <1>2, <2>1
  <2>3. ready' = t
    BY <1>2
  <2> HIDE DEF t
  <2>4. \A i \in DOMAIN ready : i # 1 => i - 1 \in 1..Len(ready) - 1 /\ (i - 1) + 1 = i
    BY <1>4
  <2>5. \A i \in 1..Len(ready) - 1 : i \in Nat /\ i + 1 \in DOMAIN ready
    BY <1>4
  <2> QED BY <2>2, <2>3, <2>4, <2>5
<1>10. ShapesInv'
  <2>1. \A u \in Socket : \A i \in DOMAIN parked'[u] : Shaped(parked'[u][i].owner, parked'[u][i].ops)
    <3> SUFFICES ASSUME NEW u \in Socket, NEW i \in DOMAIN parked'[u]
                 PROVE  Shaped(parked'[u][i].owner, parked'[u][i].ops)
      OBVIOUS
    <3>1. CASE u = v
      BY <1>3, <1>8, <3>1
    <3>2. CASE u # v
      BY <1>1, <1>8, <3>2, Zenon DEF ShapesInv, AllShaped
    <3> QED BY <3>1, <3>2
  <2>2. \A i \in DOMAIN ready' : Shaped(ready'[i].owner, ready'[i].ops)
    BY <1>1, <1>9, Zenon DEF ShapesInv, AllShaped
  <2> QED BY <2>1, <2>2, Zenon DEF ShapesInv, AllShaped
<1>11. WaitsInv'
  <2>1. IsFiniteSet(stalled') /\ \A u, x \in Live : u = x
    BY <1>1, <1>2, FS_AddElement DEF WaitsInv
  <2>2. ASSUME NEW u \in Socket \ stalled' PROVE parked'[u] = <<>>
    BY <1>1, <1>2, <1>8, <2>2 DEF WaitsInv
  <2>3. ASSUME NEW u \in Held \cup {v}
        PROVE  Len(parked'[u]) = 1 /\ parked'[u][1].owner = u /\ Prompts(parked'[u][1].ops) = {}
    <3>1. CASE u = v
      BY <1>3, <1>5, <1>8, <3>1
    <3>2. CASE u # v
      <4>1. u \in Held /\ u \in Socket
        BY <2>3, <3>2 DEF Held, LoopType
      <4> QED BY <1>1, <1>8, <3>2, <4>1 DEF WaitsInv
    <3> QED BY <3>1, <3>2
  <2>4. ASSUME NEW u \in Socket, NEW i \in DOMAIN parked'[u], NEW x \in Socket
        PROVE  ~Leaves(parked'[u][i].ops, x) /\ (Closes(parked'[u][i].ops, x) => x = u)
    <3>1. CASE u = v
      BY <1>3, <1>5, <1>8, <3>1
    <3>2. CASE u # v
      BY <1>1, <1>8, <3>2, Zenon DEF WaitsInv
    <3> QED BY <3>1, <3>2
  <2> QED BY <1>7, <2>1, <2>2, <2>3, <2>4, Zenon DEF WaitsInv
<1>12. LeavingInv'
  <2>1. ASSUME NEW i \in DOMAIN ready', NEW x \in Socket, Leaves(ready'[i].ops, x) \/ Closes(ready'[i].ops, x)
        PROVE  x \notin Live
    BY <1>1, <1>9, <2>1, Zenon DEF LeavingInv
  <2>2. ASSUME NEW i \in DOMAIN ready', NEW j \in DOMAIN ready', NEW x \in Socket, i < j, Leaves(ready'[i].ops, x)
        PROVE  Prompts(ready'[j].ops) = {}
    <3>1. i + 1 < j + 1
      BY <1>9, <2>2
    <3> QED BY <1>1, <1>9, <2>2, <3>1, Zenon DEF LeavingInv
  <2> QED BY <1>7, <2>1, <2>2, Zenon DEF LeavingInv
<1>13. FreshInv'
  <2> SUFFICES ASSUME Live # {} PROVE Len(ready') <= 1 /\ DOMAIN ready' = {}
    BY <1>7, Zenon DEF FreshInv
  <2>1. Len(ready) = 1
    BY <1>1, <1>4 DEF FreshInv
  <2> QED BY <1>9, <2>1
<1>14. BehindInv'
  <2>1. \A u \in Live : u \in Socket /\ parked'[u] = parked[u]
    BY <1>6, <1>8 DEF Live, TypeOK
  <2> SUFFICES ASSUME NEW u \in Live, NEW i \in DOMAIN parked'[u], NEW j \in Prompts(parked'[u][i].ops)
               PROVE  /\ u \in Capable
                      /\ parked'[u][i].ops[j].to \in connected => <<u, parked'[u][i].ops[j].to>> \in older
    BY <1>2, <1>7, Zenon DEF BehindInv
  <2>2. parked'[u] = parked[u]
    BY <2>1
  <2>3. i \in DOMAIN parked[u] /\ j \in Prompts(parked[u][i].ops)
    BY <2>2
  <2>4. /\ u \in Capable
        /\ parked[u][i].ops[j].to \in connected => <<u, parked[u][i].ops[j].to>> \in older
    BY <1>1, <2>3, Zenon DEF BehindInv
  <2> QED BY <2>2, <2>4
<1>15. HeldComposes \/ Composes(ops) => HeldComposes'
  <2>1. \A u \in Held : u \in Socket /\ parked'[u] = parked[u]
    BY <1>7, <1>8 DEF Held, LoopType
  <2>2. Composes(ops) => Composes(rest)
    <3>1. "close" # "broadcast_handoff"
      OBVIOUS
    <3>2. Composes(ops) /\ Head(ops).kind # "broadcast_handoff" => Composes(Tail(ops))
      BY <1>2, <1>3, HeadAndRest
    <3> QED BY <1>3, <3>1, <3>2
  <2>3. Composes(ops) => Composes(parked'[v][1].ops)
    BY <1>3, <1>8, <2>2
  <2> QED BY <1>7, <2>1, <2>3, Zenon DEF HeldComposes
<1>16. NotLost'
  <2> SUFFICES ASSUME NEW w \in Needs \ {v}
               PROVE  view'[w].prompt = request \/ \E d \in InFlight' : Updates(d.ops, w, request)
    BY <1>2, <1>7, Zenon DEF NotLost
  <2>1. Rest \in InFlight' /\ InFlight \ {Current} \subseteq InFlight'
    BY SendFlight
  <2>2. w \in Socket /\ view'[w] = view[w]
    BY <1>2 DEF Needs, Capable, TypeOK, LoopType
  <2>3. Updates(ops, w, request) => Updates(rest, w, request)
    <3>1. Updates(ops, w, request) => Composes(ops)
      BY <1>5, NoPrompts
    <3>2. Composes(ops) /\ Head(ops).kind # "broadcast_handoff" => Composes(Tail(ops))
      BY <1>2, <1>3, HeadAndRest
    <3>3. "close" # "broadcast_handoff"
      OBVIOUS
    <3> QED BY <1>3, <3>1, <3>2, <3>3 DEF Updates
  <2>4. ASSUME NEW d \in InFlight, Updates(d.ops, w, request) PROVE \E e \in InFlight' : Updates(e.ops, w, request)
    <3>1. CASE d = Current
      BY <1>3, <2>1, <2>3, <2>4, <3>1 DEF ops
    <3>2. CASE d # Current
      BY <2>1, <2>4, <3>2
    <3> QED BY <3>1, <3>2
  <2> QED BY <1>1, <2>2, <2>4 DEF NotLost
<1>17. ReadyInv'
  <2> SUFFICES ASSUME NEW w \in Needs \ {v}, NEW i \in DOMAIN ready', Outdated(ready'[i].ops, w, request)
               PROVE  HeldComposes' \/ \E j \in DOMAIN ready' : i < j /\ Updates(ready'[j].ops, w, request)
    BY <1>2, <1>7, Zenon DEF ReadyInv
  <2>1. i + 1 \in DOMAIN ready /\ Outdated(ready[i + 1].ops, w, request) /\ i \in Nat
    BY <1>9
  <2>2. HeldComposes \/ \E j \in DOMAIN ready : i + 1 < j /\ Updates(ready[j].ops, w, request)
    BY <1>1, <2>1, Zenon DEF ReadyInv
  <2>3. ASSUME NEW j \in DOMAIN ready, i + 1 < j, Updates(ready[j].ops, w, request)
        PROVE  \E k \in DOMAIN ready' : i < k /\ Updates(ready'[k].ops, w, request)
    <3>1. j # 1 /\ i < j - 1
      BY <1>4, <2>1, <2>3
    <3>2. j - 1 \in DOMAIN ready' /\ ready'[j - 1] = ready[j]
      BY <1>9, <3>1
    <3> QED BY <2>3, <3>1, <3>2
  <2> QED BY <1>15, <2>2, <2>3
<1>18. ParkedInv'
  <2>1. \A u \in Live : u \in Socket /\ parked'[u] = parked[u]
    BY <1>6, <1>8 DEF Live, TypeOK
  <2> SUFFICES ASSUME NEW w \in Needs', NEW u \in Live', NEW i \in DOMAIN parked'[u],
                      Outdated(parked'[u][i].ops, w, request)
               PROVE  \/ HeldComposes'
                      \/ \E j \in DOMAIN parked'[u] : i < j /\ Updates(parked'[u][j].ops, w, request)
                      \/ \E j \in DOMAIN ready' : Composes(ready'[j].ops) \/ TellsBoth(ready'[j].ops, u, w, request)
    BY <1>2, Zenon DEF ParkedInv
  <2>4. parked'[u] = parked[u] /\ i \in DOMAIN parked[u] /\ Outdated(parked[u][i].ops, w, request) /\ w \in Needs /\ u \in Live
    BY <1>7, <2>1
  <2>2. \/ HeldComposes
        \/ \E j \in DOMAIN parked[u] : i < j /\ Updates(parked[u][j].ops, w, request)
        \/ \E j \in DOMAIN ready : Composes(ready[j].ops) \/ TellsBoth(ready[j].ops, u, w, request)
    BY <1>1, <2>4, Zenon DEF ParkedInv
  <2>3. ASSUME NEW j \in DOMAIN ready, Composes(ready[j].ops) \/ TellsBoth(ready[j].ops, u, w, request)
        PROVE  \/ HeldComposes'
               \/ \E k \in DOMAIN ready' : Composes(ready'[k].ops) \/ TellsBoth(ready'[k].ops, u, w, request)
    <3>1. CASE j = 1
      BY <1>4, <1>5, <1>15, <2>3, <3>1, NoPrompts DEF ops
    <3>2. CASE j # 1
      BY <1>9, <2>3, <3>2
    <3> QED BY <3>1, <3>2
  <2> QED BY <1>15, <2>2, <2>3, <2>4, Zenon
<1> QED BY <1>10, <1>11, <1>12, <1>13, <1>14, <1>16, <1>17, <1>18 DEF PromptInv

\* A handler that leaves has the others told, from what is then pending.
LEMMA LeavePrompts ==
    ASSUME TypeOK, TypeOK', LoopType, PromptInv, Leave
    PROVE  PromptInv'
<1>1. /\ ShapesInv /\ WaitsInv /\ LeavingInv /\ FreshInv /\ BehindInv
      /\ NotLost /\ ReadyInv /\ ParkedInv
  BY DEF PromptInv
<1> DEFINE x == NextOp.to
           told == IF primary = x /\ primary' # NoSocket THEN <<primary'>> ELSE <<>>
           c == Task(x, Announce(told))
<1>2. /\ ready # <<>> /\ Current.ops # <<>> /\ NextOp.kind = "leave" /\ Disconnect(x)
      /\ dead' = dead \ {x} /\ GoOnWith(c) /\ stalled' = stalled /\ view' = view
  BY DEF Leave
<1>3. /\ x \in connected /\ connected' = connected \ {x} /\ client' = [client EXCEPT ![x] = NoClient]
      /\ older' = older \cap (connected' \X connected')
  BY <1>2 DEF Disconnect, Unregister
<1>4. x \in Socket /\ told \in Seq(Socket)
  <2>1. x \in Socket /\ primary' \in Socket \cup {NoSocket}
    BY <1>3 DEF TypeOK
  <2>2. primary' \in Socket => <<primary'>> \in Seq(Socket)
    OBVIOUS
  <2>3. <<>> \in Seq(Socket)
    OBVIOUS
  <2> QED BY <2>1, <2>2, <2>3
<1>5. c.ops = Announce(told) /\ c.owner = x
  BY DEF Task
<1>6. Announce(told) \in Seq(Ops) /\ Proper(x, Announce(told)) /\ Composes(Announce(told)) /\ Prompts(Announce(told)) = {}
  <2> HIDE DEF told, x
  <2>1. Announce(told) \in Seq(Ops)
    BY <1>4, AnnounceSends
  <2>2. <<>> \in Seq(Ops) /\ Introduces(x, <<>>) /\ <<>> \o Announce(told) = Announce(told)
    <3>1. DOMAIN <<>> = {}
      OBVIOUS
    <3>2. Introduces(x, <<>>)
      BY <3>1 DEF Introduces
    <3> QED BY <2>1, <3>2
  <2>3. /\ Proper(x, <<>> \o Announce(told)) /\ Composes(<<>> \o Announce(told))
        /\ Prompts(<<>> \o Announce(told)) = {}
    BY <1>4, <2>2, AnnounceShaped
  <2> QED BY <2>1, <2>2, <2>3
<1>7. /\ c \in Coroutine /\ Shaped(c.owner, c.ops) /\ Composes(c.ops) /\ Prompts(c.ops) = {}
      /\ \A v : ~Leaves(c.ops, v) /\ ~Closes(c.ops, v)
  <2>1. c \in Coroutine
    BY <1>4, <1>6 DEF Task, Coroutine
  <2> HIDE DEF c
  <2> QED BY <1>5, <1>6, <2>1 DEF Proper
<1> HIDE DEF c, told
<1>8. 1 \in DOMAIN ready /\ Current = ready[1] /\ DOMAIN ready = 1..Len(ready) /\ Len(ready) \in Nat \ {0}
      /\ Current.ops \in Seq(Ops)
  BY <1>2, FirstPlace
<1>9. Leaves(Current.ops, x) /\ x \notin Live
  <2>1. 1 \in DOMAIN Current.ops /\ Current.ops[1] = NextOp
    BY <1>2, <1>8 DEF NextOp
  <2>2. Leaves(Current.ops, x)
    BY <1>2, <2>1 DEF Leaves
  <2> QED BY <1>1, <1>4, <1>8, <2>2 DEF LeavingInv
<1> HIDE DEF x
<1>10. /\ parked' = parked /\ DOMAIN ready' = DOMAIN ready /\ Len(ready') = Len(ready) /\ ready'[1] = c
       /\ \A i \in DOMAIN ready : i # 1 => ready'[i] = ready[i]
  BY <1>2, <1>7, GoOnPlaces
<1>11. \A i \in DOMAIN ready' : Prompts(ready'[i].ops) = {}
  <2>1. ASSUME NEW i \in DOMAIN ready, i # 1 PROVE Prompts(ready[i].ops) = {}
    <3>1. 1 < i
      BY <1>8, <2>1
    <3> QED BY <1>1, <1>4, <1>8, <1>9, <3>1 DEF LeavingInv
  <2> QED BY <1>7, <1>10, <2>1
<1>12. /\ Live' = Live /\ Held' = Held /\ Capable' = Capable \ {x} /\ Needs' = Needs \ {x}
       /\ \A v \in Live : v # x
  <2>1. \A w \in connected' : SupportsHandoff(w)' <=> SupportsHandoff(w)
    BY <1>3 DEF SupportsHandoff, TypeOK
  <2>2. Live' = Live
    BY <1>2, <1>3, <1>9 DEF Live
  <2>3. Capable' = Capable \ {x}
    BY <1>3, <2>1 DEF Capable
  <2> QED BY <1>2, <1>3, <1>9, <2>2, <2>3 DEF Held, Needs
<1>13. ShapesInv'
  <2>1. \A u \in Socket : AllShaped(parked[u])
    BY <1>1 DEF ShapesInv
  <2>2. \A i \in DOMAIN ready' : Shaped(ready'[i].owner, ready'[i].ops)
    BY <1>1, <1>7, <1>10, Zenon DEF ShapesInv, AllShaped
  <2> QED BY <1>10, <2>1, <2>2, Zenon DEF ShapesInv, AllShaped
<1>14. WaitsInv'
  BY <1>1, <1>2, <1>10, <1>12, SameWaits
<1>15. LeavingInv'
  <2>1. ASSUME NEW i \in DOMAIN ready', NEW v \in Socket, Leaves(ready'[i].ops, v) \/ Closes(ready'[i].ops, v)
        PROVE  v \notin Live
    BY <1>1, <1>7, <1>10, <2>1, Zenon DEF LeavingInv
  <2> QED BY <1>11, <1>12, <2>1, Zenon DEF LeavingInv
<1>16. FreshInv'
  <2> SUFFICES ASSUME Live # {} PROVE Len(ready') <= 1
    BY <1>11, <1>12, NoPrompts, Zenon DEF FreshInv
  <2> QED BY <1>1, <1>10 DEF FreshInv
<1>17. BehindInv'
  <2> SUFFICES ASSUME NEW v \in Live, NEW i \in DOMAIN parked[v], NEW j \in Prompts(parked[v][i].ops)
               PROVE  /\ v \in Capable \ {x}
                      /\ parked[v][i].ops[j].to \in connected' => <<v, parked[v][i].ops[j].to>> \in older'
    BY <1>10, <1>12, Zenon DEF BehindInv
  <2>1. /\ v \in Capable
        /\ parked[v][i].ops[j].to \in connected => <<v, parked[v][i].ops[j].to>> \in older
    BY <1>1, Zenon DEF BehindInv
  <2>2. v \in connected'
    BY <1>3, <1>12 DEF Live
  <2> QED BY <1>3, <1>12, <2>1, <2>2
<1>18. NotLost'
  <2>1. c \in InFlight'
    BY <1>2, GoOnFlight
  <2>2. \A w, r : Updates(c.ops, w, r)
    BY <1>7 DEF Updates
  <2> QED BY <2>1, <2>2, Zenon DEF NotLost
<1>19. ReadyInv'
  BY <1>11, NoPrompts, Zenon DEF ReadyInv
<1>20. ParkedInv'
  <2>1. 1 \in DOMAIN ready' /\ Composes(ready'[1].ops)
    BY <1>7, <1>8, <1>10
  <2> QED BY <2>1, Zenon DEF ParkedInv
<1> QED BY <1>13, <1>14, <1>15, <1>16, <1>17, <1>18, <1>19, <1>20 DEF PromptInv

Broadcasts == {"broadcast_handoff", "broadcast_roster", "broadcast_full_state"}

\* What each broadcast sends.
KindSent(kind) ==
    CASE kind = "broadcast_handoff" -> "prompt"
      [] kind = "broadcast_roster" -> "roster"
      [] kind = "broadcast_full_state" -> "songs"

\* A broadcast of one text, or of snapshots.
LEMMA ExpansionKind ==
    ASSUME TypeOK, OrderInv, NEW op, op.kind \in Broadcasts
    PROVE  /\ Expansion(op) \in Seq(Ops)
           /\ \A i \in DOMAIN Expansion(op) : Expansion(op)[i].kind = KindSent(op.kind)
<1> DEFINE e == Expansion(op)
<1>1. e \in Seq(Ops)
  BY ExpansionType, OpsType DEF Broadcasts
<1>2. \A ws, kind, text : DOMAIN ToEach(ws, kind, text) = DOMAIN ws
                          /\ \A i \in DOMAIN ws : ToEach(ws, kind, text)[i].kind = kind
  BY DEF ToEach, Op
<1>3. \E ws, text : e = ToEach(ws, KindSent(op.kind), text)
  BY DEF Broadcasts, KindSent, Expansion
<1> QED BY <1>1, <1>2, <1>3

\* The handoff text as broadcast_handoff composes it: to every device that understands it,
\* in the order in which they connected.
LEMMA HandoffSent ==
    ASSUME TypeOK, OrderInv, NEW op, op.kind = "broadcast_handoff"
    PROVE  /\ Fresh(Expansion(op), request, Capable, older)
           /\ \A w \in Capable : \E i \in Prompts(Expansion(op)) : Expansion(op)[i].to = w
<1> DEFINE n == Cardinality(Capable)
           f == InOrder(Capable)
           e == Expansion(op)
<1>1. e = ToEach(f, "prompt", request)
  BY DEF Expansion, Capable
<1>2. /\ n \in Nat /\ f \in [1..n -> Capable] /\ DOMAIN f = 1..n
      /\ \A i, j \in 1..n : i < j => <<f[i], f[j]>> \in older
  <2>1. Capable \in SUBSET connected
    BY DEF Capable
  <2> HIDE DEF f
  <2>2. n \in Nat /\ f \in [1..n -> Capable] /\ \A i, j \in 1..n : i < j => <<f[i], f[j]>> \in older
    BY <2>1, InOrderType DEF f
  <2> QED BY <2>2
<1>3. \A w \in Capable : \E i \in 1..n : f[i] = w
  <2>1. Capable \in SUBSET connected
    BY DEF Capable
  <2> QED BY <2>1, InOrderLists
<1> HIDE DEF f, n
<1>4. DOMAIN e = 1..n /\ \A i \in 1..n : e[i].kind = "prompt" /\ e[i].to = f[i] /\ e[i].text = request
  BY <1>1, <1>2 DEF ToEach, Op
<1> HIDE DEF e
<1>5. Prompts(e) = 1..n
  BY <1>4 DEF Prompts
<1>6. Fresh(e, request, Capable, older)
  BY <1>2, <1>4, <1>5 DEF Fresh
<1>7. \A w \in Capable : \E i \in Prompts(e) : e[i].to = w
  BY <1>3, <1>4, <1>5
<1> QED BY <1>6, <1>7 DEF e

\* A coroutine that starts with a broadcast has no handoff text, and neither closes nor leaves.
LEMMA BroadcastFirst ==
    ASSUME NEW o, NEW ops \in Seq(Ops), ops # <<>>, Shaped(o, ops), Head(ops).kind \in Broadcasts
    PROVE  /\ Prompts(ops) = {}
           /\ \A i \in DOMAIN ops :
                  /\ ops[i].kind \notin {"prompt", "close", "leave"}
                  /\ ops[i].kind = "broadcast_handoff" /\ Head(ops).kind = "broadcast_handoff" => i = 1
                  /\ ops[i].kind \in SongKinds <=> Head(ops).kind = "broadcast_full_state"
<1> DEFINE h == Head(ops).kind
<1>1. 1 \in DOMAIN ops /\ h = ops[1].kind /\ \A i \in DOMAIN ops : i \in Nat /\ 1 \in 1..i
  OBVIOUS
<1> HIDE DEF h
<1>2. h \in Broadcasts
  BY DEF h
<1>3. ASSUME NEW i \in Prompts(ops) PROVE FALSE
  <2>1. 1 \in 1..i
    BY <1>1 DEF Prompts
  <2>2. 1 \in Prompts(ops)
    BY <2>1, Zenon DEF Shaped
  <2> QED BY <1>1, <1>2, <2>2 DEF Prompts, Broadcasts
<1>4. ASSUME NEW i \in DOMAIN ops PROVE ops[i].kind \notin {"prompt", "close", "leave"}
  <2>1. ops[i].kind # "prompt"
    BY <1>3 DEF Prompts
  <2>2. ASSUME ops[i].kind = "close" PROVE FALSE
    <3>1. ops[1].kind \in {"close", "note"}
      BY <2>2 DEF Shaped
    <3> QED BY <1>1, <1>2, <3>1 DEF Broadcasts
  <2>3. ASSUME ops[i].kind = "leave" PROVE FALSE
    <3>1. DOMAIN ops = {1}
      BY <2>3, Zenon DEF Shaped
    <3>2. ops[1].kind = "leave"
      BY <2>3, <3>1
    <3> QED BY <1>1, <1>2, <3>2 DEF Broadcasts
  <2> QED BY <2>1, <2>2, <2>3
<1>5. ASSUME NEW i \in DOMAIN ops, ops[i].kind = "broadcast_handoff", h = "broadcast_handoff" PROVE i = 1
  BY <1>1, <1>5, Zenon DEF Shaped
<1>6. ASSUME NEW i \in DOMAIN ops PROVE ops[i].kind \in SongKinds <=> h = "broadcast_full_state"
  <2>1. ops[i].kind \in SongKinds <=> ops[1].kind \in SongKinds
    BY <1>1, Zenon DEF Shaped
  <2>2. h \in SongKinds <=> h = "broadcast_full_state"
    BY <1>2 DEF SongKinds, Broadcasts
  <2> QED BY <1>1, <2>1, <2>2
<1> QED BY <1>3, <1>4, <1>5, <1>6, Zenon DEF h

\* Its sends in the place of the broadcast keep the shape.
LEMMA ExpandedShape ==
    ASSUME NEW o, NEW ops \in Seq(Ops), ops # <<>>, Shaped(o, ops), Head(ops).kind \in Broadcasts,
           NEW e \in Seq(Ops), \A i \in DOMAIN e : e[i].kind = KindSent(Head(ops).kind),
           \A i, j \in Prompts(e) : e[i].text = e[j].text
    PROVE  /\ e \o Tail(ops) \in Seq(Ops) /\ Shaped(o, e \o Tail(ops))
           /\ \A w : ~Leaves(e \o Tail(ops), w) /\ ~Closes(e \o Tail(ops), w)
           /\ Prompts(e \o Tail(ops)) = Prompts(e) /\ \A i \in Prompts(e) : (e \o Tail(ops))[i] = e[i]
           /\ Composes(ops) => Composes(e \o Tail(ops)) \/ Head(ops).kind = "broadcast_handoff"
<1> DEFINE h == Head(ops).kind
           rest == Tail(ops)
           s == e \o rest
           m == Len(e)
<1>1. /\ rest \in Seq(Ops) /\ DOMAIN rest = 1..Len(ops) - 1 /\ Len(ops) \in Nat \ {0} /\ DOMAIN ops = 1..Len(ops)
      /\ \A j \in 1..Len(ops) - 1 : j + 1 \in DOMAIN ops /\ rest[j] = ops[j + 1]
  BY TailShaped
<1> HIDE DEF rest
<1>2. s \in Seq(Ops) /\ Joined(s, e, rest)
  BY <1>1, ListAfterList
<1> HIDE DEF h, s, m
<1>3. /\ m \in Nat /\ DOMAIN e = 1..m
      /\ \A i \in DOMAIN e : i \in DOMAIN s /\ s[i] = e[i]
      /\ \A i \in DOMAIN rest : m + i \in DOMAIN s /\ s[m + i] = rest[i]
      /\ \A i \in DOMAIN s : i \in DOMAIN e \/ \E j \in DOMAIN rest : i = m + j
  BY <1>2, Zenon DEF Joined, m
<1>4. ASSUME NEW i \in DOMAIN s, i \notin DOMAIN e
      PROVE  \E j \in DOMAIN ops : j # 1 /\ i = m + (j - 1) /\ s[i] = ops[j]
  <2>1. PICK j \in DOMAIN rest : i = m + j
    BY <1>3, <1>4
  <2>2. j + 1 \in DOMAIN ops /\ rest[j] = ops[j + 1] /\ s[i] = rest[j] /\ j \in Nat \ {0}
    BY <1>1, <1>3, <2>1
  <2>3. j + 1 # 1 /\ (j + 1) - 1 = j
    BY <2>2
  <2> QED BY <2>1, <2>2, <2>3
<1>5. \A j \in DOMAIN ops : j # 1 => m + (j - 1) \in DOMAIN s /\ s[m + (j - 1)] = ops[j]
  <2> SUFFICES ASSUME NEW j \in DOMAIN ops, j # 1 PROVE m + (j - 1) \in DOMAIN s /\ s[m + (j - 1)] = ops[j]
    OBVIOUS
  <2>1. j - 1 \in DOMAIN rest /\ rest[j - 1] = ops[j]
    <3>1. j - 1 \in 1..Len(ops) - 1 /\ (j - 1) + 1 = j
      BY <1>1
    <3> QED BY <1>1, <3>1
  <2> QED BY <1>3, <2>1
<1>6. /\ h \in Broadcasts /\ \A i \in DOMAIN e : e[i].kind = KindSent(h)
      /\ 1 \in DOMAIN ops /\ ops[1].kind = h
  BY DEF h
<1>7. /\ Prompts(ops) = {}
      /\ \A i \in DOMAIN ops :
             /\ ops[i].kind \notin {"prompt", "close", "leave"}
             /\ ops[i].kind = "broadcast_handoff" /\ h = "broadcast_handoff" => i = 1
             /\ ops[i].kind \in SongKinds <=> h = "broadcast_full_state"
  BY BroadcastFirst DEF h
<1>8. KindSent(h) \in {"prompt", "roster", "songs"} /\ (KindSent(h) \in SongKinds <=> h = "broadcast_full_state")
  BY <1>6 DEF KindSent, Broadcasts, SongKinds
<1>9. ASSUME NEW i \in DOMAIN s
      PROVE  /\ s[i].kind \notin {"close", "leave"} /\ (s[i].kind \in SongKinds <=> h = "broadcast_full_state")
             /\ s[i].kind = "prompt" => i \in DOMAIN e
             /\ s[i].kind = "broadcast_handoff" => i \notin DOMAIN e
  <2>1. CASE i \in DOMAIN e
    BY <1>3, <1>6, <1>8, <2>1
  <2>2. CASE i \notin DOMAIN e
    BY <1>4, <1>7, <2>2
  <2> QED BY <2>1, <2>2
<1>10. Prompts(s) = Prompts(e) /\ \A i \in Prompts(e) : s[i] = e[i]
  BY <1>3, <1>9 DEF Prompts
<1>11. \A i \in Prompts(e) : \A j \in 1..i : j \in Prompts(e)
  <2> SUFFICES ASSUME NEW i \in Prompts(e), NEW j \in 1..i PROVE j \in DOMAIN e /\ e[j].kind = "prompt"
    BY DEF Prompts
  <2>1. i \in DOMAIN e /\ e[i].kind = "prompt"
    BY DEF Prompts
  <2>2. j \in DOMAIN e
    BY <1>3, <2>1
  <2> QED BY <1>6, <2>1, <2>2
<1>12. ASSUME NEW i \in DOMAIN s, s[i].kind = "broadcast_handoff"
       PROVE  Prompts(s) = {} /\ \A j \in DOMAIN s : s[j].kind = "broadcast_handoff" => j = i
  <2>1. PICK k \in DOMAIN ops : k # 1 /\ i = m + (k - 1) /\ s[i] = ops[k]
    BY <1>4, <1>9, <1>12
  <2>2. h # "broadcast_handoff"
    BY <1>7, <1>12, <2>1
  <2>3. KindSent(h) # "prompt"
    BY <1>6, <2>2 DEF KindSent, Broadcasts
  <2>4. Prompts(s) = {}
    BY <1>6, <1>10, <2>3 DEF Prompts
  <2>5. ASSUME NEW j \in DOMAIN s, s[j].kind = "broadcast_handoff" PROVE j = i
    <3>1. PICK l \in DOMAIN ops : l # 1 /\ j = m + (l - 1) /\ s[j] = ops[l]
      BY <1>4, <1>9, <2>5
    <3>2. l = k
      BY <1>12, <2>1, <2>5, <3>1 DEF Shaped
    <3> QED BY <2>1, <3>1, <3>2
  <2> QED BY <2>4, <2>5
<1>13. Shaped(o, s)
  <2>1. \A i \in Prompts(s) : \A j \in 1..i : j \in Prompts(s) /\ s[j].text = s[i].text
    BY <1>10, <1>11
  <2> QED BY <1>9, <1>12, <2>1, Zenon DEF Shaped
<1>14. \A w : ~Leaves(s, w) /\ ~Closes(s, w)
  <2>1. s # <<>> => 1 \in DOMAIN s /\ Head(s) = s[1]
    BY <1>2
  <2> QED BY <1>9, <2>1 DEF Leaves, Closes
<1>15. ASSUME Composes(ops), h # "broadcast_handoff" PROVE Composes(s)
  <2>1. PICK j \in DOMAIN ops : ops[j].kind = "broadcast_handoff"
    BY <1>15 DEF Composes
  <2>2. j # 1
    BY <1>6, <1>15, <2>1
  <2> QED BY <1>5, <2>1, <2>2 DEF Composes
<1> QED BY <1>2, <1>10, <1>13, <1>14, <1>15, Zenon DEF s, rest, h

\* A handoff text goes to whoever is there when it is composed, in their order; the other
\* broadcasts leave the handoff texts alone.
LEMMA ExpandPrompts ==
    ASSUME TypeOK, OrderInv, LoopType, PromptInv, Expand
    PROVE  PromptInv'
<1> DEFINE ops == Current.ops
           e == Expansion(NextOp)
           c == Task(Current.owner, e \o Tail(ops))
<1>1. /\ ready # <<>> /\ ops # <<>> /\ NextOp.kind \in Broadcasts /\ GoOnWith(c)
      /\ UNCHANGED <<vars, deviceVars>>
  BY DEF Expand, Broadcasts
<1>2. UNCHANGED <<vars, stalled, dead>> /\ view' = view
  BY <1>1 DEF deviceVars
<1>3. Shaped(Current.owner, ops) /\ ops \in Seq(Ops) /\ NextOp = Head(ops) /\ Current.owner \in Socket \cup {NoSocket}
  BY <1>1, RestShaped, FirstPlace DEF PromptInv
<1>4. c.owner = Current.owner /\ c.ops = e \o Tail(ops)
  BY DEF Task
<1>5. e \in Seq(Ops) /\ \A i \in DOMAIN e : e[i].kind = KindSent(NextOp.kind)
  BY <1>1, ExpansionKind
<1>6. NextOp.kind = "broadcast_handoff" =>
          /\ Fresh(e, request, Capable, older)
          /\ \A w \in Capable : \E i \in Prompts(e) : e[i].to = w
  BY HandoffSent
<1>7. NextOp.kind # "broadcast_handoff" => Prompts(e) = {}
  <2>1. NextOp.kind # "broadcast_handoff" => KindSent(NextOp.kind) # "prompt"
    BY <1>1 DEF KindSent, Broadcasts
  <2> QED BY <1>5, <2>1 DEF Prompts
<1>8. \A i, j \in Prompts(e) : e[i].text = e[j].text
  BY <1>6, <1>7 DEF Fresh
<1>9. /\ c \in Coroutine
      /\ Shaped(c.owner, c.ops) /\ \A w : ~Leaves(c.ops, w) /\ ~Closes(c.ops, w)
      /\ Prompts(c.ops) = Prompts(e) /\ \A i \in Prompts(e) : c.ops[i] = e[i]
      /\ Composes(ops) => Composes(c.ops) \/ NextOp.kind = "broadcast_handoff"
  <2> HIDE DEF e, ops, c
  <2>1. /\ e \o Tail(ops) \in Seq(Ops) /\ Shaped(Current.owner, e \o Tail(ops))
        /\ \A w : ~Leaves(e \o Tail(ops), w) /\ ~Closes(e \o Tail(ops), w)
        /\ Prompts(e \o Tail(ops)) = Prompts(e) /\ \A i \in Prompts(e) : (e \o Tail(ops))[i] = e[i]
        /\ Composes(ops) => Composes(e \o Tail(ops)) \/ NextOp.kind = "broadcast_handoff"
    <3>1. ops \in Seq(Ops) /\ ops # <<>> /\ Shaped(Current.owner, ops)
      BY <1>1, <1>3
    <3>2. e \in Seq(Ops) /\ Head(ops).kind \in Broadcasts /\ \A i \in DOMAIN e : e[i].kind = KindSent(Head(ops).kind)
      BY <1>1, <1>3, <1>5
    <3>3. Composes(ops) => Composes(e \o Tail(ops)) \/ Head(ops).kind = "broadcast_handoff"
      BY <1>8, <3>1, <3>2, ExpandedShape
    <3>4. /\ e \o Tail(ops) \in Seq(Ops) /\ Shaped(Current.owner, e \o Tail(ops))
          /\ \A w : ~Leaves(e \o Tail(ops), w) /\ ~Closes(e \o Tail(ops), w)
          /\ Prompts(e \o Tail(ops)) = Prompts(e) /\ \A i \in Prompts(e) : (e \o Tail(ops))[i] = e[i]
      BY <1>8, <3>1, <3>2, ExpandedShape
    <3> QED BY <1>3, <3>3, <3>4
  <2>2. c \in Coroutine
    BY <1>3, <2>1 DEF c, Task, Coroutine
  <2> QED BY <1>4, <2>1, <2>2
<1>10. Prompts(ops) = {}
  BY <1>1, <1>3, BroadcastFirst
<1> HIDE DEF c, e, ops
<1>11. Fresh(c.ops, request, Capable, older)
  BY <1>6, <1>7, <1>9 DEF Fresh
<1>12. ASSUME NEW w \in Needs
       PROVE  /\ Updates(ops, w, request) => Updates(c.ops, w, request)
              /\ ~Outdated(c.ops, w, request)
              /\ \A v \in Live \cap Capable :
                     <<v, w>> \in older /\ (Composes(ops) \/ TellsBoth(ops, v, w, request)) =>
                         Composes(c.ops) \/ TellsBoth(c.ops, v, w, request)
  <2>1. ~Outdated(c.ops, w, request)
    BY <1>11 DEF Fresh, Outdated
  <2>2. Updates(ops, w, request) => Composes(ops)
    BY <1>10, NoPrompts
  <2>3. Composes(ops) => Updates(c.ops, w, request)
    <3>1. CASE NextOp.kind = "broadcast_handoff"
      <4>1. w \in Capable
        BY DEF Needs
      <4>2. PICK i \in Prompts(e) : e[i].to = w
        BY <1>6, <3>1, <4>1
      <4> QED BY <1>9, <1>11, <4>2 DEF Fresh, Updates
    <3>2. CASE NextOp.kind # "broadcast_handoff"
      BY <1>9, <3>2 DEF Updates
    <3> QED BY <3>1, <3>2
  <2>4. ASSUME NEW v \in Capable, <<v, w>> \in older, Composes(ops)
        PROVE  Composes(c.ops) \/ TellsBoth(c.ops, v, w, request)
    <3>1. CASE NextOp.kind = "broadcast_handoff"
      <4>1. w \in Capable
        BY DEF Needs
      <4>2. PICK i \in Prompts(c.ops) : c.ops[i].to = v
        BY <1>6, <1>9, <3>1
      <4>3. PICK j \in Prompts(c.ops) : c.ops[j].to = w
        BY <1>6, <1>9, <3>1, <4>1
      <4>4. i \in Nat /\ j \in Nat
        BY <1>9 DEF Prompts, Coroutine
      <4>5. v # w /\ <<w, v>> \notin older
        BY <2>4 DEF OrderInv
      <4>6. ~(j < i) /\ i # j
        BY <1>11, <4>2, <4>3, <4>5 DEF Fresh
      <4>7. i < j
        BY <4>4, <4>6
      <4> QED BY <1>11, <4>2, <4>3, <4>7 DEF Fresh, TellsBoth
    <3>2. CASE NextOp.kind # "broadcast_handoff"
      BY <1>9, <2>4, <3>2
    <3> QED BY <3>1, <3>2
  <2>5. \A v : ~TellsBoth(ops, v, w, request)
    BY <1>10, NoPrompts
  <2> QED BY <2>1, <2>2, <2>3, <2>4, <2>5
<1>13. Replaces(c)
  BY <1>2, <1>9, <1>11, <1>12, Zenon DEF Replaces, ops
<1> QED BY <1>1, <1>2, <1>13, GoOnPrompts

\* After a send the rest carries on, if what was sent is what is pending, or was overtaken,
\* or went to a device that does not matter, and was not held up by the stalled one.
LEMMA RestReplaces ==
    ASSUME TypeOK, LoopType, PromptInv, ready # <<>>, Current.ops # <<>>,
           NextOp.kind \notin Broadcasts,
           \A w \in Needs :
               IF NextOp.kind = "prompt" /\ NextOp.to = w
               THEN view'[w].prompt = NextOp.text ELSE view'[w].prompt = view[w].prompt,
           NextOp.kind \in {"prompt", "note"} => NextOp.to \notin Live
    PROVE  Replaces(Rest)
<1> DEFINE ops == Current.ops
           rest == Tail(Current.ops)
           op == NextOp
<1>1. ShapesInv /\ FreshInv
  BY DEF PromptInv
<1>2. /\ Shaped(Current.owner, ops) /\ ops \in Seq(Ops) /\ ops # <<>> /\ op = Head(ops) /\ rest = Tail(ops)
      /\ Rest \in Coroutine /\ Rest.ops = rest /\ Shaped(Rest.owner, Rest.ops)
  BY <1>1, RestShaped
<1>3. op.kind \notin Broadcasts /\ op.kind # "broadcast_handoff"
  BY DEF Broadcasts
<1>4. \A w \in Needs :
          IF op.kind = "prompt" /\ op.to = w
          THEN view'[w].prompt = op.text ELSE view'[w].prompt = view[w].prompt
  OBVIOUS
<1>5. op.kind \in {"prompt", "note"} => op.to \notin Live
  OBVIOUS
<1>6. Live # {} => Fresh(ops, request, Capable, older)
  <2>1. 1 \in DOMAIN ready /\ Current = ready[1]
    BY FirstPlace
  <2> QED BY <1>1, <2>1 DEF FreshInv
<1> HIDE DEF ops, rest, op
<1>7. /\ Composes(ops) => Composes(rest)
      /\ Fresh(ops, request, Capable, older) => Fresh(rest, request, Capable, older)
      /\ \A w : /\ Updates(ops, w, request) =>
                       \/ Updates(rest, w, request)
                       \/ op.kind = "prompt" /\ op.to = w /\ op.text = request
                /\ Outdated(rest, w, request) => Outdated(ops, w, request)
                /\ op.kind = "prompt" /\ op.to = w => op.text = request \/ Outdated(ops, w, request)
                /\ \A v : TellsBoth(ops, v, w, request) =>
                       TellsBoth(rest, v, w, request) \/ (op.kind = "prompt" /\ op.to = v)
  <2>1. /\ Composes(ops) /\ Head(ops).kind # "broadcast_handoff" => Composes(Tail(ops))
        /\ Fresh(ops, request, Capable, older) => Fresh(Tail(ops), request, Capable, older)
    BY <1>2, HeadAndRest, RestFresh
  <2>2. ASSUME NEW w
        PROVE  /\ Updates(ops, w, request) =>
                      \/ Updates(Tail(ops), w, request) \/ Head(ops).kind = "broadcast_handoff"
                      \/ Head(ops).kind = "prompt" /\ Head(ops).to = w /\ Head(ops).text = request
               /\ Outdated(Tail(ops), w, request) => Outdated(ops, w, request)
               /\ Head(ops).kind = "prompt" /\ Head(ops).to = w =>
                      Head(ops).text = request \/ Outdated(ops, w, request)
    BY <1>2, HeadAndRest
  <2>3. ASSUME NEW w, NEW v, TellsBoth(ops, v, w, request)
        PROVE  TellsBoth(Tail(ops), v, w, request) \/ (Head(ops).kind = "prompt" /\ Head(ops).to = v)
    BY <1>2, <2>3, HeadAndRest
  <2> QED BY <1>2, <1>3, <2>1, <2>2, <2>3
<1>8. \A v : ~Leaves(rest, v) /\ (Closes(rest, v) => v \notin Live)
  <2>1. \A v : ~Leaves(rest, v) /\ (Closes(rest, v) => op.kind = "note" /\ op.to = v)
    BY <1>2, RestOnly
  <2> QED BY <1>5, <2>1
<1>9. ASSUME NEW w \in Needs
      PROVE  /\ Updates(ops, w, request) => Updates(rest, w, request) \/ view'[w].prompt = request
             /\ Outdated(rest, w, request) => Outdated(ops, w, request)
             /\ view'[w].prompt \in {view[w].prompt, request} \/ Outdated(ops, w, request)
             /\ \A v \in Live \cap Capable :
                    <<v, w>> \in older /\ (Composes(ops) \/ TellsBoth(ops, v, w, request)) =>
                        Composes(rest) \/ TellsBoth(rest, v, w, request)
  <2>1. Updates(ops, w, request) => Updates(rest, w, request) \/ view'[w].prompt = request
    BY <1>4, <1>7
  <2>2. view'[w].prompt \in {view[w].prompt, request} \/ Outdated(ops, w, request)
    BY <1>4, <1>7
  <2>3. ASSUME NEW v \in Live, Composes(ops) \/ TellsBoth(ops, v, w, request)
        PROVE  Composes(rest) \/ TellsBoth(rest, v, w, request)
    BY <1>5, <1>7, <2>3
  <2> QED BY <1>7, <2>1, <2>2, <2>3
<1>10. Live # {} => Fresh(rest, request, Capable, older)
  BY <1>6, <1>7
<1> QED BY <1>2, <1>8, <1>9, <1>10, Zenon DEF Replaces, ops

\* A send that goes out, or fails, or is given up.
LEMMA SendingPrompts ==
    ASSUME TypeOK, LoopType, PromptInv, Abandon \/ SendFails \/ (Send /\ NextOp.to \notin stalled')
    PROVE  PromptInv'
<1>1. CASE Send /\ NextOp.to \notin stalled'
  <2>1. /\ ready # <<>> /\ Current.ops # <<>> /\ NextOp.kind \in SendKinds
        /\ NextOp.to \in connected \ dead /\ view' = [view EXCEPT ![NextOp.to] = ViewAfter(NextOp)]
        /\ NextOp.kind # "close" /\ UNCHANGED <<vars, stalled, dead>> /\ GoOnWith(Rest)
    BY <1>1 DEF Send
  <2>2. NextOp.to \notin Live
    BY <1>1, <2>1 DEF Live
  <2>3. NextOp.kind \notin Broadcasts
    BY <2>1 DEF SendKinds, Broadcasts
  <2>4. ASSUME NEW w \in Needs
        PROVE  IF NextOp.kind = "prompt" /\ NextOp.to = w
               THEN view'[w].prompt = NextOp.text ELSE view'[w].prompt = view[w].prompt
    <3>1. w \in Socket
      BY DEF Needs, Capable, TypeOK
    <3>2. CASE w # NextOp.to
      BY <2>1, <3>1, <3>2 DEF LoopType
    <3>3. CASE w = NextOp.to
      <4>1. view'[w] = ViewAfter(NextOp) /\ view[w] \in View
        BY <2>1, <3>1, <3>3 DEF LoopType
      <4>2. ViewAfter(NextOp).prompt = IF NextOp.kind = "prompt" THEN NextOp.text ELSE view[w].prompt
        BY <2>1, <3>3, <4>1 DEF ViewAfter, View, SendKinds
      <4> QED BY <3>3, <4>1, <4>2
    <3> QED BY <3>2, <3>3
  <2>5. Replaces(Rest)
    BY <2>1, <2>2, <2>3, <2>4, RestReplaces
  <2> QED BY <2>1, <2>5, GoOnPrompts
<1>2. ASSUME ready # <<>>, Current.ops # <<>>, NextOp.kind \notin Broadcasts, view' = view,
             NextOp.kind = "prompt" => NextOp.to \notin connected \ dead,
             NextOp.kind = "note" => NextOp.to \notin connected \ dead
      PROVE  Replaces(Rest)
  <2>1. ASSUME NEW w \in Needs, NextOp.kind = "prompt" PROVE NextOp.to # w
    BY <1>2, <2>1 DEF Needs, Capable
  <2>2. NextOp.kind \in {"prompt", "note"} => NextOp.to \notin Live
    BY <1>2 DEF Live
  <2> QED BY <1>2, <2>1, <2>2, RestReplaces
<1>3. CASE SendFails
  <2>1. /\ ready # <<>> /\ Current.ops # <<>> /\ NextOp.kind \in SendKinds
        /\ NextOp.to \notin connected \ dead /\ UNCHANGED <<vars, stalled, dead>> /\ view' = view
        /\ GoOnWith(IF NextOp.kind = "hello" THEN Task(Current.owner, <<>>) ELSE Rest)
    BY <1>3 DEF SendFails, deviceVars
  <2>2. NextOp.kind # "hello" /\ NextOp.kind \notin Broadcasts
    BY <2>1, NextType DEF SendKinds, Broadcasts
  <2>3. Replaces(Rest) /\ GoOnWith(Rest)
    BY <1>2, <2>1, <2>2
  <2> QED BY <2>1, <2>3, GoOnPrompts
<1>4. CASE Abandon
  <2>1. /\ ready # <<>> /\ Current.ops # <<>> /\ NextOp.kind \in {"role", "songs"}
        /\ UNCHANGED <<vars, stalled, dead>> /\ view' = view
        /\ GoOnWith(IF NextOp.kind = "songs" THEN Task(Current.owner, <<>>) ELSE Rest)
    BY <1>4 DEF Abandon, deviceVars
  <2>2. CASE NextOp.kind = "role"
    <3>1. Replaces(Rest) /\ GoOnWith(Rest)
      BY <1>2, <2>1, <2>2 DEF Broadcasts
    <3> QED BY <2>1, <3>1, GoOnPrompts
  <2>3. CASE NextOp.kind = "songs"
    <3> DEFINE c == Task(Current.owner, <<>>)
    <3>1. c.ops = <<>> /\ c.owner = Current.owner /\ c \in Coroutine
      <4>1. Current.owner \in Socket \cup {NoSocket} /\ <<>> \in Seq(Ops)
        BY <2>1, FirstPlace
      <4> QED BY <4>1 DEF Task, Coroutine
    <3>2. /\ Shaped(Current.owner, Current.ops) /\ Current.ops \in Seq(Ops) /\ NextOp = Head(Current.ops)
      BY <2>1, RestShaped DEF PromptInv
    <3>3. 1 \in DOMAIN Current.ops /\ Current.ops[1] = NextOp
      BY <2>1, <3>2
    <3>4. \A i \in DOMAIN Current.ops : Current.ops[i].kind \in SongKinds
      BY <2>3, <3>2, <3>3 DEF Shaped, SongKinds
    <3>5. Prompts(Current.ops) = {} /\ ~Composes(Current.ops)
      BY <3>4 DEF Prompts, Composes, SongKinds
    <3>6. Shaped(c.owner, c.ops) /\ Prompts(c.ops) = {} /\ \A v : ~Leaves(c.ops, v) /\ ~Closes(c.ops, v)
      <4>1. Shaped(Current.owner, <<>>)
        <5>1. DOMAIN <<>> = {}
          OBVIOUS
        <5> QED BY <5>1 DEF Shaped, Prompts
      <4> QED BY <3>1, <4>1, EmptyTells
    <3> HIDE DEF c
    <3>7. Fresh(c.ops, request, Capable, older) /\ \A w, r : ~Outdated(c.ops, w, r)
      BY <3>6, NoPrompts
    <3>8. \A w, v, r : ~Updates(Current.ops, w, r) /\ ~TellsBoth(Current.ops, v, w, r)
      BY <3>5, NoPrompts
    <3>9. Replaces(c)
      BY <2>1, <3>1, <3>5, <3>6, <3>7, <3>8 DEF Replaces
    <3>10. GoOnWith(c)
      BY <2>1, <2>3 DEF c
    <3> QED BY <2>1, <3>9, <3>10, GoOnPrompts
  <2> QED BY <2>1, <2>2, <2>3
<1> QED BY <1>1, <1>3, <1>4

\* Every step of the event loop.
LEMMA EventLoopPrompts ==
    ASSUME TypeOK, TypeOK', OrderInv, LoopType, PromptInv, EventLoop
    PROVE  PromptInv'
<1>1. ASSUME Send, NextOp.to \in stalled' PROVE PromptInv'
  <2>1. CASE NextOp.kind = "close"
    BY <1>1, <2>1, ClosePrompts
  <2>2. CASE NextOp.kind # "close"
    <3>1. stalled' = stalled
      BY <1>1, <2>2 DEF Send
    <3> QED BY <1>1, <2>2, <3>1, ParkPrompts
  <2> QED BY <2>1, <2>2
<1> QED BY <1>1, FinishPrompts, ExpandPrompts, SendingPrompts, LeavePrompts DEF EventLoop

-----------------------------------------------------------------------------
(* Handoff texts: what happens outside *)

\* A new coroutine that composes a handoff text, or has a current one, loses nothing.
LEMMA StartPrompts ==
    ASSUME TypeOK, LoopType, PromptInv, ready = <<>>, NEW o, NEW ops, Start(o, ops),
           UNCHANGED <<connected, client, older, stalled, dead, view>>,
           Proper(o, ops), Fresh(ops, request', Capable, older), request' = request \/ Composes(ops)
    PROVE  PromptInv'
<1>1. /\ ShapesInv /\ WaitsInv /\ LeavingInv /\ FreshInv /\ BehindInv
      /\ NotLost /\ ReadyInv /\ ParkedInv
  BY DEF PromptInv
<1>2. /\ connected' = connected /\ client' = client /\ older' = older
      /\ stalled' = stalled /\ dead' = dead /\ view' = view
  OBVIOUS
<1>3. Live' = Live /\ Held' = Held /\ Capable' = Capable /\ Needs' = Needs
  BY <1>2, SameDevices
<1> DEFINE c == Task(o, ops)
<1>4. /\ parked' = parked /\ Len(ready') = 1 /\ DOMAIN ready' = {1} /\ ready'[1] = c
      /\ c.ops = ops /\ c.owner = o
  BY StartPlaces
<1> HIDE DEF c
<1>5. Shaped(o, ops) /\ \A v : ~Leaves(ops, v) /\ ~Closes(ops, v)
  BY DEF Proper
<1>6. \A w : ~Outdated(ops, w, request')
  BY DEF Fresh, Outdated
<1>7. c \in InFlight' /\ InFlight \subseteq InFlight'
  BY StartFlight DEF c
<1>8. ShapesInv'
  <2>1. \A i \in DOMAIN ready' : Shaped(ready'[i].owner, ready'[i].ops)
    BY <1>4, <1>5
  <2> QED BY <1>1, <1>4, <2>1, Zenon DEF ShapesInv, AllShaped
<1>9. WaitsInv'
  BY <1>1, <1>2, <1>3, <1>4, SameWaits
<1>10. LeavingInv'
  BY <1>4, <1>5 DEF LeavingInv
<1>11. FreshInv'
  BY <1>2, <1>3, <1>4 DEF FreshInv
<1>12. BehindInv'
  BY <1>1, <1>2, <1>3, <1>4, Zenon DEF BehindInv
<1>13. HeldComposes => HeldComposes'
  BY <1>3, <1>4, Zenon DEF HeldComposes
<1>14. CASE Composes(ops)
  <2>1. \A w, r : Updates(c.ops, w, r)
    BY <1>4, <1>14 DEF Updates
  <2>2. NotLost'
    BY <1>7, <2>1, Zenon DEF NotLost
  <2>3. ReadyInv'
    BY <1>4, <1>6, Zenon DEF ReadyInv
  <2>4. 1 \in DOMAIN ready' /\ Composes(ready'[1].ops)
    BY <1>4, <1>14
  <2>5. ParkedInv'
    BY <2>4, Zenon DEF ParkedInv
  <2> QED BY <1>8, <1>9, <1>10, <1>11, <1>12, <2>2, <2>3, <2>5 DEF PromptInv
<1>15. CASE request' = request
  <2>1. NotLost'
    BY <1>1, <1>2, <1>3, <1>7, <1>15, Zenon DEF NotLost
  <2>2. ReadyInv'
    BY <1>4, <1>6, Zenon DEF ReadyInv
  <2>3. DOMAIN ready = {}
    OBVIOUS
  <2>4. ParkedInv'
    <3> SUFFICES ASSUME NEW w \in Needs, NEW v \in Live, NEW i \in DOMAIN parked[v],
                        Outdated(parked[v][i].ops, w, request)
                 PROVE  \/ HeldComposes'
                        \/ \E j \in DOMAIN parked[v] : i < j /\ Updates(parked[v][j].ops, w, request)
      BY <1>3, <1>4, <1>15, Zenon DEF ParkedInv
    <3> QED BY <1>1, <1>13, <2>3, Zenon DEF ParkedInv
  <2> QED BY <1>8, <1>9, <1>10, <1>11, <1>12, <2>1, <2>2, <2>4 DEF PromptInv
<1> QED BY <1>14, <1>15

\* What says nothing to anybody and changes no request, like time passing.
LEMMA QuietPrompts ==
    ASSUME PromptInv,
           UNCHANGED <<connected, client, older, request, stalled, dead, view, ready, parked>>
    PROVE  PromptInv'
<1>1. /\ connected' = connected /\ client' = client /\ older' = older /\ request' = request
      /\ stalled' = stalled /\ dead' = dead /\ view' = view /\ ready' = ready /\ parked' = parked
  OBVIOUS
<1>2. Live' = Live /\ Held' = Held /\ Capable' = Capable /\ Needs' = Needs
  BY <1>1, SameDevices
<1>3. InFlight' = InFlight
  BY <1>1 DEF InFlight
<1>4. HeldComposes' <=> HeldComposes
  BY <1>1, <1>2, Zenon DEF HeldComposes
<1>5. ShapesInv' /\ LeavingInv' /\ FreshInv' /\ BehindInv'
  BY <1>1, <1>2, Zenon DEF PromptInv, ShapesInv, AllShaped, LeavingInv, FreshInv, BehindInv
<1>6. WaitsInv'
  BY <1>1, <1>2, SameWaits DEF PromptInv
<1>7. NotLost'
  BY <1>1, <1>2, <1>3, Zenon DEF PromptInv, NotLost
<1>8. ReadyInv'
  BY <1>1, <1>2, <1>4, Zenon DEF PromptInv, ReadyInv
<1>9. ParkedInv'
  <2> SUFFICES ASSUME NEW w \in Needs, NEW v \in Live, NEW i \in DOMAIN parked[v],
                      Outdated(parked[v][i].ops, w, request)
               PROVE  \/ HeldComposes
                      \/ \E j \in DOMAIN parked[v] : i < j /\ Updates(parked[v][j].ops, w, request)
                      \/ \E j \in DOMAIN ready : Composes(ready[j].ops) \/ TellsBoth(ready[j].ops, v, w, request)
    BY <1>1, <1>2, <1>4 DEF ParkedInv
  <2> QED BY Zenon DEF PromptInv, ParkedInv
<1> QED BY <1>5, <1>6, <1>7, <1>8, <1>9 DEF PromptInv

\* A device that connects comes last in the order, and everybody is told.
LEMMA ConnectPrompts ==
    ASSUME TypeOK, LoopType, PromptInv, NEW x \in Socket, NEW h \in Hello, Connects(x, h)
    PROVE  PromptInv'
<1>1. /\ ShapesInv /\ WaitsInv /\ LeavingInv /\ FreshInv /\ BehindInv
      /\ NotLost /\ ReadyInv /\ ParkedInv
  BY DEF PromptInv
<1> DEFINE told == IF Supersedes(DeclaredClient(h).client_id) THEN <<primary>> ELSE <<>>
           ops == <<Do("hello", x)>> \o Announce(told)
           c == Task(x, ops)
<1>2. /\ ready = <<>> /\ Connect(x, h) /\ \A d \in InFlight : d.owner # x
      /\ Start(x, ops) /\ view' = [view EXCEPT ![x] = NoView] /\ stalled' = stalled /\ dead' = dead
  BY DEF Connects, Event
<1>3. /\ x \notin connected /\ connected' = connected \cup {x} /\ client' = [client EXCEPT ![x] = DeclaredClient(h)]
      /\ older' = older \cup (connected \X {x}) /\ request' = request
  BY <1>2 DEF Connect, Register, reqVars
<1>4. told \in Seq(Socket)
  <2>1. Supersedes(DeclaredClient(h).client_id) => primary \in Socket
    BY DEF Supersedes, TypeOK
  <2>2. primary \in Socket => <<primary>> \in Seq(Socket)
    OBVIOUS
  <2>3. <<>> \in Seq(Socket)
    OBVIOUS
  <2> QED BY <2>1, <2>2, <2>3
<1> HIDE DEF told
<1>5. Proper(x, ops) /\ Composes(ops) /\ Prompts(ops) = {}
  <2> DEFINE hello == <<Do("hello", x)>>
  <2>1. Do("hello", x) \in Ops /\ Do("hello", x).kind = "hello"
    BY DoType DEF Kinds, SendKinds
  <2>2. hello \in Seq(Ops) /\ DOMAIN hello = {1} /\ hello[1].kind = "hello"
    BY <2>1
  <2> HIDE DEF hello
  <2>3. Introduces(x, hello)
    BY <2>2 DEF Introduces
  <2>4. /\ Proper(x, hello \o Announce(told)) /\ Composes(hello \o Announce(told))
        /\ Prompts(hello \o Announce(told)) = {}
    BY <1>4, <2>2, <2>3, AnnounceShaped
  <2> QED BY <2>4 DEF hello
<1>6. x \notin stalled
  <2>1. ASSUME x \in stalled PROVE FALSE
    <3>1. x \in Held
      BY <1>3, <2>1 DEF Held, Live
    <3>2. Len(parked[x]) = 1 /\ parked[x][1].owner = x /\ parked[x] \in Seq(Coroutine)
      BY <1>1, <3>1, CoroutineType DEF WaitsInv
    <3>3. parked[x][1] \in InFlight
      <4>1. 1 \in DOMAIN parked[x]
        BY <3>2
      <4> QED BY <4>1 DEF InFlight
    <3> QED BY <1>2, <3>2, <3>3
  <2> QED BY <2>1
<1> HIDE DEF ops
<1>7. /\ parked' = parked /\ Len(ready') = 1 /\ DOMAIN ready' = {1} /\ ready'[1] = c
      /\ c.ops = ops /\ c.owner = x
  BY <1>2, StartPlaces
<1>8. c \in InFlight'
  BY <1>2, StartFlight
<1> HIDE DEF c
<1>9. /\ Live' = Live /\ Held' = Held /\ Capable \subseteq Capable'
  <2>1. Live' = Live
    BY <1>2, <1>3, <1>6 DEF Live
  <2>2. \A w \in connected : client'[w] = client[w]
    BY <1>3 DEF TypeOK
  <2>3. Capable \subseteq Capable'
    BY <1>3, <2>2 DEF Capable, SupportsHandoff
  <2> QED BY <1>2, <2>1, <2>3 DEF Held
<1>10. Shaped(x, ops) /\ \A v : ~Leaves(ops, v) /\ ~Closes(ops, v)
  BY <1>5 DEF Proper
<1>11. ShapesInv'
  <2>1. \A i \in DOMAIN ready' : Shaped(ready'[i].owner, ready'[i].ops)
    BY <1>7, <1>10
  <2> QED BY <1>1, <1>7, <2>1, Zenon DEF ShapesInv, AllShaped
<1>12. WaitsInv'
  BY <1>1, <1>2, <1>7, <1>9, SameWaits
<1>13. LeavingInv'
  BY <1>7, <1>10 DEF LeavingInv
<1>14. FreshInv'
  <2>1. \A r, caps, order : Fresh(ops, r, caps, order)
    BY <1>5, NoPrompts
  <2> QED BY <1>7, <2>1 DEF FreshInv
<1>15. BehindInv'
  <2> SUFFICES ASSUME NEW v \in Live, NEW i \in DOMAIN parked[v], NEW j \in Prompts(parked[v][i].ops)
               PROVE  /\ v \in Capable'
                      /\ parked[v][i].ops[j].to \in connected' => <<v, parked[v][i].ops[j].to>> \in older'
    BY <1>7, <1>9, Zenon DEF BehindInv
  <2>1. /\ v \in Capable
        /\ parked[v][i].ops[j].to \in connected => <<v, parked[v][i].ops[j].to>> \in older
    BY <1>1, Zenon DEF BehindInv
  <2>2. v \in connected
    BY DEF Live
  <2> QED BY <1>3, <1>9, <2>1, <2>2
<1>16. \A w, r : Updates(c.ops, w, r) /\ ~Outdated(c.ops, w, r)
  BY <1>5, <1>7, NoPrompts DEF Updates
<1>17. NotLost'
  BY <1>8, <1>16, Zenon DEF NotLost
<1>18. ReadyInv'
  BY <1>7, <1>16, Zenon DEF ReadyInv
<1>19. ParkedInv'
  <2>1. 1 \in DOMAIN ready' /\ Composes(ready'[1].ops)
    BY <1>5, <1>7
  <2> QED BY <2>1, Zenon DEF ParkedInv
<1> QED BY <1>11, <1>12, <1>13, <1>14, <1>15, <1>17, <1>18, <1>19 DEF PromptInv

\* A socket that stalls is the only live one, and nobody waits for it yet.
LEMMA StallPrompts ==
    ASSUME TypeOK, LoopType, PromptInv, MaxStalled \in {0, 1}, NEW x \in Socket, Stalls(x)
    PROVE  PromptInv'
<1>1. /\ ShapesInv /\ WaitsInv /\ LeavingInv /\ FreshInv /\ BehindInv
      /\ NotLost /\ ReadyInv /\ ParkedInv
  BY DEF PromptInv
<1>2. /\ connected' = connected /\ client' = client /\ older' = older /\ request' = request
      /\ dead' = dead /\ view' = view /\ ready' = ready /\ parked' = parked /\ ready = <<>>
      /\ x \in connected /\ x \notin stalled /\ x \notin dead /\ stalled' = stalled \cup {x}
      /\ Cardinality(stalled \ dead) < MaxStalled
  BY DEF Stalls, Event, vars, socketVars, reqVars, loopVars
<1>3. stalled \ dead = {}
  <2>1. IsFiniteSet(stalled \ dead)
    BY <1>1, FS_Subset DEF WaitsInv
  <2>2. Cardinality(stalled \ dead) \in Nat
    BY <2>1, FS_CardinalityType
  <2>3. Cardinality(stalled \ dead) = 0
    BY <1>2, <2>2
  <2> QED BY <2>1, <2>3, FS_EmptySet
<1>4. Live = {} /\ Live' = {x} /\ Held' = Held /\ Capable' = Capable /\ Needs' = Needs
  <2>1. Live = {}
    BY <1>3 DEF Live
  <2>2. Live' = {x}
    BY <1>2, <1>3 DEF Live
  <2>3. Held' = Held
    BY <1>2, <2>1, <2>2 DEF Held
  <2>4. Capable' = Capable
    BY <1>2 DEF Capable, SupportsHandoff
  <2> QED BY <1>2, <2>1, <2>2, <2>3, <2>4 DEF Needs
<1>5. parked[x] = <<>> /\ DOMAIN parked[x] = {} /\ DOMAIN ready = {} /\ Len(ready) = 0
  <2>1. parked[x] = <<>>
    BY <1>1, <1>2 DEF WaitsInv
  <2> QED BY <1>2, <2>1
<1>6. ShapesInv'
  BY <1>1, <1>2, Zenon DEF ShapesInv, AllShaped
<1>7. WaitsInv'
  <2>1. IsFiniteSet(stalled')
    BY <1>1, <1>2, FS_AddElement DEF WaitsInv
  <2>2. \A u, v \in Live' : u = v
    BY <1>4
  <2>3. \A u \in Socket \ stalled' : parked'[u] = <<>>
    BY <1>1, <1>2 DEF WaitsInv
  <2>4. /\ \A u \in Held' : Len(parked'[u]) = 1 /\ parked'[u][1].owner = u /\ Prompts(parked'[u][1].ops) = {}
        /\ \A u \in Socket : \A i \in DOMAIN parked'[u] : \A v \in Socket :
               ~Leaves(parked'[u][i].ops, v) /\ (Closes(parked'[u][i].ops, v) => v = u)
    BY <1>1, <1>2, <1>4, Zenon DEF WaitsInv
  <2> QED BY <2>1, <2>2, <2>3, <2>4, Zenon DEF WaitsInv
<1>8. LeavingInv' /\ FreshInv' /\ ReadyInv'
  <2>1. DOMAIN ready' = {} /\ Len(ready') <= 1
    BY <1>2, <1>5
  <2> QED BY <2>1 DEF LeavingInv, FreshInv, ReadyInv
<1>9. BehindInv' /\ ParkedInv'
  <2>1. \A v \in Live' : DOMAIN parked'[v] = {}
    BY <1>2, <1>4, <1>5
  <2> QED BY <2>1, Zenon DEF BehindInv, ParkedInv
<1>10. NotLost'
  <2>1. InFlight' = InFlight
    BY <1>2 DEF InFlight
  <2> QED BY <1>1, <1>2, <1>4, <2>1, Zenon DEF NotLost
<1> QED BY <1>6, <1>7, <1>8, <1>9, <1>10 DEF PromptInv

\* What waited for a socket goes on, in its order, and its handler may leave after that.
LEMMA WakePrompts ==
    ASSUME TypeOK, LoopType, PromptInv, ready = <<>>, NEW x \in Socket, NEW more \in {<<>>, <<Leaving(x)>>},
           more # <<>> => x \notin Held,
           ready' = parked[x] \o more, parked' = [parked EXCEPT ![x] = <<>>], stalled' = stalled \ {x},
           dead' = dead \/ (x \notin Held /\ dead' = dead \cup {x}),
           UNCHANGED <<connected, client, older, request, view>>
    PROVE  PromptInv'
<1>1. /\ ShapesInv /\ WaitsInv /\ LeavingInv /\ FreshInv /\ BehindInv
      /\ NotLost /\ ReadyInv /\ ParkedInv
  BY DEF PromptInv
<1>2. /\ connected' = connected /\ client' = client /\ older' = older /\ request' = request /\ view' = view
  OBVIOUS
<1>3. /\ Live' = Live \ {x} /\ Held' = Held \ {x} /\ Capable' = Capable /\ Needs' \subseteq Needs
  <2>1. Live' = Live \ {x}
    BY <1>2 DEF Live
  <2>2. Held' = Held \ {x}
    BY <2>1 DEF Held
  <2>3. Capable' = Capable
    BY <1>2 DEF Capable, SupportsHandoff
  <2> QED BY <2>1, <2>2, <2>3 DEF Needs
<1>4. more \in Seq(PlainTask) /\ more \in Seq(Coroutine) /\ \A k \in DOMAIN more : more[k] = Leaving(x)
  <2>1. Leaving(x) \in PlainTask
    BY LeavingType
  <2>2. Leaving(x) \in Coroutine
    BY <2>1, OpsType DEF PlainTask, Coroutine
  <2>3. CASE more = <<>>
    BY <2>3
  <2>4. CASE more = <<Leaving(x)>>
    <3> DEFINE c == Leaving(x)
    <3> HIDE DEF c
    <3>1. c \in PlainTask /\ c \in Coroutine /\ more = <<c>>
      BY <2>1, <2>2, <2>4 DEF c
    <3>2. more \in Seq(PlainTask) /\ more \in Seq(Coroutine) /\ \A k \in DOMAIN more : more[k] = c
      BY <3>1
    <3> QED BY <3>2 DEF c
  <2> QED BY <2>3, <2>4
<1>5. Len(more) \in {0, 1} /\ (x \in Held => Len(more) = 0)
  <2>1. Len(<<>>) = 0 /\ Len(<<Leaving(x)>>) = 1
    OBVIOUS
  <2> QED BY <2>1
<1>6. /\ Len(ready') = Len(parked[x]) + Len(more) /\ DOMAIN ready' = 1..Len(parked[x]) + Len(more)
      /\ Len(parked[x]) \in Nat /\ DOMAIN parked[x] = 1..Len(parked[x])
      /\ parked'[x] = <<>> /\ \A u \in Socket : u # x => parked'[u] = parked[u]
      /\ \A i \in DOMAIN parked[x] : i \in DOMAIN ready' /\ ready'[i] = parked[x][i]
      /\ \A i \in DOMAIN ready' :
             \/ i \in DOMAIN parked[x]
             \/ i > Len(parked[x]) /\ \E k \in DOMAIN more : ready'[i] = more[k]
  <2>1. /\ parked[x] \in Seq(Coroutine) /\ ready' = parked[x] \o more
        /\ parked'[x] = <<>> /\ \A u \in Socket : u # x => parked'[u] = parked[u]
    BY CoroutineType
  <2>2. Joined(ready', parked[x], more)
    BY <1>4, <2>1, ListAfterList, Zenon
  <2> QED BY <2>1, <2>2 DEF Joined
<1>7. \A i \in DOMAIN ready' :
          \/ i \in DOMAIN parked[x] /\ ready'[i] = parked[x][i]
          \/ i > Len(parked[x]) /\ ready'[i] = Leaving(x)
  BY <1>4, <1>6, Zenon
<1>8. DOMAIN parked'[x] = {} /\ DOMAIN ready = {}
  BY <1>6
<1>9. \A v \in Live' : v \in Live /\ v # x /\ v \in Socket /\ parked'[v] = parked[v]
  BY <1>3, <1>6 DEF Live, TypeOK
<1>10. ShapesInv'
  <2>1. \A i \in DOMAIN ready' : Shaped(ready'[i].owner, ready'[i].ops)
    BY <1>1, <1>7, LeavingTells, Zenon DEF ShapesInv, AllShaped
  <2>2. \A u \in Socket : \A i \in DOMAIN parked'[u] : Shaped(parked'[u][i].owner, parked'[u][i].ops)
    <3> SUFFICES ASSUME NEW u \in Socket, NEW i \in DOMAIN parked'[u]
                 PROVE  Shaped(parked'[u][i].owner, parked'[u][i].ops)
      OBVIOUS
    <3>1. u # x
      BY <1>8
    <3>2. parked'[u] = parked[u]
      BY <1>6, <3>1
    <3> QED BY <1>1, <3>2, Zenon DEF ShapesInv, AllShaped
  <2> QED BY <2>1, <2>2, Zenon DEF ShapesInv, AllShaped
<1>11. WaitsInv'
  <2>1. IsFiniteSet(stalled')
    BY <1>1, FS_Subset DEF WaitsInv
  <2>2. \A u, v \in Live' : u = v
    BY <1>1, <1>3 DEF WaitsInv
  <2>3. \A u \in Socket \ stalled' : parked'[u] = <<>>
    BY <1>1, <1>6 DEF WaitsInv
  <2>4. ASSUME NEW u \in Held'
        PROVE  Len(parked'[u]) = 1 /\ parked'[u][1].owner = u /\ Prompts(parked'[u][1].ops) = {}
    <3>1. u \in Held /\ u # x /\ u \in Socket
      BY <1>3 DEF Held, LoopType
    <3>2. parked'[u] = parked[u]
      BY <1>6, <3>1
    <3> QED BY <1>1, <3>1, <3>2, Zenon DEF WaitsInv
  <2>5. ASSUME NEW u \in Socket, NEW i \in DOMAIN parked'[u], NEW v \in Socket
        PROVE  ~Leaves(parked'[u][i].ops, v) /\ (Closes(parked'[u][i].ops, v) => v = u)
    <3>1. u # x
      BY <1>8
    <3>2. parked'[u] = parked[u]
      BY <1>6, <3>1
    <3> QED BY <1>1, <3>2, Zenon DEF WaitsInv
  <2> QED BY <2>1, <2>2, <2>3, <2>4, <2>5, Zenon DEF WaitsInv
<1>12. LeavingInv'
  <2>1. ASSUME NEW i \in DOMAIN ready', NEW v \in Socket, Leaves(ready'[i].ops, v) \/ Closes(ready'[i].ops, v)
        PROVE  v \notin Live'
    <3>1. CASE i \in DOMAIN parked[x] /\ ready'[i] = parked[x][i]
      <4>1. v = x
        BY <1>1, <2>1, <3>1, Zenon DEF WaitsInv
      <4> QED BY <1>9, <4>1
    <3>2. CASE ready'[i] = Leaving(x)
      BY <1>9, <2>1, <3>2, LeavingTells
    <3> QED BY <1>7, <3>1, <3>2
  <2>2. ASSUME NEW i \in DOMAIN ready', NEW j \in DOMAIN ready', NEW v \in Socket, i < j, Leaves(ready'[i].ops, v)
        PROVE  Prompts(ready'[j].ops) = {}
    <3>1. i \notin DOMAIN parked[x] \/ ready'[i] # parked[x][i]
      BY <1>1, <2>2, Zenon DEF WaitsInv
    <3>2. i > Len(parked[x])
      BY <1>7, <3>1
    <3>3. j \notin DOMAIN parked[x]
      BY <1>6, <2>2, <3>2
    <3>4. ready'[j] = Leaving(x)
      BY <1>7, <3>3
    <3> QED BY <3>4, LeavingTells
  <2> QED BY <2>1, <2>2, Zenon DEF LeavingInv
<1>13. FreshInv'
  <2> SUFFICES ASSUME Live' # {}
               PROVE  /\ Len(ready') <= 1
                      /\ \A i \in DOMAIN ready' : Prompts(ready'[i].ops) = {}
    BY NoPrompts, Zenon DEF FreshInv
  <2>1. x \notin Live
    BY <1>1, <1>9 DEF WaitsInv
  <2>2. CASE x \in Held
    <3>1. Len(parked[x]) = 1 /\ Prompts(parked[x][1].ops) = {}
      BY <1>1, <2>2 DEF WaitsInv
    <3>2. Len(ready') = 1 /\ DOMAIN parked[x] = {1} /\ DOMAIN ready' = {1}
      BY <1>5, <1>6, <2>2, <3>1
    <3> QED BY <1>6, <3>1, <3>2
  <2>3. CASE x \notin stalled
    <3>1. parked[x] = <<>>
      BY <1>1, <2>3 DEF WaitsInv
    <3>2. Len(ready') <= 1 /\ DOMAIN parked[x] = {}
      BY <1>5, <1>6, <3>1
    <3>3. \A i \in DOMAIN ready' : ready'[i] = Leaving(x)
      BY <1>7, <3>2
    <3> QED BY <3>2, <3>3, LeavingTells
  <2> QED BY <2>1, <2>2, <2>3 DEF Held
<1>14. BehindInv'
  <2> SUFFICES ASSUME NEW v \in Live', NEW i \in DOMAIN parked'[v], NEW j \in Prompts(parked'[v][i].ops)
               PROVE  /\ v \in Capable
                      /\ parked'[v][i].ops[j].to \in connected => <<v, parked'[v][i].ops[j].to>> \in older
    BY <1>2, <1>3, Zenon DEF BehindInv
  <2>1. v \in Live /\ parked'[v] = parked[v]
    BY <1>9
  <2> QED BY <1>1, <2>1, Zenon DEF BehindInv
<1>15. NotLost'
  <2> SUFFICES ASSUME NEW w \in Needs'
               PROVE  view[w].prompt = request \/ \E d \in InFlight' : Updates(d.ops, w, request)
    BY <1>2, Zenon DEF NotLost
  <2>1. InFlight \subseteq InFlight'
    BY <1>4, WakeFlight
  <2>2. w \in Needs
    BY <1>3
  <2> QED BY <1>1, <2>1, <2>2 DEF NotLost
<1>16. ASSUME NEW u \in Held, u # x, Composes(parked[u][1].ops) PROVE HeldComposes'
  <2>1. u \in Held' /\ u \in Socket
    BY <1>3, <1>16 DEF Held, LoopType
  <2>2. parked'[u] = parked[u]
    BY <1>6, <1>16, <2>1
  <2> QED BY <1>16, <2>1, <2>2, Zenon DEF HeldComposes
<1>17. ReadyInv'
  <2>0. request' = request
    BY <1>2
  <2> SUFFICES ASSUME NEW w \in Needs', NEW i \in DOMAIN ready', Outdated(ready'[i].ops, w, request')
               PROVE  HeldComposes' \/ \E j \in DOMAIN ready' : i < j /\ Updates(ready'[j].ops, w, request')
    BY Zenon DEF ReadyInv
  <2>1. Prompts(ready'[i].ops) # {}
    BY DEF Outdated
  <2>2. i \in DOMAIN parked[x] /\ ready'[i] = parked[x][i]
    BY <1>7, <2>1, LeavingTells
  <2>3. x \in stalled
    BY <1>1, <2>2 DEF WaitsInv
  <2>4. x \notin Held
    <3>1. ASSUME x \in Held PROVE FALSE
      <4>1. Len(parked[x]) = 1 /\ Prompts(parked[x][1].ops) = {}
        BY <1>1, <3>1 DEF WaitsInv
      <4>2. i = 1
        BY <1>6, <2>2, <4>1
      <4> QED BY <2>1, <2>2, <4>1, <4>2
    <3> QED BY <3>1
  <2>5. x \in Live
    BY <2>3, <2>4 DEF Held
  <2>6. w \in Needs /\ Outdated(parked[x][i].ops, w, request)
    BY <1>3, <2>0, <2>2
  <2>7. \/ HeldComposes
        \/ \E j \in DOMAIN parked[x] : i < j /\ Updates(parked[x][j].ops, w, request)
        \/ \E j \in DOMAIN ready : Composes(ready[j].ops) \/ TellsBoth(ready[j].ops, x, w, request)
    BY <1>1, <2>2, <2>5, <2>6, Zenon DEF ParkedInv
  <2>8. CASE HeldComposes
    BY <1>16, <2>4, <2>8 DEF HeldComposes
  <2>9. ASSUME NEW j \in DOMAIN parked[x], i < j, Updates(parked[x][j].ops, w, request)
        PROVE  \E k \in DOMAIN ready' : i < k /\ Updates(ready'[k].ops, w, request)
    BY <1>6, <2>9
  <2> QED BY <1>8, <2>0, <2>7, <2>8, <2>9, Zenon
<1>18. ParkedInv'
  <2>0. request' = request
    BY <1>2
  <2> SUFFICES ASSUME NEW w \in Needs', NEW v \in Live', NEW i \in DOMAIN parked'[v],
                      Outdated(parked'[v][i].ops, w, request')
               PROVE  \/ HeldComposes'
                      \/ \E j \in DOMAIN parked'[v] : i < j /\ Updates(parked'[v][j].ops, w, request')
                      \/ \E j \in DOMAIN ready' : Composes(ready'[j].ops) \/ TellsBoth(ready'[j].ops, v, w, request')
    BY Zenon DEF ParkedInv
  <2>1. v \in Live /\ parked'[v] = parked[v] /\ w \in Needs
    BY <1>3, <1>9
  <2>2. \/ HeldComposes
        \/ \E j \in DOMAIN parked[v] : i < j /\ Updates(parked[v][j].ops, w, request)
        \/ \E j \in DOMAIN ready : Composes(ready[j].ops) \/ TellsBoth(ready[j].ops, v, w, request)
    <3>1. i \in DOMAIN parked[v] /\ Outdated(parked[v][i].ops, w, request)
      BY <2>0, <2>1, Zenon
    <3> QED BY <1>1, <2>1, <3>1, Zenon DEF ParkedInv
  <2>3. ASSUME NEW u \in Held, Composes(parked[u][1].ops)
        PROVE  HeldComposes' \/ \E j \in DOMAIN ready' : Composes(ready'[j].ops)
    <3>1. CASE u # x
      BY <1>16, <2>3, <3>1
    <3>2. CASE u = x
      <4>1. Len(parked[x]) = 1
        BY <1>1, <3>2 DEF WaitsInv
      <4>2. 1 \in DOMAIN parked[x]
        BY <1>6, <4>1
      <4>3. 1 \in DOMAIN ready' /\ ready'[1] = parked[x][1]
        BY <1>6, <4>2
      <4> QED BY <2>3, <3>2, <4>3
    <3> QED BY <3>1, <3>2
  <2>4. CASE HeldComposes
    BY <2>3, <2>4, Zenon DEF HeldComposes
  <2>5. CASE \E j \in DOMAIN parked[v] : i < j /\ Updates(parked[v][j].ops, w, request)
    BY <2>0, <2>1, <2>5, Zenon
  <2> QED BY <1>8, <2>2, <2>4, <2>5, Zenon
<1> QED BY <1>10, <1>11, <1>12, <1>13, <1>14, <1>15, <1>17, <1>18 DEF PromptInv

\* A new coroutine with one operation, other than a handoff text, or with a note first.
LEMMA ShortPrompts ==
    ASSUME TypeOK, LoopType, PromptInv, ready = <<>>, NEW o, NEW ops, Start(o, ops),
           UNCHANGED <<connected, client, older, stalled, dead, view>>,
           Proper(o, ops), Prompts(ops) = {}, request' = request \/ Composes(ops)
    PROVE  PromptInv'
<1>1. Fresh(ops, request', Capable, older)
  BY NoPrompts
<1> QED BY <1>1, StartPrompts

\* The new coroutines that compose a handoff text, whatever roles they announce.
LEMMA Announcing ==
    ASSUME NEW o \in Socket \cup {NoSocket}, NEW changed \in Seq(Socket)
    PROVE  /\ Proper(o, Announce(changed)) /\ Composes(Announce(changed)) /\ Prompts(Announce(changed)) = {}
           /\ \A w \in Socket \cup {NoSocket} :
                  /\ Proper(o, <<Do("note", w)>> \o Announce(changed))
                  /\ Composes(<<Do("note", w)>> \o Announce(changed))
                  /\ Prompts(<<Do("note", w)>> \o Announce(changed)) = {}
           /\ Proper(o, <<Do("note", o), Do("close", o)>> \o Announce(changed))
           /\ Composes(<<Do("note", o), Do("close", o)>> \o Announce(changed))
           /\ Prompts(<<Do("note", o), Do("close", o)>> \o Announce(changed)) = {}
<1> DEFINE a == Announce(changed)
<1>1. a \in Seq(Ops)
  BY AnnounceSends
<1>2. ASSUME NEW pre \in Seq(Ops), Introduces(o, pre)
      PROVE  Proper(o, pre \o a) /\ Composes(pre \o a) /\ Prompts(pre \o a) = {}
  BY <1>2, AnnounceShaped
<1>3. Proper(o, a) /\ Composes(a) /\ Prompts(a) = {}
  <2> HIDE DEF a
  <2>1. <<>> \in Seq(Ops) /\ <<>> \o a = a /\ DOMAIN <<>> = {}
    BY <1>1
  <2>2. Introduces(o, <<>>)
    BY <2>1 DEF Introduces
  <2>3. Proper(o, <<>> \o a) /\ Composes(<<>> \o a) /\ Prompts(<<>> \o a) = {}
    BY <1>2, <2>1, <2>2
  <2> QED BY <2>1, <2>3
<1>4. ASSUME NEW w \in Socket \cup {NoSocket}
      PROVE  /\ Proper(o, <<Do("note", w)>> \o a) /\ Composes(<<Do("note", w)>> \o a)
             /\ Prompts(<<Do("note", w)>> \o a) = {}
  <2> HIDE DEF a
  <2> DEFINE note == Do("note", w)
  <2>1. note \in Ops /\ note.kind = "note"
    BY DoType DEF Kinds, SendKinds
  <2> HIDE DEF note
  <2>2. <<note>> \in Seq(Ops) /\ Introduces(o, <<note>>)
    BY <2>1 DEF Introduces
  <2>3. Proper(o, <<note>> \o a) /\ Composes(<<note>> \o a) /\ Prompts(<<note>> \o a) = {}
    BY <1>2, <2>2
  <2> QED BY <2>3 DEF note
<1>5. /\ Proper(o, <<Do("note", o), Do("close", o)>> \o a)
      /\ Composes(<<Do("note", o), Do("close", o)>> \o a)
      /\ Prompts(<<Do("note", o), Do("close", o)>> \o a) = {}
  <2> HIDE DEF a
  <2> DEFINE note == Do("note", o)
             close == Do("close", o)
  <2>1. /\ note \in Ops /\ note.kind = "note" /\ note.to = o
        /\ close \in Ops /\ close.kind = "close" /\ close.to = o
    BY DoType DEF Kinds, SendKinds
  <2> HIDE DEF note, close
  <2>2. <<note, close>> \in Seq(Ops) /\ Introduces(o, <<note, close>>)
    BY <2>1 DEF Introduces
  <2>3. /\ Proper(o, <<note, close>> \o a) /\ Composes(<<note, close>> \o a)
        /\ Prompts(<<note, close>> \o a) = {}
    BY <1>2, <2>2
  <2> QED BY <2>3 DEF note, close
<1> QED BY <1>3, <1>4, <1>5

\* The new coroutines with a broadcast, after a note or not, or with a snapshot.
LEMMA Broadcasting ==
    ASSUME NEW o \in Socket \cup {NoSocket}, NEW w \in Socket \cup {NoSocket}
    PROVE  /\ \A kind \in {"hello", "broadcast_handoff", "broadcast_roster", "broadcast_full_state"} :
                  Proper(o, <<Do(kind, w)>>) /\ Prompts(<<Do(kind, w)>>) = {}
           /\ Composes(<<Do("broadcast_handoff", w)>>)
           /\ Proper(o, <<Do("note", w), Do("broadcast_handoff", NoSocket)>>)
           /\ Composes(<<Do("note", w), Do("broadcast_handoff", NoSocket)>>)
           /\ Prompts(<<Do("note", w), Do("broadcast_handoff", NoSocket)>>) = {}
<1>1. ASSUME NEW kind \in {"hello", "broadcast_handoff", "broadcast_roster", "broadcast_full_state"}
      PROVE  /\ Proper(o, <<Do(kind, w)>>) /\ Prompts(<<Do(kind, w)>>) = {}
             /\ kind = "broadcast_handoff" => Composes(<<Do(kind, w)>>)
  <2> DEFINE x == Do(kind, w)
  <2>1. x \in Ops /\ x.kind = kind
    BY DoType DEF Kinds, SendKinds
  <2> HIDE DEF x
  <2>2. /\ Proper(o, <<x>>) /\ Prompts(<<x>>) = {}
        /\ kind = "broadcast_handoff" => Composes(<<x>>)
    BY <2>1, ShortShaped
  <2> QED BY <2>2 DEF x
<1>2. /\ Proper(o, <<Do("note", w), Do("broadcast_handoff", NoSocket)>>)
      /\ Composes(<<Do("note", w), Do("broadcast_handoff", NoSocket)>>)
      /\ Prompts(<<Do("note", w), Do("broadcast_handoff", NoSocket)>>) = {}
  <2> DEFINE x == Do("note", w)
             y == Do("broadcast_handoff", NoSocket)
  <2>1. x \in Ops /\ x.kind = "note" /\ y \in Ops /\ y.kind = "broadcast_handoff"
    BY DoType DEF Kinds, SendKinds
  <2> HIDE DEF x, y
  <2>2. Proper(o, <<x, y>>) /\ Composes(<<x, y>>) /\ Prompts(<<x, y>>) = {}
    BY <2>1, ShortShaped
  <2> QED BY <2>2 DEF x, y
<1> QED BY <1>1, <1>2

\* An answer to an old handoff text has the current one sent again.
LEMMA AnswerPrompts ==
    ASSUME TypeOK, LoopType, PromptInv, NEW x \in Socket, AnswersTooLate(x)
    PROVE  PromptInv'
<1> DEFINE op == Op("prompt", x, request)
<1>1. /\ ready = <<>> /\ Start(x, <<op>>) /\ x \in connected /\ SupportsHandoff(x)
      /\ UNCHANGED <<connected, client, older, stalled, dead, view>> /\ request' = request
  BY DEF AnswersTooLate, Event, Listening, vars, socketVars, reqVars, deviceVars
<1>2. op \in Ops /\ op.kind = "prompt" /\ op.to = x /\ op.text = request
  BY TextTypes DEF Op, Ops, Kinds, SendKinds
<1> HIDE DEF op
<1> DEFINE ops == <<op>>
<1>3. Proper(x, ops)
  BY <1>2, ShortShaped
<1>4. Prompts(ops) \subseteq {1} /\ ops[1] = op
  BY DEF Prompts
<1> HIDE DEF ops
<1>5. Fresh(ops, request', Capable, older)
  <2>1. x \in Capable
    BY <1>1 DEF Capable
  <2>2. ASSUME NEW i \in Prompts(ops)
        PROVE  /\ ops[i].text = request /\ ops[i].to \in Capable
               /\ \A j \in Prompts(ops) : i < j => <<ops[i].to, ops[j].to>> \in older
    <3>1. i = 1 /\ \A j \in Prompts(ops) : j = 1
      BY <1>4
    <3> QED BY <1>2, <1>4, <2>1, <3>1
  <2> QED BY <1>1, <2>2, Zenon DEF Fresh
<1>6. Start(x, ops)
  BY <1>1 DEF ops
<1> QED BY <1>1, <1>3, <1>5, <1>6, StartPrompts

\* Each event has the devices sent what is then pending.
LEMMA WorldPrompts ==
    ASSUME TypeOK, LoopType, PromptInv, MaxStalled \in {0, 1}, World
    PROVE  PromptInv'
<1>0. NoSocket \in Socket \cup {NoSocket} /\ <<>> \in Seq(Socket)
  OBVIOUS
<1>1. ASSUME NEW w \in Socket, NEW id \in RequestId, Requests(w, id) PROVE PromptInv'
  <2>1. /\ ready = <<>> /\ UNCHANGED <<connected, client, older, stalled, dead, view>>
        /\ Start(w, Announce(<<w>>)) \/ Start(w, <<Do("broadcast_handoff", NoSocket)>>)
    BY <1>1 DEF Requests, Event, RequestControl, deviceVars, socketVars
  <2>2. <<w>> \in Seq(Socket)
    OBVIOUS
  <2>3. CASE Start(w, Announce(<<w>>))
    BY <2>1, <2>2, <2>3, Announcing, ShortPrompts
  <2>4. CASE Start(w, <<Do("broadcast_handoff", NoSocket)>>)
    BY <1>0, <2>1, <2>4, Broadcasting, ShortPrompts
  <2> QED BY <2>1, <2>3, <2>4
<1>2. ASSUME NEW w \in Socket, Cancels(w) PROVE PromptInv'
  <2>1. /\ ready = <<>> /\ UNCHANGED <<connected, client, older, stalled, dead, view>>
        /\ Start(w, <<Do("note", w), Do("broadcast_handoff", NoSocket)>>)
    BY <1>2 DEF Cancels, Event, CancelRequest, deviceVars, socketVars
  <2> QED BY <2>1, Broadcasting, ShortPrompts
<1>3. ASSUME NEW w \in Socket, NEW accept \in BOOLEAN, Responds(w, accept) PROVE PromptInv'
  <2> DEFINE changed == <<request.requester>> \o IF request.requester = w THEN <<>> ELSE <<w>>
  <2>1. /\ ready = <<>> /\ UNCHANGED <<connected, client, older, stalled, dead, view>>
        /\ \/ Start(w, Announce(changed))
           \/ Start(w, <<Do("note", request.requester), Do("broadcast_handoff", NoSocket)>>)
    BY <1>3 DEF Responds, Event, Respond, deviceVars, socketVars
  <2>2. request.requester \in Socket
    BY <1>3, RequesterOfPending DEF Responds, Respond
  <2>3. changed \in Seq(Socket)
    BY <2>2
  <2> HIDE DEF changed
  <2>4. CASE Start(w, Announce(changed))
    BY <2>1, <2>3, <2>4, Announcing, ShortPrompts
  <2>5. CASE Start(w, <<Do("note", request.requester), Do("broadcast_handoff", NoSocket)>>)
    <3> DEFINE r == request.requester
    <3>1. r \in Socket \cup {NoSocket} /\ Start(w, <<Do("note", r), Do("broadcast_handoff", NoSocket)>>)
      BY <2>2, <2>5
    <3> HIDE DEF r
    <3> QED BY <2>1, <3>1, Broadcasting, ShortPrompts
  <2> QED BY <2>1, <2>4, <2>5
<1>4. ASSUME NEW w \in Socket, NEW target \in Socket, Grants(w, target) PROVE PromptInv'
  <2> DEFINE r == request.requester
  <2>1. /\ ready = <<>> /\ UNCHANGED <<connected, client, older, stalled, dead, view>>
        /\ Start(w, (IF Pending /\ r # target THEN <<Do("note", r)>> ELSE <<>>) \o Announce(<<target, w>>))
    BY <1>4 DEF Grants, Event, Grant, deviceVars, socketVars
  <2>2. Pending => r \in Socket \cup {NoSocket}
    BY RequesterOfPending
  <2>3. <<target, w>> \in Seq(Socket)
    OBVIOUS
  <2> HIDE DEF r
  <2>4. CASE Pending /\ r # target
    <3>1. Start(w, <<Do("note", r)>> \o Announce(<<target, w>>))
      BY <2>1, <2>4
    <3> QED BY <2>1, <2>2, <2>3, <2>4, <3>1, Announcing, ShortPrompts
  <2>5. CASE ~(Pending /\ r # target)
    <3>1. Announce(<<target, w>>) \in Seq(Ops)
      BY <2>3, AnnounceSends
    <3>2. <<>> \o Announce(<<target, w>>) = Announce(<<target, w>>)
      BY <3>1
    <3>3. Start(w, Announce(<<target, w>>))
      BY <2>1, <2>5, <3>2
    <3> QED BY <2>1, <2>3, <3>3, Announcing, ShortPrompts
  <2> QED BY <2>4, <2>5
<1>5. ASSUME NEW w \in Socket, Releases(w) PROVE PromptInv'
  <2> DEFINE told == IF Pending THEN <<request.requester>> ELSE <<>>
  <2>1. /\ ready = <<>> /\ UNCHANGED <<connected, client, older, stalled, dead, view>>
        /\ Start(w, <<Do("note", w), Do("close", w)>> \o Announce(told))
    BY <1>5 DEF Releases, Event, Release, deviceVars
  <2>2. told \in Seq(Socket)
    <3>1. Pending => request.requester \in Socket
      BY RequesterOfPending
    <3>2. Pending => <<request.requester>> \in Seq(Socket)
      BY <3>1
    <3> QED BY <1>0, <3>2
  <2> HIDE DEF told
  <2> QED BY <2>1, <2>2, Announcing, ShortPrompts
<1>6. ASSUME NEW w \in Socket, Registers(w) PROVE PromptInv'
  <2>1. /\ ready = <<>> /\ UNCHANGED <<connected, client, older, stalled, dead, view>> /\ request' = request
        /\ Start(w, <<Do("broadcast_roster", NoSocket)>>)
    BY <1>6 DEF Registers, Event, vars, deviceVars, socketVars, reqVars
  <2> QED BY <1>0, <2>1, Broadcasting, ShortPrompts
<1>7. ASSUME NEW w \in Socket, Refreshes(w) PROVE PromptInv'
  <2>1. /\ ready = <<>> /\ UNCHANGED <<connected, client, older, stalled, dead, view>> /\ request' = request
        /\ Start(w, <<Do("hello", w)>>)
    BY <1>7 DEF Refreshes, Event, vars, deviceVars, socketVars, reqVars
  <2> QED BY <2>1, Broadcasting, ShortPrompts
<1>8. CASE SongsChange
  <2>1. /\ ready = <<>> /\ UNCHANGED <<connected, client, older, stalled, dead, view>> /\ request' = request
        /\ Start(NoSocket, <<Do("broadcast_full_state", NoSocket)>>)
    BY <1>8 DEF SongsChange, Event, vars, socketVars, reqVars
  <2> QED BY <1>0, <2>1, Broadcasting, ShortPrompts
<1>9. CASE HoldEnds
  <2>1. PICK t \in holdTimers : ReservationExpiry(t)
    BY <1>9 DEF HoldEnds
  <2>2. /\ ready = <<>> /\ UNCHANGED <<connected, client, older, stalled, dead, view>>
        /\ Pending => Start(NoSocket, Announce(<<request.requester>>))
        /\ ~Pending => UNCHANGED loopVars /\ request' = request
    BY <1>9, <2>1 DEF HoldEnds, Event, ReservationExpiry, deviceVars, socketVars, reqVars
  <2>3. CASE Pending
    <3> DEFINE told == <<request.requester>>
    <3>1. told \in Seq(Socket) /\ Start(NoSocket, Announce(told))
      BY <2>2, <2>3, RequesterOfPending
    <3> HIDE DEF told
    <3> QED BY <1>0, <2>2, <3>1, Announcing, ShortPrompts
  <2>4. CASE ~Pending
    BY <2>2, <2>4, QuietPrompts DEF loopVars
  <2> QED BY <2>3, <2>4
<1>10. CASE RequestEnds
  <2> DEFINE r == request.requester
  <2>1. /\ ready = <<>> /\ UNCHANGED <<connected, client, older, stalled, dead, view>>
        /\ Start(NoSocket, <<Do("note", r), Do("broadcast_handoff", NoSocket)>>)
    BY <1>10 DEF RequestEnds, Event, RequestExpiry, deviceVars, socketVars
  <2>2. r \in Socket \cup {NoSocket}
    BY DEF TypeOK, Request, NoRequest
  <2> HIDE DEF r
  <2> QED BY <1>0, <2>1, <2>2, Broadcasting, ShortPrompts
<1>11. CASE TimePasses
  <2>1. UNCHANGED <<connected, client, older, request, stalled, dead, view, ready, parked>>
    BY <1>11 DEF TimePasses, Tick, socketVars, loopVars, deviceVars
  <2> QED BY <2>1, QuietPrompts
<1>12. ASSUME NEW w \in Socket, Drains(w) PROVE PromptInv'
  <2>1. /\ ready = <<>> /\ ready' = parked[w] /\ parked' = [parked EXCEPT ![w] = <<>>]
        /\ stalled' = stalled \ {w} /\ dead' = dead
        /\ UNCHANGED <<connected, client, older, request, view>>
    BY <1>12 DEF Drains, vars, socketVars, reqVars
  <2>2. parked[w] = parked[w] \o <<>>
    BY DEF LoopType
  <2> QED BY <2>1, <2>2, WakePrompts
<1>13. ASSUME NEW w \in Socket, Drops(w) PROVE PromptInv'
  <2>1. PICK more \in {<<>>, <<Leaving(w)>>} :
            /\ ready = <<>> /\ ready' = parked[w] \o more /\ parked' = [parked EXCEPT ![w] = <<>>]
            /\ stalled' = stalled \ {w} /\ dead' = dead \cup {w} /\ w \in connected \ dead
            /\ UNCHANGED <<connected, client, older, request, view>>
    BY <1>13 DEF Drops, Event, vars, socketVars, reqVars
  <2>2. w \notin Held
    BY <2>1 DEF Held, Live
  <2> QED BY <2>1, <2>2, WakePrompts
<1> QED BY <1>1, <1>2, <1>3, <1>4, <1>5, <1>6, <1>7, <1>8, <1>9, <1>10, <1>11, <1>12, <1>13,
        ConnectPrompts, AnswerPrompts, StallPrompts, Zenon DEF World

\* The inductive invariant: what holds for the roles, and that no handoff text is lost.
PromptsInformed == Informed /\ PromptInv

\* Nobody is connected at first, and nothing is under way.
LEMMA PromptsInformedInit == LoopInit => PromptsInformed
<1> SUFFICES ASSUME LoopInit PROVE PromptsInformed
  OBVIOUS
<1>1. /\ connected = {} /\ ready = <<>> /\ stalled = {} /\ parked = [w \in Socket |-> <<>>]
  BY DEF LoopInit, Init
<1>2. Live = {} /\ Held = {} /\ Needs = {}
  BY <1>1 DEF Live, Held, Needs, Capable
<1>3. DOMAIN <<>> = {} /\ Len(<<>>) = 0
  OBVIOUS
<1>4. DOMAIN ready = {} /\ Len(ready) = 0 /\ \A u \in Socket : parked[u] = <<>> /\ DOMAIN parked[u] = {}
  BY <1>1, <1>3
<1>5. ShapesInv
  BY <1>4 DEF ShapesInv, AllShaped
<1>6. WaitsInv
  BY <1>1, <1>2, <1>4, FS_EmptySet DEF WaitsInv
<1>7. LeavingInv /\ FreshInv /\ BehindInv /\ NotLost /\ ReadyInv /\ ParkedInv
  BY <1>2, <1>4 DEF LeavingInv, FreshInv, BehindInv, NotLost, ReadyInv, ParkedInv
<1> QED BY <1>5, <1>6, <1>7, InformedInit DEF PromptsInformed, PromptInv

\* Every step keeps the invariant, as long as at most one socket is stalled at a time.
LEMMA PromptsInformedStep ==
    MaxStalled \in {0, 1} /\ PromptsInformed /\ [LoopNext]_allVars => PromptsInformed'
<1> SUFFICES ASSUME MaxStalled \in {0, 1}, PromptsInformed, [LoopNext]_allVars PROVE PromptsInformed'
  OBVIOUS
<1>1. TypeOK /\ OrderInv /\ LoopType /\ Informed /\ PromptInv
  BY DEF PromptsInformed, Informed, Consistent
<1>2. Informed' /\ TypeOK'
  <2>1. Informed'
    BY <1>1, InformedStep
  <2> QED BY <2>1 DEF Informed, Consistent
<1>3. CASE EventLoop
  BY <1>1, <1>2, <1>3, EventLoopPrompts DEF PromptsInformed
<1>4. CASE World
  BY <1>1, <1>2, <1>4, WorldPrompts DEF PromptsInformed
<1>5. CASE UNCHANGED allVars
  <2>1. UNCHANGED <<connected, client, older, request, stalled, dead, view, ready, parked>>
    BY <1>5 DEF allVars, vars, socketVars, reqVars, loopVars, deviceVars
  <2> QED BY <1>1, <1>2, <2>1, QuietPrompts DEF PromptsInformed
<1> QED BY <1>3, <1>4, <1>5 DEF LoopNext

\* Once nothing is left to send, every device that understands handoff texts shows the
\* request that is pending, or none, whatever was asked, answered or timed out meanwhile
\* and whatever waited for a stalled socket, as long as at most one is stalled at a time:
\* an older text on its way to a device has a newer one behind it in the same queue.
THEOREM PromptsAlwaysTold ==
    ASSUME MaxStalled \in {0, 1}
    PROVE  LoopSpec => []PromptsTold
<1>1. PromptsInformed => PromptsTold
  <2> SUFFICES ASSUME PromptsInformed, Quiet, NEW w \in Attached, SupportsHandoff(w)
               PROVE  view[w].prompt = request
    BY DEF PromptsTold
  <2>1. w \in Needs
    BY DEF Attached, Listening, Needs, Capable
  <2>2. view[w].prompt = request \/ \E c \in InFlight : Updates(c.ops, w, request)
    BY <2>1 DEF PromptsInformed, PromptInv, NotLost
  <2> QED BY <2>2 DEF Quiet
<1>2. PromptsInformed /\ [LoopNext]_allVars => PromptsInformed'
  BY PromptsInformedStep
<1> QED BY <1>1, <1>2, PromptsInformedInit, PTL DEF LoopSpec
=============================================================================
