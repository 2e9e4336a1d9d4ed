---------------------------- MODULE Mutes_proofs ----------------------------
(***************************************************************************)
(* Proof that the mute switches shown are those in Live (Tracks), for any  *)
(* set of tracks and any number of events.  What the switches will show is *)
(* followed through the two queues: of the messages to the bridge, the     *)
(* last list and the last report of each index count.                      *)
(***************************************************************************)
EXTENDS Listeners_proofs

-----------------------------------------------------------------------------
(* The last message of a sort in a queue *)

NoneIn(queue, sort) == \A n \in 1..Len(queue) : queue[n] \notin sort
LastIn(queue, sort, what) ==
    \E n \in 1..Len(queue) : /\ queue[n] \in sort /\ queue[n].what = what
                             /\ \A m \in n + 1..Len(queue) : queue[m] \notin sort

\* Messages put behind a queue: the last of a sort is theirs, or if they have none, the
\* queue's.
LEMMA LastAfterMore ==
    ASSUME NEW S, NEW q \in Seq(S), NEW r \in Seq(S), NEW sort
    PROVE  /\ NoneIn(q \o r, sort) <=> NoneIn(q, sort) /\ NoneIn(r, sort)
           /\ \A what : LastIn(r, sort, what) => LastIn(q \o r, sort, what)
           /\ \A what : LastIn(q, sort, what) /\ NoneIn(r, sort) => LastIn(q \o r, sort, what)
<1>1. /\ q \o r \in Seq(S) /\ Len(q \o r) = Len(q) + Len(r)
      /\ \A n \in 1..Len(q) : (q \o r)[n] = q[n]
      /\ \A n \in 1..Len(r) : (q \o r)[Len(q) + n] = r[n]
      /\ Len(q) \in Nat /\ Len(r) \in Nat
  OBVIOUS
<1> DEFINE both == q \o r
<1>2. /\ Len(both) = Len(q) + Len(r)
      /\ \A n \in 1..Len(q) : both[n] = q[n]
      /\ \A n \in 1..Len(r) : both[Len(q) + n] = r[n]
      /\ Len(q) \in Nat /\ Len(r) \in Nat
  BY <1>1
<1> HIDE DEF both
<1>3. \A n \in 1..Len(both) : n \in 1..Len(q) \/ (n - Len(q) \in 1..Len(r) /\ both[n] = r[n - Len(q)])
  <2> SUFFICES ASSUME NEW n \in 1..Len(both), n \notin 1..Len(q)
               PROVE  n - Len(q) \in 1..Len(r) /\ both[n] = r[n - Len(q)]
    OBVIOUS
  <2>1. n - Len(q) \in 1..Len(r)
    BY <1>2
  <2>2. Len(q) + (n - Len(q)) = n
    BY <1>2
  <2>3. both[Len(q) + (n - Len(q))] = r[n - Len(q)]
    BY <1>2, <2>1
  <2> QED BY <2>1, <2>2, <2>3
<1>4. NoneIn(both, sort) <=> NoneIn(q, sort) /\ NoneIn(r, sort)
  <2>1. ASSUME NoneIn(both, sort) PROVE NoneIn(q, sort) /\ NoneIn(r, sort)
    <3>1. NoneIn(q, sort)
      BY <1>2, <2>1 DEF NoneIn
    <3>2. ASSUME NEW n \in 1..Len(r) PROVE r[n] \notin sort
      <4>1. Len(q) + n \in 1..Len(both)
        BY <1>2
      <4> QED BY <1>2, <2>1, <4>1 DEF NoneIn
    <3> QED BY <3>1, <3>2 DEF NoneIn
  <2>2. ASSUME NoneIn(q, sort), NoneIn(r, sort) PROVE NoneIn(both, sort)
    BY <1>2, <1>3, <2>2 DEF NoneIn
  <2> QED BY <2>1, <2>2
<1>5. ASSUME NEW what, LastIn(r, sort, what) PROVE LastIn(both, sort, what)
  <2>1. PICK n \in 1..Len(r) : /\ r[n] \in sort /\ r[n].what = what
                               /\ \A m \in n + 1..Len(r) : r[m] \notin sort
    BY <1>5 DEF LastIn
  <2>2. Len(q) + n \in 1..Len(both) /\ both[Len(q) + n] = r[n]
    BY <1>2
  <2>3. ASSUME NEW m \in Len(q) + n + 1..Len(both) PROVE both[m] \notin sort
    <3>1. m \in 1..Len(both) /\ m \notin 1..Len(q) /\ m - Len(q) \in n + 1..Len(r)
      BY <1>2
    <3> QED BY <1>3, <2>1, <3>1
  <2> QED BY <2>1, <2>2, <2>3 DEF LastIn
<1>6. ASSUME NEW what, LastIn(q, sort, what), NoneIn(r, sort) PROVE LastIn(both, sort, what)
  <2>1. PICK n \in 1..Len(q) : /\ q[n] \in sort /\ q[n].what = what
                               /\ \A m \in n + 1..Len(q) : q[m] \notin sort
    BY <1>6 DEF LastIn
  <2>2. n \in 1..Len(both) /\ both[n] = q[n]
    BY <1>2
  <2>3. ASSUME NEW m \in n + 1..Len(both) PROVE both[m] \notin sort
    <3>1. CASE m \in 1..Len(q)
      BY <1>2, <2>1, <3>1
    <3>2. CASE m \notin 1..Len(q)
      <4>1. m \in 1..Len(both)
        BY <1>2
      <4> QED BY <1>3, <1>6, <3>2, <4>1 DEF NoneIn
    <3> QED BY <3>1, <3>2
  <2> QED BY <2>1, <2>2, <2>3 DEF LastIn
<1> QED BY <1>4, <1>5, <1>6, Zenon DEF both

\* The first message of a queue taken away: it was the last of its sort, or others are.
LEMMA LastAfterOne ==
    ASSUME NEW S, NEW q \in Seq(S), q # <<>>, NEW sort
    PROVE  /\ NoneIn(q, sort) <=> NoneIn(Tail(q), sort) /\ Head(q) \notin sort
           /\ \A what : LastIn(q, sort, what) /\ ~NoneIn(Tail(q), sort) => LastIn(Tail(q), sort, what)
           /\ \A what : LastIn(q, sort, what) /\ NoneIn(Tail(q), sort) =>
                            Head(q) \in sort /\ Head(q).what = what
<1> DEFINE rest == Tail(q)
<1>1. /\ Len(rest) = Len(q) - 1 /\ Len(q) \in Nat \ {0} /\ Head(q) = q[1]
      /\ \A n \in 1..Len(rest) : rest[n] = q[n + 1]
  OBVIOUS
<1> HIDE DEF rest
<1>2. \A n \in 1..Len(q) : n = 1 \/ (n - 1 \in 1..Len(rest) /\ rest[n - 1] = q[n])
  <2> SUFFICES ASSUME NEW n \in 1..Len(q), n # 1
               PROVE  n - 1 \in 1..Len(rest) /\ rest[n - 1] = q[n]
    OBVIOUS
  <2>1. n - 1 \in 1..Len(rest) /\ (n - 1) + 1 = n
    BY <1>1
  <2>2. rest[n - 1] = q[(n - 1) + 1]
    BY <1>1, <2>1
  <2> QED BY <2>1, <2>2
<1>3. NoneIn(q, sort) <=> NoneIn(rest, sort) /\ Head(q) \notin sort
  <2>1. ASSUME NoneIn(q, sort) PROVE NoneIn(rest, sort) /\ Head(q) \notin sort
    <3>1. Head(q) \notin sort
      BY <1>1, <2>1 DEF NoneIn
    <3>2. ASSUME NEW n \in 1..Len(rest) PROVE rest[n] \notin sort
      <4>1. n + 1 \in 1..Len(q)
        BY <1>1
      <4> QED BY <1>1, <2>1, <4>1 DEF NoneIn
    <3> QED BY <3>1, <3>2 DEF NoneIn
  <2>2. ASSUME NoneIn(rest, sort), Head(q) \notin sort PROVE NoneIn(q, sort)
    BY <1>1, <1>2, <2>2 DEF NoneIn
  <2> QED BY <2>1, <2>2
<1>4. ASSUME NEW what, LastIn(q, sort, what)
      PROVE  /\ ~NoneIn(rest, sort) => LastIn(rest, sort, what)
             /\ NoneIn(rest, sort) => Head(q) \in sort /\ Head(q).what = what
  <2>1. PICK n \in 1..Len(q) : /\ q[n] \in sort /\ q[n].what = what
                               /\ \A m \in n + 1..Len(q) : q[m] \notin sort
    BY <1>4 DEF LastIn
  <2>2. CASE n = 1
    <3>1. ASSUME NEW m \in 1..Len(rest) PROVE rest[m] \notin sort
      <4>1. m + 1 \in n + 1..Len(q)
        BY <1>1, <2>2
      <4> QED BY <1>1, <2>1, <4>1
    <3> QED BY <1>1, <2>1, <2>2, <3>1 DEF NoneIn
  <2>3. CASE n # 1
    <3>1. n - 1 \in 1..Len(rest) /\ rest[n - 1] = q[n]
      BY <1>2, <2>3
    <3>2. ASSUME NEW m \in (n - 1) + 1..Len(rest) PROVE rest[m] \notin sort
      <4>1. m \in 1..Len(rest) /\ m + 1 \in n + 1..Len(q)
        BY <1>1
      <4> QED BY <1>1, <2>1, <4>1
    <3>3. LastIn(rest, sort, what)
      BY <2>1, <3>1, <3>2 DEF LastIn
    <3> QED BY <2>1, <3>1, <3>3 DEF NoneIn
  <2> QED BY <2>2, <2>3
<1> QED BY <1>3, <1>4, Zenon DEF rest

-----------------------------------------------------------------------------
(* What is on its way, and what it will make the switches show *)

Listings == {reply \in Replies : reply.kind = "names"}
ReportsFor(i) == {reply \in Replies : reply.kind = "mute" /\ reply.index = i}
ListenComing(i) == \E n \in 1..Len(toLive) : toLive[n].kind = "listen" /\ toLive[n].index = i

\* The switch at an index will show a value when all reports have come.
WillShow(i, value) ==
    \/ LastIn(toBridge, ReportsFor(i), value)
    \/ NoneIn(toBridge, ReportsFor(i)) /\ mutes[i + 1] = value

\* The track at an index is listened to, and no other reports under that index.
OwnListener(i) ==
    /\ functions[<<"mute", i>>] = TrackAt(i)
    /\ \A t \in Track : t # TrackAt(i) /\ InList(t, tracks) => attached[t][<<"mute", i>>] = 0

\* The last list the bridge gets is Live's.
ListInv ==
    listed => \/ LastIn(toBridge, Listings, tracks)
              \/ NoneIn(toBridge, Listings) /\ names = tracks

\* For each track the bridge will listen again, or the last report is true.
WillBeRight(i) == ListenComing(i) \/ (OwnListener(i) => WillShow(i, muted[TrackAt(i)]))

SwitchInv ==
    listed /\ registered /\ NoneIn(toBridge, Listings) =>
        \A i \in Positions(tracks) : WillBeRight(i)

MutesInv == ListInv /\ SwitchInv

\* A position in Live's list is an index the script knows.
LEMMA PositionsAreIndices ==
    ASSUME TablesType
    PROVE  /\ \A i \in Int : HasIndex(i) <=> i \in Positions(tracks)
           /\ \A i \in Positions(tracks) : i \in Index /\ i \in Int /\ TrackAt(i) \in Track
                                           /\ InList(TrackAt(i), tracks)
<1>1. DOMAIN tracks = 1..Len(tracks) /\ Len(tracks) \in Nat
  BY TrackLists DEF TablesType
<1>2. \A i \in Int : HasIndex(i) <=> i \in Positions(tracks)
  BY <1>1 DEF HasIndex, Positions
<1>3. ASSUME NEW i \in Positions(tracks)
      PROVE  i \in Index /\ i \in Int /\ TrackAt(i) \in Track /\ InList(TrackAt(i), tracks)
  <2>1. i \in Int /\ HasIndex(i)
    BY <1>1, <1>2, <1>3 DEF Positions
  <2> QED BY <2>1, IndexInRange DEF HasIndex, InList, TrackAt
<1> QED BY <1>2, <1>3

\* Of a sort of messages, those on their way stay the same.
SameTold(sort) ==
    /\ NoneIn(toBridge', sort) <=> NoneIn(toBridge, sort)
    /\ \A what : LastIn(toBridge, sort, what) => LastIn(toBridge', sort, what)

\* Messages of other sorts are sent, or taken, or none are.
LEMMA OtherMessages ==
    ASSUME MessagesType, NEW sort,
           \/ toBridge' = toBridge
           \/ \E more \in Seq(Replies) : toBridge' = toBridge \o more /\ NoneIn(more, sort)
           \/ toBridge # <<>> /\ Head(toBridge) \notin sort /\ toBridge' = Tail(toBridge)
    PROVE  SameTold(sort)
<1>1. toBridge \in Seq(Replies)
  BY Zenon DEF MessagesType
<1>2. CASE toBridge' = toBridge
  BY <1>2, Zenon DEF SameTold
<1>3. ASSUME NEW more \in Seq(Replies), toBridge' = toBridge \o more, NoneIn(more, sort)
      PROVE  SameTold(sort)
  BY <1>1, <1>3, LastAfterMore, Zenon DEF SameTold
<1>4. CASE toBridge # <<>> /\ Head(toBridge) \notin sort /\ toBridge' = Tail(toBridge)
  BY <1>1, <1>4, LastAfterOne, Zenon DEF SameTold
<1> QED BY <1>2, <1>3, <1>4, Zenon

\* Lists and reports on their way being the same, and listeners being kept or gone, the
\* rest stays as right as it is.
LEMMA NothingToldStep ==
    ASSUME MessagesType, TablesType, MutesInv,
           SameTold(Listings), \A i \in Positions(tracks) : SameTold(ReportsFor(i)),
           UNCHANGED <<tracks, muted, listed, names, mutes>>, registered' => registered,
           \A i \in Positions(tracks) : ListenComing(i) => ListenComing(i)',
           \A i \in Positions(tracks) : OwnListener(i)' => OwnListener(i)
    PROVE  MutesInv'
<1>1. ListInv'
  BY Zenon DEF MutesInv, ListInv, SameTold, Listings, Replies
<1>2. Positions(tracks)' = Positions(tracks)
  BY DEF Positions
<1>3. ASSUME NEW i \in Positions(tracks), WillBeRight(i) PROVE WillBeRight(i)'
  <2>1. TrackAt(i)' = TrackAt(i)
    BY DEF TrackAt
  <2>2. \A value : WillShow(i, value) => WillShow(i, value)'
    BY <1>3, Zenon DEF SameTold, WillShow
  <2> QED BY <1>3, <2>1, <2>2, Zenon DEF WillBeRight
<1>4. SwitchInv'
  BY <1>2, <1>3, Zenon DEF MutesInv, SwitchInv, SameTold
<1> QED BY <1>1, <1>4, Zenon DEF MutesInv

\* A request to listen is still to come when requests are added or another one is taken.
LEMMA ListenGoesOn ==
    ASSUME MessagesType, NEW i,
           \/ toLive' = toLive
           \/ \E requests \in Seq(Requests) : Ask(requests)
           \/ /\ toLive # <<>> /\ toLive' = Tail(toLive)
              /\ ~(Head(toLive).kind = "listen" /\ Head(toLive).index = i),
           ListenComing(i)
    PROVE  ListenComing(i)'
<1>1. toLive \in Seq(Requests)
  BY Zenon DEF MessagesType
<1>2. PICK n \in 1..Len(toLive) : toLive[n].kind = "listen" /\ toLive[n].index = i
  BY DEF ListenComing
<1>3. CASE toLive' = toLive
  BY <1>3 DEF ListenComing
<1>4. ASSUME NEW requests \in Seq(Requests), Ask(requests) PROVE ListenComing(i)'
  <2>1. n \in 1..Len(toLive') /\ toLive'[n] = toLive[n]
    BY <1>1, <1>2, <1>4 DEF Ask
  <2> QED BY <1>2, <2>1 DEF ListenComing
<1>5. CASE toLive # <<>> /\ toLive' = Tail(toLive)
           /\ ~(Head(toLive).kind = "listen" /\ Head(toLive).index = i)
  <2>1. n # 1
    BY <1>1, <1>2, <1>5
  <2>2. n - 1 \in 1..Len(toLive') /\ toLive'[n - 1] = toLive[n]
    BY <1>1, <1>2, <1>5, <2>1
  <2> QED BY <1>2, <2>2 DEF ListenComing
<1> QED BY <1>3, <1>4, <1>5, Zenon

\* The polls, the devices and other clients only ask.
LEMMA AskingStep ==
    ASSUME MessagesType, TablesType, MutesInv, NEW requests \in Seq(Requests), Ask(requests),
           UNCHANGED <<liveTracks, scriptVars, trackVars, toBridge, muted, listed>>
    PROVE  MutesInv'
<1>1. \A sort : SameTold(sort)
  BY OtherMessages, Zenon
<1>2. \A i : ListenComing(i) => ListenComing(i)'
  BY ListenGoesOn, Zenon
<1>3. UNCHANGED <<tracks, muted, listed, names, mutes>> /\ registered' = registered
      /\ attached' = attached /\ functions' = functions
  BY DEF liveTracks, scriptVars, tables, trackVars
<1>4. \A i : OwnListener(i)' => OwnListener(i)
  BY <1>3, Zenon DEF OwnListener, TrackAt, InList
<1> QED BY <1>1, <1>2, <1>3, <1>4, NothingToldStep, Zenon

\* The bridge takes an answer that is neither a list nor a report.
LEMMA OtherAnswersStep ==
    ASSUME IInv, MutesInv, HandleCueClipNames \/ HandleTrackMeter
    PROVE  MutesInv'
<1>1. MessagesType /\ TablesType
  BY Zenon DEF IInv, ListenersInv
<1>2. /\ toBridge # <<>> /\ toBridge' = Tail(toBridge)
      /\ Head(toBridge).kind = "clips" \/ Head(toBridge).kind = "meters"
      /\ UNCHANGED <<liveTracks, scriptVars, trackVars, toLive, muted, listed>>
  BY DEF HandleCueClipNames, HandleTrackMeter, Received, historyVars
<1>3. Head(toBridge) \notin Listings /\ \A i : Head(toBridge) \notin ReportsFor(i)
  BY <1>2 DEF Listings, ReportsFor
<1>4. SameTold(Listings) /\ \A i : SameTold(ReportsFor(i))
  BY <1>1, <1>2, <1>3, OtherMessages, Zenon
<1>5. \A i : ListenComing(i) => ListenComing(i)'
  BY <1>2 DEF ListenComing
<1>6. UNCHANGED <<tracks, muted, listed, names, mutes>> /\ registered' = registered
      /\ attached' = attached /\ functions' = functions
  BY <1>2 DEF liveTracks, scriptVars, tables, trackVars
<1>7. \A i : OwnListener(i)' => OwnListener(i)
  BY <1>6, Zenon DEF OwnListener, TrackAt, InList
<1> QED BY <1>1, <1>4, <1>5, <1>6, <1>7, NothingToldStep, Zenon

\* A report is shown under its index.
LEMMA ReportStep ==
    ASSUME IInv, ShownType, MutesInv, HandleTrackMute
    PROVE  MutesInv'
<1> DEFINE report == Head(toBridge)
<1>1. MessagesType /\ TablesType
  BY Zenon DEF IInv, ListenersInv
<1>2. /\ toBridge \in Seq(Replies) /\ toBridge # <<>> /\ toBridge' = Tail(toBridge)
      /\ UNCHANGED <<liveTracks, scriptVars, names, toLive, muted, listed>>
      /\ mutes' = [n \in DOMAIN mutes |-> IF n = report.index + 1 THEN report.what ELSE mutes[n]]
  BY <1>1, Zenon DEF HandleTrackMute, Received, MessagesType, historyVars
<1>3. report \in Replies /\ report.kind = "mute" /\ report.index \in Index
  <2>1. report \in Replies /\ report.kind = "mute"
    BY <1>1, QueuesType, Zenon DEF HandleTrackMute
  <2> QED BY <2>1 DEF Replies
<1>4. SameTold(Listings)
  <2>1. report \notin Listings
    BY <1>3 DEF Listings
  <2> QED BY <1>1, <1>2, <2>1, OtherMessages, Zenon
<1>5. ListInv'
  BY <1>2, <1>4, Zenon DEF MutesInv, ListInv, SameTold, liveTracks
<1>6. SwitchInv'
  <2>1. SUFFICES ASSUME listed, registered, NoneIn(toBridge', Listings), NEW i \in Positions(tracks)
                 PROVE  WillBeRight(i)'
    <3>1. Positions(tracks)' = Positions(tracks) /\ listed' = listed /\ registered' = registered
      BY <1>2 DEF Positions, liveTracks, scriptVars
    <3> QED BY <3>1, Zenon DEF SwitchInv
  <2>2. NoneIn(toBridge, Listings)
    BY <1>4, <2>1, Zenon DEF SameTold
  <2>3. names = tracks
    BY <2>1, <2>2 DEF MutesInv, ListInv, LastIn, NoneIn
  <2>4. WillBeRight(i)
    BY <2>1, <2>2, Zenon DEF MutesInv, SwitchInv
  <2>5. i \in Index /\ i + 1 \in DOMAIN mutes
    <3>1. i \in Index /\ i + 1 \in DOMAIN tracks
      BY <1>1, <2>1, PositionsAreIndices DEF HasIndex
    <3>2. DOMAIN mutes = DOMAIN names
      BY Zenon DEF ShownType
    <3> QED BY <2>3, <3>1, <3>2, Zenon
  <2>6. ASSUME NEW value, WillShow(i, value) PROVE WillShow(i, value)'
    <3>1. CASE report \in ReportsFor(i)
      <4>1. ~NoneIn(toBridge, ReportsFor(i))
        BY <1>2, <3>1, LastAfterOne, Zenon
      <4>2. \/ LastIn(toBridge', ReportsFor(i), value)
            \/ NoneIn(toBridge', ReportsFor(i)) /\ report.what = value
        BY <1>2, <2>6, <4>1, LastAfterOne, Zenon DEF WillShow
      <4>3. report.index = i
        BY <3>1, Zenon DEF ReportsFor
      <4>4. mutes'[i + 1] = report.what
        BY <1>2, <2>5, <4>3, Zenon
      <4> QED BY <4>2, <4>4, Zenon DEF WillShow
    <3>2. CASE report \notin ReportsFor(i)
      <4>1. SameTold(ReportsFor(i))
        BY <1>1, <1>2, <3>2, OtherMessages, Zenon
      <4>2. report.index # i
        BY <1>3, <3>2, Zenon DEF ReportsFor
      <4>3. i + 1 # report.index + 1
        BY <1>3, <2>5, <4>2, TrackLists DEF Index
      <4>4. mutes'[i + 1] = mutes[i + 1]
        BY <1>2, <2>5, <4>3, Zenon
      <4> QED BY <2>6, <4>1, <4>4, Zenon DEF WillShow, SameTold
    <3> QED BY <3>1, <3>2
  <2>7. /\ ListenComing(i)' <=> ListenComing(i)
        /\ OwnListener(i)' <=> OwnListener(i)
        /\ muted[TrackAt(i)]' = muted[TrackAt(i)]
    <3>1. toLive' = toLive /\ tracks' = tracks /\ attached' = attached /\ functions' = functions
          /\ muted' = muted
      BY <1>2 DEF liveTracks, scriptVars, tables
    <3> QED BY <3>1, Zenon DEF ListenComing, OwnListener, TrackAt, InList
  <2> QED BY <2>4, <2>6, <2>7, Zenon DEF WillBeRight
<1> QED BY <1>5, <1>6, Zenon DEF MutesInv

\* What the bridge asks for after a list: a listener for each track.
LEMMA RequestsOfList ==
    ASSUME NEW list \in TrackList
    PROVE  /\ Listens(list) \in Seq(Requests) /\ ClipNamesRequest(CueIndexIn(list)) \in Seq(Requests)
           /\ Len(Listens(list)) = Len(list)
           /\ \A n \in 1..Len(list) : Listens(list)[n] = Request("listen", n - 1)
<1>1. list \in Seq(Track) /\ DOMAIN list = 1..Len(list) /\ Len(list) \in Nat
  BY TrackLists
<1>2. Listens(list) = [n \in 1..Len(list) |-> Request("listen", n - 1)]
  BY <1>1, Zenon DEF Listens
<1>3. ASSUME NEW n \in 1..Len(list) PROVE Request("listen", n - 1) \in Requests
  <2>1. n - 1 \in Int /\ "listen" \in Kinds
    BY <1>1 DEF Kinds
  <2> QED BY <2>1 DEF Request, Requests
<1>4. /\ Listens(list) \in Seq(Requests) /\ Len(Listens(list)) = Len(list)
      /\ \A n \in 1..Len(list) : Listens(list)[n] = Request("listen", n - 1)
  BY <1>1, <1>2, <1>3
<1>5. ClipNamesRequest(CueIndexIn(list)) \in Seq(Requests)
  <2>1. CueIndexIn(list) \in Int
    BY CueIndexType, TrackLists DEF Index, NoIndex
  <2>2. "clips" \in Kinds
    BY DEF Kinds
  <2>3. Request("clips", CueIndexIn(list)) \in Requests
    BY <2>1, <2>2 DEF Request, Requests
  <2>4. <<>> \in Seq(Requests)
    OBVIOUS
  <2>5. <<Request("clips", CueIndexIn(list))>> \in Seq(Requests)
    BY <2>3
  <2> QED BY <2>4, <2>5, Zenon DEF ClipNamesRequest
<1> QED BY <1>4, <1>5

\* An element of the second of two sequences, in the two put together.
LEMMA ElementBehind ==
    ASSUME NEW S, NEW p \in Seq(S), NEW q \in Seq(S), NEW m \in 1..Len(q)
    PROVE  /\ p \o q \in Seq(S)
           /\ Len(p) + m \in 1..Len(p \o q)
           /\ (p \o q)[Len(p) + m] = q[m]
  OBVIOUS

\* A list is shown, with the listening asked for anew when it is the last.
LEMMA ListStep ==
    ASSUME IInv, ShownType, MutesInv, HandleTrackNames
    PROVE  MutesInv'
<1> DEFINE reply == Head(toBridge)
           list == reply.what
<1>1. MessagesType /\ TablesType
  BY Zenon DEF IInv, ListenersInv
<1>2. /\ toBridge \in Seq(Replies) /\ toBridge # <<>> /\ toBridge' = Tail(toBridge)
      /\ UNCHANGED <<liveTracks, scriptVars, muted, listed>>
      /\ names' = list /\ Ask(ClipNamesRequest(CueIndexIn(list)) \o Listens(list))
  BY <1>1, Zenon DEF HandleTrackNames, Received, MessagesType, historyVars
<1>3. reply \in Replies /\ reply.kind = "names"
  BY <1>1, QueuesType, Zenon DEF HandleTrackNames
<1>4. reply \in Listings /\ list \in TrackList
  BY <1>3 DEF Listings, Replies
<1>5. tracks' = tracks
  BY <1>2 DEF liveTracks
<1>6. ListInv'
  <2>1. SUFFICES ASSUME listed
                 PROVE  \/ LastIn(toBridge', Listings, tracks)
                        \/ NoneIn(toBridge', Listings) /\ list = tracks
    BY <1>2, <1>5, Zenon DEF ListInv
  <2>2. ~NoneIn(toBridge, Listings)
    BY <1>2, <1>4, LastAfterOne, Zenon
  <2>3. LastIn(toBridge, Listings, tracks)
    BY <2>1, <2>2, Zenon DEF MutesInv, ListInv
  <2> QED BY <1>2, <2>3, LastAfterOne, Zenon
<1>7. SwitchInv'
  <2>1. SUFFICES ASSUME listed, NoneIn(toBridge', Listings), NEW i \in Positions(tracks)
                 PROVE  ListenComing(i)'
    <3>1. Positions(tracks)' = Positions(tracks) /\ listed' = listed
      BY <1>2, <1>5 DEF Positions
    <3> QED BY <3>1, Zenon DEF SwitchInv, WillBeRight
  <2>2. list = tracks
    <3>1. listed' /\ ~LastIn(toBridge', Listings, tracks')
      BY <1>2, <2>1 DEF LastIn, NoneIn
    <3> QED BY <1>2, <1>5, <1>6, <3>1, Zenon DEF ListInv
  <2>3. /\ Len(list) \in Nat /\ DOMAIN list = 1..Len(list) /\ i \in Int /\ i + 1 \in 1..Len(list)
    <3>1. Len(list) \in Nat /\ DOMAIN list = 1..Len(list)
      BY <1>4, TrackLists
    <3> HIDE DEF list
    <3> QED BY <2>1, <2>2, <3>1 DEF Positions
  <2> DEFINE clip == ClipNamesRequest(CueIndexIn(list))
  <2>4. clip = <<>> \/ clip = <<Request("clips", CueIndexIn(list))>>
    BY Zenon DEF ClipNamesRequest
  <2>5. Len(clip) \in Nat
    BY <2>4
  <2>6. /\ Listens(list) = [n \in 1..Len(list) |-> Request("listen", n - 1)]
    BY <2>3, Zenon DEF Listens
  <2>7. toLive \in Seq(Requests)
    BY <1>1, Zenon DEF MessagesType
  <2>8. toLive' = toLive \o (clip \o Listens(list))
    BY <1>2, Zenon DEF Ask
  <2> DEFINE n == Len(toLive) + (Len(clip) + (i + 1))
  <2>9. n \in 1..Len(toLive') /\ toLive'[n] = Request("listen", (i + 1) - 1)
    <3> DEFINE asked == Listens(list)
               both == clip \o asked
    <3>1. /\ asked \in Seq(Requests) /\ clip \in Seq(Requests) /\ Len(asked) = Len(list)
          /\ asked[i + 1] = Request("listen", (i + 1) - 1)
      BY <1>4, <2>3, <2>6, RequestsOfList
    <3>2. i + 1 \in 1..Len(asked)
      BY <2>3, <3>1
    <3>3. /\ both \in Seq(Requests)
          /\ Len(clip) + (i + 1) \in 1..Len(both)
          /\ both[Len(clip) + (i + 1)] = asked[i + 1]
      <4> HIDE DEF clip, asked
      <4> QED BY <3>1, <3>2, ElementBehind
    <3> HIDE DEF asked, clip
    <3>4. toLive' = toLive \o both
      BY <2>8, Zenon DEF asked
    <3> HIDE DEF both
    <3>5. n \in 1..Len(toLive \o both) /\ (toLive \o both)[n] = both[Len(clip) + (i + 1)]
      BY <2>7, <3>3, ElementBehind
    <3> QED BY <3>1, <3>3, <3>4, <3>5, Zenon
  <2>10. (i + 1) - 1 = i
    BY <2>3
  <2> HIDE DEF n
  <2> QED BY <2>9, <2>10 DEF ListenComing, Request
<1> QED BY <1>6, <1>7, Zenon DEF MutesInv

\* A list is answered: the bridge will get it, after all it got before.
LEMMA AnswerNamesStep ==
    ASSUME IInv, MutesInv, AnswerNames, UNCHANGED trackVars
    PROVE  MutesInv'
<1> DEFINE reply == Reply("names", NoIndex, tracks)
<1>1. MessagesType /\ TablesType
  BY Zenon DEF IInv, ListenersInv
<1>2. toBridge \in Seq(Replies) /\ toBridge' = toBridge \o <<reply>> /\ tracks' = tracks
  BY <1>1 DEF AnswerNames, Answer, MessagesType, liveTracks
<1>3. reply \in Listings /\ reply.what = tracks
  BY <1>1 DEF Reply, Replies, Listings, TablesType
<1> HIDE DEF reply
<1>4. <<reply>> \in Seq(Replies) /\ LastIn(<<reply>>, Listings, tracks)
  <2>1. reply \in Replies
    BY <1>3 DEF Listings
  <2>2. <<reply>> \in Seq(Replies) /\ Len(<<reply>>) = 1 /\ <<reply>>[1] = reply
    BY <2>1
  <2> QED BY <1>3, <2>2 DEF LastIn
<1>5. LastIn(toBridge', Listings, tracks)
  BY <1>2, <1>4, LastAfterMore, Zenon
<1>6. ~NoneIn(toBridge', Listings)
  BY <1>5 DEF LastIn, NoneIn
<1> QED BY <1>2, <1>5, <1>6, Zenon DEF MutesInv, ListInv, SwitchInv

\* Clip names and meters are answered.
LEMMA AnswerOthersStep ==
    ASSUME IInv, MutesInv, AnswerClips \/ AnswerMeters, UNCHANGED <<trackVars, listed>>
    PROVE  MutesInv'
<1> DEFINE i == Head(toLive).index
           clips == IF HasIndex(i) THEN <<Reply("clips", i, TrackAt(i))>> ELSE <<>>
           read == <<Reply("meters", NoIndex, {n \in 0..i - 1 : HasIndex(n)})>>
<1>1. MessagesType /\ TablesType
  BY Zenon DEF IInv, ListenersInv
<1>2. /\ toLive # <<>> /\ toLive' = Tail(toLive) /\ Head(toLive).kind # "listen"
      /\ toBridge' = toBridge \o clips \/ toBridge' = toBridge \o read
      /\ UNCHANGED <<liveTracks, scriptVars, muted>>
  BY DEF AnswerClips, AnswerMeters, Obeys, Answer
<1>3. i \in Int
  <2>1. Head(toLive) \in Requests
    BY <1>1, <1>2 DEF MessagesType
  <2> QED BY <2>1 DEF Requests
<1> HIDE DEF i
<1>4. ASSUME NEW sort, sort = Listings \/ \E n : sort = ReportsFor(n)
      PROVE  /\ clips \in Seq(Replies) /\ NoneIn(clips, sort)
             /\ read \in Seq(Replies) /\ NoneIn(read, sort)
  <2>1. \A message \in sort : message.kind \in {"names", "mute"}
    BY <1>4 DEF Listings, ReportsFor
  <2>2. clips \in Seq(Replies) /\ NoneIn(clips, sort)
    <3>1. CASE HasIndex(i)
      <4> DEFINE reply == Reply("clips", i, TrackAt(i))
      <4>1. reply \in Replies
        BY <1>1, <1>3, <3>1, IndexInRange DEF Reply, Replies
      <4>2. reply \notin sort
        BY <2>1 DEF Reply
      <4> HIDE DEF reply
      <4>3. <<reply>> \in Seq(Replies) /\ NoneIn(<<reply>>, sort)
        BY <4>1, <4>2 DEF NoneIn
      <4> QED BY <3>1, <4>3, Zenon DEF reply
    <3>2. CASE ~HasIndex(i)
      BY <3>2 DEF NoneIn
    <3> QED BY <3>1, <3>2
  <2>3. read \in Seq(Replies) /\ NoneIn(read, sort)
    <3> DEFINE reply == Reply("meters", NoIndex, {n \in 0..i - 1 : HasIndex(n)})
    <3>1. {n \in 0..i - 1 : HasIndex(n)} \subseteq Index
      BY <1>1, <1>3, IndexInRange
    <3>2. reply \in Replies
      BY <3>1 DEF Reply, Replies
    <3>3. reply \notin sort
      BY <2>1 DEF Reply
    <3> HIDE DEF reply
    <3>4. <<reply>> \in Seq(Replies) /\ NoneIn(<<reply>>, sort)
      BY <3>2, <3>3 DEF NoneIn
    <3> QED BY <3>4, Zenon DEF reply
  <2> QED BY <2>2, <2>3
<1> HIDE DEF clips, read
<1>5. SameTold(Listings) /\ \A n : SameTold(ReportsFor(n))
  BY <1>1, <1>2, <1>4, OtherMessages, Zenon
<1>6. \A n : ListenComing(n) => ListenComing(n)'
  BY <1>1, <1>2, ListenGoesOn, Zenon
<1>7. UNCHANGED <<tracks, muted, listed, names, mutes>> /\ registered' = registered
      /\ attached' = attached /\ functions' = functions
  BY <1>2 DEF liveTracks, scriptVars, tables, trackVars
<1>8. \A n : OwnListener(n)' => OwnListener(n)
  BY <1>7, Zenon DEF OwnListener, TrackAt, InList
<1> QED BY <1>1, <1>5, <1>6, <1>7, <1>8, NothingToldStep, Zenon

\* Requests that stop listeners, or are about volumes, or are not understood: no track is
\* listened to that was not before.
LEMMA NoNewListener ==
    ASSUME IInv, MutesInv, UNCHANGED <<tracks, toBridge, muted, trackVars, listed>>,
           registered' => registered,
           toLive # <<>>, toLive' = Tail(toLive),
           \A i \in Positions(tracks) : ~(Head(toLive).kind = "listen" /\ Head(toLive).index = i),
           \A i \in Positions(tracks) : OwnListener(i)' => OwnListener(i)
    PROVE  MutesInv'
<1>1. MessagesType /\ TablesType
  BY Zenon DEF IInv, ListenersInv
<1>2. \A sort : SameTold(sort)
  BY <1>1, OtherMessages, Zenon
<1>3. \A i \in Positions(tracks) : ListenComing(i) => ListenComing(i)'
  BY <1>1, ListenGoesOn, Zenon
<1>4. UNCHANGED <<tracks, muted, listed, names, mutes>>
  BY DEF trackVars
<1> QED BY <1>1, <1>2, <1>3, <1>4, NothingToldStep, Zenon

\* A callback under another key than those of the mute listeners changes none of them.
LEMMA OtherKeys ==
    ASSUME TablesType, NEW t \in Track, NEW k \in Key, tracks' = tracks,
           \/ attached' = attached
           \/ attached' = Without(t, k)
           \/ attached' = [Without(t, k) EXCEPT ![t][k] = @ + 1],
           \/ functions' = functions
           \/ functions' = [functions EXCEPT ![k] = t]
           \/ functions' = [functions EXCEPT ![k] = NoTrack],
           NEW i \in Index, <<"mute", i>> # k
    PROVE  OwnListener(i)' <=> OwnListener(i)
<1> USE TracksAssumption
<1>1. <<"mute", i>> \in Key
  BY DEF Key
<1>2. functions'[<<"mute", i>>] = functions[<<"mute", i>>]
  BY <1>1 DEF TablesType
<1>3. /\ Without(t, k) \in [Track -> [Key -> Nat]]
      /\ \A u \in Track, l \in Key : l # k => Without(t, k)[u][l] = attached[u][l]
  BY WithoutCounts
<1>4. ASSUME NEW u \in Track PROVE attached'[u][<<"mute", i>>] = attached[u][<<"mute", i>>]
  <2>1. Without(t, k)[u][<<"mute", i>>] = attached[u][<<"mute", i>>]
    BY <1>1, <1>3
  <2>2. [Without(t, k) EXCEPT ![t][k] = @ + 1][u][<<"mute", i>>] = Without(t, k)[u][<<"mute", i>>]
    BY <1>1, <1>3
  <2> QED BY <2>1, <2>2
<1> QED BY <1>2, <1>4, Zenon DEF OwnListener, TrackAt, InList

\* Other clients' requests about the values of parameters, and to stop a mute listener.
LEMMA StopStartStep ==
    ASSUME IInv, MutesInv, UNCHANGED <<trackVars, listed>>,
           \/ StopMute
           \/ \E kind \in Kinds \ {"listen"}, prop \in ValueProperty :
                 ListenValue(kind, prop) \/ StopValue(kind, prop)
    PROVE  MutesInv'
<1> USE TracksAssumption, ListenerAssumption
<1> DEFINE i == Head(toLive).index
<1>1. MessagesType /\ TablesType
  BY Zenon DEF IInv, ListenersInv
<1>2. /\ toLive # <<>> /\ toLive' = Tail(toLive) /\ Head(toLive).kind # "listen"
      /\ UNCHANGED <<tracks, registered, toBridge, muted>>
  BY DEF ListenValue, StopValue, StopMute, Obeys
<1>3. i \in Int
  <2>1. Head(toLive) \in Requests
    BY <1>1, <1>2 DEF MessagesType
  <2> QED BY <2>1 DEF Requests
<1>4. ASSUME NEW n \in Positions(tracks), OwnListener(n)' PROVE OwnListener(n)
  <2>1. n \in Index /\ TrackAt(n) \in Track
    BY <1>1, <1>4, PositionsAreIndices
  <2>2. CASE attached' = attached /\ functions' = functions
    BY <1>2, <1>4, <2>2, Zenon DEF OwnListener, TrackAt, InList
  <2>3. ASSUME HasIndex(i), NEW prop \in Property, prop # "mute" \/ functions'[<<prop, i>>] = NoTrack,
               \/ attached' = Without(TrackAt(i), <<prop, i>>)
               \/ attached' = [Without(TrackAt(i), <<prop, i>>) EXCEPT ![TrackAt(i)][<<prop, i>>] = @ + 1],
               \/ functions' = [functions EXCEPT ![<<prop, i>>] = TrackAt(i)]
               \/ functions' = [functions EXCEPT ![<<prop, i>>] = NoTrack]
        PROVE  OwnListener(n)
    <3>1. <<prop, i>> \in Key /\ TrackAt(i) \in Track
      BY <1>1, <1>3, <2>3, IndexInRange DEF Key
    <3>2. <<"mute", n>> # <<prop, i>>
      <4>1. functions'[<<"mute", n>>] = TrackAt(n)'
        BY <1>4, Zenon DEF OwnListener
      <4>2. TrackAt(n)' # NoTrack
        BY <1>2, <2>1 DEF TrackAt
      <4> QED BY <2>3, <4>1, <4>2
    <3> QED BY <1>1, <1>2, <1>4, <2>1, <2>3, <3>1, <3>2, OtherKeys, Zenon
  <2>4. ASSUME NEW kind, NEW prop \in ValueProperty, ListenValue(kind, prop) PROVE OwnListener(n)
    <3>1. CASE HasIndex(i) /\ GoesOn(prop, i)
      <4>1. StartValueListen(prop, i)
        BY <2>4, <3>1, Zenon DEF ListenValue
      <4>2. /\ attached' = [Without(TrackAt(i), <<prop, i>>) EXCEPT ![TrackAt(i)][<<prop, i>>] = @ + 1]
            /\ functions' = [functions EXCEPT ![<<prop, i>>] = TrackAt(i)]
        BY <4>1, Zenon DEF StartValueListen
      <4>3. prop \in Property /\ prop # "mute"
        OBVIOUS
      <4> QED BY <2>3, <3>1, <4>2, <4>3, Zenon
    <3>2. CASE ~(HasIndex(i) /\ GoesOn(prop, i))
      BY <2>2, <2>4, <3>2, Zenon DEF ListenValue, tables
    <3> QED BY <3>1, <3>2
  <2>5. ASSUME NEW kind, NEW prop \in ValueProperty, StopValue(kind, prop) PROVE OwnListener(n)
    <3>1. CASE HasIndex(i) /\ GoesOn(prop, i)
      <4>1. StopValueListen(prop, i)
        BY <2>5, <3>1, Zenon DEF StopValue
      <4>2. /\ attached' = Without(TrackAt(i), <<prop, i>>)
            /\ functions' = [functions EXCEPT ![<<prop, i>>] = NoTrack]
        BY <4>1, Zenon DEF StopValueListen
      <4>3. prop \in Property /\ prop # "mute"
        OBVIOUS
      <4> QED BY <2>3, <3>1, <4>2, <4>3, Zenon
    <3>2. CASE ~(HasIndex(i) /\ GoesOn(prop, i))
      BY <2>2, <2>5, <3>2, Zenon DEF StopValue, tables
    <3> QED BY <3>1, <3>2
  <2>6. CASE StopMute
    <3>1. CASE HasIndex(i)
      <4>1. StopListen("mute", i)
        BY <2>6, <3>1, Zenon DEF StopMute
      <4>2. /\ attached' = Without(TrackAt(i), <<"mute", i>>)
            /\ functions' = [functions EXCEPT ![<<"mute", i>>] = NoTrack]
        BY <4>1, Zenon DEF StopListen
      <4>3. "mute" \in Property
        OBVIOUS
      <4>4. functions'[<<"mute", i>>] = NoTrack
        BY <1>1, <1>3, <3>1, <4>2, <4>3, IndexInRange DEF TablesType, Key
      <4> QED BY <2>3, <3>1, <4>2, <4>3, <4>4, Zenon
    <3>2. CASE ~HasIndex(i)
      BY <2>2, <2>6, <3>2, Zenon DEF StopMute, tables
    <3> QED BY <3>1, <3>2
  <2> QED BY <2>4, <2>5, <2>6, Zenon
<1> QED BY <1>2, <1>4, NoNewListener, Zenon

\* A reload stops listeners, or leaves the script without its handlers.
LEMMA MutesReloadStep ==
    ASSUME IInv, MutesInv, Reload, UNCHANGED <<trackVars, listed>>
    PROVE  MutesInv'
<1> USE ListenerAssumption, TracksAssumption
<1>1. MessagesType /\ TablesType
  BY Zenon DEF IInv, ListenersInv
<1>2. /\ registered /\ toLive # <<>> /\ toLive' = Tail(toLive) /\ Head(toLive).kind # "listen"
      /\ UNCHANGED <<tracks, toBridge, muted>>
  BY DEF Reload, Obeys
<1>3. PICK done \in SUBSET {k \in Key : objects[k] # NoTrack} :
        /\ attached' = [t \in Track |-> [k \in Key |->
                IF k \in done /\ Removes(t, k) THEN attached[t][k] - 1 ELSE attached[t][k]]]
        /\ functions' = [k \in Key |-> IF k \in done THEN NoTrack ELSE functions[k]]
  BY Zenon DEF Reload, ClearListeners, Stopped
<1>4. ASSUME NEW n \in Positions(tracks), OwnListener(n)' PROVE OwnListener(n)
  <2>1. n \in Index /\ TrackAt(n) \in Track /\ TrackAt(n)' = TrackAt(n)
    BY <1>1, <1>2, <1>4, PositionsAreIndices DEF TrackAt
  <2>2. <<"mute", n>> \in Key
    BY <2>1 DEF Key
  <2>3. functions'[<<"mute", n>>] = TrackAt(n)
    BY <1>4, <2>1, Zenon DEF OwnListener
  <2>4. <<"mute", n>> \notin done /\ functions[<<"mute", n>>] = TrackAt(n)
    BY <1>3, <2>1, <2>2, <2>3
  <2>5. \A t \in Track : attached'[t][<<"mute", n>>] = attached[t][<<"mute", n>>]
    BY <1>3, <2>2, <2>4
  <2> QED BY <1>2, <1>4, <2>1, <2>4, <2>5, Zenon DEF OwnListener, InList
<1> QED BY <1>2, <1>4, NoNewListener, Zenon

\* After a restart nothing is listened to.
LEMMA MutesRestartStep ==
    ASSUME IInv, MutesInv, Restart
    PROVE  MutesInv'
<1> USE ListenerAssumption, TracksAssumption
<1>1. TablesType
  BY Zenon DEF IInv, ListenersInv
<1>2. UNCHANGED <<tracks, toBridge, names, listed>> /\ functions' = [k \in Key |-> NoTrack]
  BY Zenon DEF Restart, ScriptRestarts, NoListeners, trackVars
<1>3. ListInv'
  BY <1>2, Zenon DEF MutesInv, ListInv
<1>4. ASSUME NEW i \in Positions(tracks) PROVE ~OwnListener(i)'
  <2>1. i \in Index /\ TrackAt(i) \in Track /\ TrackAt(i)' = TrackAt(i)
    BY <1>1, <1>2, <1>4, PositionsAreIndices DEF TrackAt
  <2>2. functions'[<<"mute", i>>] = NoTrack
    BY <1>2, <2>1 DEF Key
  <2> QED BY <2>1, <2>2, Zenon DEF OwnListener
<1>5. Positions(tracks)' = Positions(tracks)
  BY <1>2 DEF Positions
<1> QED BY <1>3, <1>4, <1>5, Zenon DEF MutesInv, SwitchInv, WillBeRight

\* A script without handlers has no part in it.
LEMMA DeafStep ==
    ASSUME MutesInv, NotUnderstood, UNCHANGED <<trackVars, listed>>
    PROVE  MutesInv'
<1>1. tracks' = tracks /\ toBridge' = toBridge /\ names' = names /\ (listed' => listed)
  BY DEF NotUnderstood, liveTracks, trackVars
<1>2. ~registered'
  BY Zenon DEF NotUnderstood, scriptVars
<1>3. ListInv'
  BY <1>1, Zenon DEF MutesInv, ListInv
<1>4. SwitchInv'
  BY <1>2, Zenon DEF SwitchInv
<1> QED BY <1>3, <1>4, Zenon DEF MutesInv

\* Listening anew reports the present value, after all reports sent before.
LEMMA AnswerListenStep ==
    ASSUME IInv, MutesInv, AnswerListen, UNCHANGED <<trackVars, listed>>
    PROVE  MutesInv'
<1> USE TracksAssumption, ListenerAssumption
<1>0. PICK i : i = Head(toLive).index
  OBVIOUS
<1> DEFINE t == TrackAt(i)
           reply == Reply("mute", i, muted[t])
<1>1. MessagesType /\ TablesType
  BY Zenon DEF IInv, ListenersInv
<1>2. /\ toLive # <<>> /\ toLive' = Tail(toLive) /\ toBridge \in Seq(Replies)
      /\ UNCHANGED <<tracks, registered, muted, names, mutes, listed>>
  BY <1>1, Zenon DEF AnswerListen, Obeys, MessagesType, trackVars
<1>3. i \in Int
  <2>1. Head(toLive) \in Requests
    BY <1>1, <1>2 DEF MessagesType
  <2> QED BY <1>0, <2>1 DEF Requests
<1>4. CASE ~HasIndex(i)
  <2>1. UNCHANGED <<attached, functions, toBridge>>
    BY <1>0, <1>4, Zenon DEF AnswerListen, tables
  <2>2. \A n \in Positions(tracks) : n # i
    BY <1>1, <1>3, <1>4, PositionsAreIndices, Zenon
  <2>3. \A n : OwnListener(n)' => OwnListener(n)
    BY <1>2, <2>1, Zenon DEF OwnListener, TrackAt, InList
  <2>4. registered' => registered
    BY <1>2
  <2>5. /\ UNCHANGED <<tracks, toBridge, muted, trackVars, listed>>
        /\ \A n \in Positions(tracks) : ~(Head(toLive).kind = "listen" /\ Head(toLive).index = n)
    BY <1>0, <1>2, <2>1, <2>2
  <2> QED BY <1>2, <2>3, <2>4, <2>5, NoNewListener, Zenon
<1>5. CASE HasIndex(i)
  <2>1. toBridge' = toBridge \o <<reply>>
        /\ attached' = [Without(t, <<"mute", i>>) EXCEPT ![t][<<"mute", i>>] = @ + 1]
        /\ functions' = [functions EXCEPT ![<<"mute", i>>] = t]
    BY <1>0, <1>5, Zenon DEF AnswerListen, Answer, StartListen
  <2>2. i \in Index /\ t \in Track /\ <<"mute", i>> \in Key
    BY <1>1, <1>3, <1>5, IndexInRange DEF Key
  <2>3. muted[t] \in BOOLEAN
    BY <1>1, <2>2, Zenon DEF MessagesType
  <2>4. /\ reply \in Replies /\ reply.kind = "mute" /\ reply.index = i /\ reply.what = muted[t]
    BY <2>2, <2>3 DEF Reply, Replies
  <2> HIDE DEF reply
  <2>5. /\ <<reply>> \in Seq(Replies)
        /\ \A sort : reply \notin sort => NoneIn(<<reply>>, sort)
        /\ \A sort : reply \in sort => LastIn(<<reply>>, sort, reply.what)
    BY <2>4 DEF NoneIn, LastIn
  <2>6. SameTold(Listings)
    <3>1. reply \notin Listings
      BY <2>4 DEF Listings
    <3> QED BY <1>1, <2>1, <2>5, <3>1, OtherMessages, Zenon
  <2>7. ListInv'
    <3>1. tracks' = tracks /\ names' = names /\ (listed' => listed)
      BY <1>2
    <3> QED BY <2>6, <3>1, Zenon DEF MutesInv, ListInv, SameTold
  <2>8. ASSUME NEW n \in Positions(tracks), n # i, WillBeRight(n) PROVE WillBeRight(n)'
    <3>1. n \in Index
      BY <1>1, <2>8, PositionsAreIndices
    <3>2. SameTold(ReportsFor(n))
      <4>1. reply \notin ReportsFor(n)
        BY <2>4, <2>8 DEF ReportsFor
      <4> QED BY <1>1, <2>1, <2>5, <4>1, OtherMessages, Zenon
    <3>3. ListenComing(n) => ListenComing(n)'
      BY <1>0, <1>1, <1>2, <2>8, ListenGoesOn, Zenon
    <3>4. OwnListener(n)' <=> OwnListener(n)
      <4>1. <<"mute", n>> # <<"mute", i>>
        BY <2>8
      <4> QED BY <1>1, <1>2, <2>1, <2>2, <3>1, <4>1, OtherKeys, Zenon
    <3>5. \A value : WillShow(n, value) => WillShow(n, value)'
      BY <1>2, <3>2, Zenon DEF SameTold, WillShow
    <3>6. TrackAt(n)' = TrackAt(n) /\ muted' = muted
      BY <1>2, Zenon DEF TrackAt
    <3> QED BY <2>8, <3>3, <3>4, <3>5, <3>6, Zenon DEF WillBeRight
  <2>9. WillBeRight(i)'
    <3>1. reply \in ReportsFor(i)
      BY <2>4 DEF ReportsFor
    <3>2. LastIn(toBridge', ReportsFor(i), muted[t])
      BY <1>2, <2>1, <2>4, <2>5, <3>1, LastAfterMore, Zenon
    <3>3. muted'[TrackAt(i)'] = muted[TrackAt(i)]
      BY <1>2 DEF TrackAt
    <3> QED BY <3>2, <3>3, Zenon DEF WillBeRight, WillShow
  <2>10. SwitchInv'
    <3>1. Positions(tracks)' = Positions(tracks)
      BY <1>2 DEF Positions
    <3>2. NoneIn(toBridge', Listings) => NoneIn(toBridge, Listings)
      BY <2>6, Zenon DEF SameTold
    <3>3. (listed' => listed) /\ (registered' => registered)
      BY <1>2
    <3> QED BY <2>8, <2>9, <3>1, <3>2, <3>3, Zenon DEF MutesInv, SwitchInv
  <2> QED BY <2>7, <2>10, Zenon DEF MutesInv
<1> QED BY <1>4, <1>5

\* A change of a track's switch is reported last under every index its callbacks have, and
\* under no other.
LEMMA ReportsOfMute ==
    ASSUME TablesType, NEW t \in Track, NEW value \in BOOLEAN, NEW reports \in MuteReports(t, value)
    PROVE  /\ reports \in Seq(Replies) /\ NoneIn(reports, Listings)
           /\ \A i \in ReportedAs(t, "mute") : LastIn(reports, ReportsFor(i), value)
           /\ \A i : i \notin ReportedAs(t, "mute") => NoneIn(reports, ReportsFor(i))
<1> DEFINE indices == ReportedAs(t, "mute")
           count == Cardinality(indices)
<1>1. count \in Nat /\ IsFiniteSet(indices) /\ indices \subseteq Index
  <2>1. IsFiniteSet(Index)
    BY FS_Interval, TrackLists DEF Index
  <2>2. indices \subseteq Index
    BY DEF ReportedAs
  <2> HIDE DEF indices
  <2>3. IsFiniteSet(indices)
    BY <2>1, <2>2, FS_Subset
  <2> QED BY <2>2, <2>3, FS_CardinalityType
<1>2. PICK order \in {o \in [1..count -> indices] : Distinct(o)} :
             reports = [n \in 1..count |-> Reply("mute", order[n], value)]
  BY DEF MuteReports
<1>3. order \in [1..count -> indices] /\ \A m, n \in 1..count : order[m] = order[n] => m = n
  BY <1>2 DEF Distinct
<1> HIDE DEF indices, count
<1>4. reports \in Seq(Replies)
  BY ReportsType
<1>5. Len(reports) = count /\ \A n \in 1..count : reports[n] = Reply("mute", order[n], value)
  BY <1>1, <1>2
<1>6. \A n \in 1..count : /\ reports[n].kind = "mute" /\ reports[n].index = order[n]
                          /\ reports[n].what = value /\ reports[n] \in Replies
  <2> SUFFICES ASSUME NEW n \in 1..count
               PROVE  /\ reports[n].kind = "mute" /\ reports[n].index = order[n]
                      /\ reports[n].what = value /\ reports[n] \in Replies
    OBVIOUS
  <2>1. order[n] \in Index
    BY <1>1, <1>3
  <2> QED BY <1>5, <2>1 DEF Reply, Replies
<1>7. NoneIn(reports, Listings)
  BY <1>5, <1>6 DEF NoneIn, Listings
<1>8. ASSUME NEW i, i \notin indices PROVE NoneIn(reports, ReportsFor(i))
  BY <1>3, <1>5, <1>6, <1>8 DEF NoneIn, ReportsFor
<1>9. ASSUME NEW i \in indices PROVE LastIn(reports, ReportsFor(i), value)
  <2>1. \E n \in 1..count : order[n] = i
    <3>1. order \in Injection(1..count, indices)
      BY <1>3 DEF Injection, IsInjective
    <3>2. IsFiniteSet(1..count) /\ Cardinality(1..count) = count
      BY <1>1, FS_Interval
    <3>3. order \in Surjection(1..count, indices)
      BY <1>1, <3>1, <3>2, FS_Injection DEF count
    <3> QED BY <1>9, <3>3 DEF Surjection
  <2>2. PICK n \in 1..count : order[n] = i
    BY <2>1
  <2>3. reports[n] \in ReportsFor(i) /\ reports[n].what = value
    BY <1>6, <2>2 DEF ReportsFor
  <2>4. ASSUME NEW m \in n + 1..count PROVE reports[m] \notin ReportsFor(i)
    <3>1. m \in 1..count /\ m # n
      BY <1>1
    <3>2. order[m] # i
      BY <1>3, <2>2, <3>1
    <3> QED BY <1>6, <3>1, <3>2 DEF ReportsFor
  <2> QED BY <1>5, <2>3, <2>4 DEF LastIn
<1> QED BY <1>4, <1>7, <1>8, <1>9, Zenon DEF indices

\* A track of the list is muted or unmuted, by a request or by hand.
LEMMA SwitchStep ==
    ASSUME IInv, MutesInv, NEW t \in Track, InList(t, tracks), NEW value \in BOOLEAN, Mutes(t, value),
           toLive' = toLive \/ (/\ toLive # <<>> /\ toLive' = Tail(toLive)
                                /\ Head(toLive).kind # "listen"),
           UNCHANGED <<trackVars, listed>>
    PROVE  MutesInv'
<1> USE TracksAssumption
<1>1. MessagesType /\ TablesType /\ TablesAgree
  BY Zenon DEF IInv, ListenersInv
<1>2. UNCHANGED <<tracks, attached, functions, names, mutes>> /\ (registered' => registered)
      /\ (listed' => listed) /\ listed' = listed
  BY DEF Mutes, liveTracks, scriptVars, tables, trackVars
<1>3. muted' = [muted EXCEPT ![t] = value] /\ muted \in [Track -> BOOLEAN]
  BY <1>1, Zenon DEF Mutes, MessagesType
<1>4. \A i : ListenComing(i) => ListenComing(i)'
  BY <1>1, ListenGoesOn, Zenon
<1>5. \A i : OwnListener(i)' <=> OwnListener(i)
  BY <1>2, Zenon DEF OwnListener, TrackAt, InList
<1>6. CASE muted[t] = value
  <2>1. \A sort : SameTold(sort)
    BY <1>1, <1>6, OtherMessages, Zenon DEF Mutes
  <2>2. muted' = muted
    BY <1>3, <1>6
  <2> QED BY <1>1, <1>2, <1>4, <1>5, <2>1, <2>2, NothingToldStep, Zenon
<1>7. CASE muted[t] # value
  <2>1. PICK reports \in MuteReports(t, value) : toBridge' = toBridge \o reports
    BY <1>7, Zenon DEF Mutes, Answer
  <2>2. /\ reports \in Seq(Replies) /\ NoneIn(reports, Listings)
        /\ \A i \in ReportedAs(t, "mute") : LastIn(reports, ReportsFor(i), value)
        /\ \A i : i \notin ReportedAs(t, "mute") => NoneIn(reports, ReportsFor(i))
    BY <1>1, ReportsOfMute, Zenon
  <2>3. SameTold(Listings)
    BY <1>1, <2>1, <2>2, OtherMessages, Zenon
  <2>4. ListInv'
    BY <1>2, <2>3, Zenon DEF MutesInv, ListInv, SameTold
  <2>5. ASSUME NEW i \in Positions(tracks), WillBeRight(i) PROVE WillBeRight(i)'
    <3>1. i \in Index /\ TrackAt(i) \in Track /\ TrackAt(i)' = TrackAt(i)
      BY <1>1, <1>2, <2>5, PositionsAreIndices DEF TrackAt
    <3>2. SUFFICES ASSUME OwnListener(i), WillShow(i, muted[TrackAt(i)])
                   PROVE  WillShow(i, muted[TrackAt(i)])'
      BY <1>4, <1>5, <2>5, <3>1, Zenon DEF WillBeRight
    <3>3. CASE TrackAt(i) = t
      <4>1. <<"mute", i>> \in Key /\ functions[<<"mute", i>>] = t
        BY <3>1, <3>2, <3>3 DEF OwnListener, Key
      <4>2. i \in ReportedAs(t, "mute")
        BY <1>1, <3>1, <4>1 DEF TablesAgree, ReportedAs
      <4>3. LastIn(toBridge', ReportsFor(i), value)
        BY <1>1, <2>1, <2>2, <4>2, LastAfterMore, Zenon DEF MessagesType
      <4>4. muted'[TrackAt(i)] = value
        BY <1>3, <3>3
      <4> QED BY <3>1, <4>3, <4>4, Zenon DEF WillShow
    <3>4. CASE TrackAt(i) # t
      <4>1. attached[t][<<"mute", i>>] = 0
        BY <3>2, <3>4, Zenon DEF OwnListener
      <4>2. i \notin ReportedAs(t, "mute")
        BY <4>1 DEF ReportedAs
      <4>3. SameTold(ReportsFor(i))
        BY <1>1, <2>1, <2>2, <4>2, OtherMessages, Zenon
      <4>4. muted'[TrackAt(i)] = muted[TrackAt(i)] /\ mutes' = mutes
        BY <1>2, <1>3, <3>1, <3>4
      <4> QED BY <3>1, <3>2, <4>3, <4>4, Zenon DEF WillShow, SameTold
    <3> QED BY <3>3, <3>4
  <2>6. SwitchInv'
    <3>1. Positions(tracks)' = Positions(tracks)
      BY <1>2 DEF Positions
    <3>2. NoneIn(toBridge', Listings) => NoneIn(toBridge, Listings)
      BY <2>3, Zenon DEF SameTold
    <3>3. (listed' => listed) /\ (registered' => registered)
      BY <1>2
    <3> QED BY <2>5, <3>1, <3>2, <3>3, Zenon DEF MutesInv, SwitchInv
  <2> QED BY <2>4, <2>6, Zenon DEF MutesInv
<1> QED BY <1>6, <1>7

-----------------------------------------------------------------------------
(* Every step *)

\* What the remote script does at a request.
LEMMA MutesObeyStep ==
    ASSUME IInv, MutesInv, LiveObeys
    PROVE  MutesInv'
<1>1. MessagesType /\ TablesType
  BY Zenon DEF IInv, ListenersInv
<1>2. UNCHANGED trackVars
  BY Zenon DEF LiveObeys
<1>3. CASE AnswerNames
  BY <1>2, <1>3, AnswerNamesStep
<1>4. ASSUME NEW kind, NEW value \in BOOLEAN, ObeyMute(kind, value), kind # "listen", UNCHANGED listed
      PROVE  MutesInv'
  <2> DEFINE i == Head(toLive).index
  <2>1. /\ toLive # <<>> /\ toLive' = Tail(toLive) /\ Head(toLive).kind # "listen"
    BY <1>4 DEF ObeyMute, Obeys
  <2>2. i \in Int
    <3>1. Head(toLive) \in Requests
      BY <1>1, <2>1 DEF MessagesType
    <3> QED BY <3>1 DEF Requests
  <2>3. CASE HasIndex(i)
    <3>1. TrackAt(i) \in Track /\ InList(TrackAt(i), tracks)
      BY <1>1, <2>2, <2>3, PositionsAreIndices, Zenon
    <3>2. Mutes(TrackAt(i), value)
      BY <1>4, <2>3, Zenon DEF ObeyMute
    <3> HIDE DEF i
    <3> QED BY <1>2, <1>4, <2>1, <3>1, <3>2, SwitchStep, Zenon
  <2>4. CASE ~HasIndex(i)
    <3>1. UNCHANGED <<liveTracks, scriptVars, toBridge, muted>>
      BY <1>4, <2>4, Zenon DEF ObeyMute
    <3>2. UNCHANGED <<tracks, toBridge, muted, trackVars, listed>> /\ (registered' => registered)
          /\ attached' = attached /\ functions' = functions
      BY <1>2, <1>4, <3>1 DEF liveTracks, scriptVars, tables
    <3>3. \A n : OwnListener(n)' => OwnListener(n)
      BY <3>2, Zenon DEF OwnListener, TrackAt, InList
    <3> QED BY <2>1, <3>2, <3>3, NoNewListener, Zenon
  <2> QED BY <2>3, <2>4
<1>5. CASE UNCHANGED listed /\ (AnswerListen \/ AnswerClips \/ AnswerMeters)
  BY <1>2, <1>5, AnswerListenStep, AnswerOthersStep, Zenon
<1>6. CASE UNCHANGED listed /\ (StopMute \/ Reload \/ NotUnderstood)
  BY <1>2, <1>6, StopStartStep, MutesReloadStep, DeafStep, Zenon
<1>8. CASE UNCHANGED listed /\ (ListenVolume \/ StopVolume \/ ListenParameter \/ StopParameter)
  <2>1. {"listen volume", "stop volume", "listen parameter", "stop parameter"} \subseteq Kinds \ {"listen"}
    BY DEF Kinds
  <2>2. "volume" \in ValueProperty /\ "parameter" \in ValueProperty
    BY TracksAssumption
  <2>3. \E kind \in Kinds \ {"listen"}, prop \in ValueProperty : ListenValue(kind, prop) \/ StopValue(kind, prop)
    BY <1>8, <2>1, <2>2, Zenon DEF ListenVolume, StopVolume, ListenParameter, StopParameter
  <2> QED BY <1>2, <1>8, <2>3, StopStartStep, Zenon
<1>7. "set mute" # "listen" /\ "set unmute" # "listen"
  OBVIOUS
<1> QED BY <1>3, <1>4, <1>5, <1>6, <1>7, <1>8, Zenon DEF LiveObeys

\* MutesInv is kept by every step.
LEMMA MutesInvStep ==
    ASSUME IInv, ShownType, MutesInv, [Next]_vars
    PROVE  MutesInv'
<1>1. MessagesType /\ TablesType
  BY Zenon DEF IInv, ListenersInv
<1>2. \A kind \in Kinds, i \in Int : <<Request(kind, i)>> \in Seq(Requests)
  BY DEF Request, Requests
<1>3. ASSUME NEW kind \in Kinds, NEW i \in Int, Ask(<<Request(kind, i)>>),
             UNCHANGED <<liveTracks, scriptVars, trackVars, toBridge, muted, listed>>
      PROVE  MutesInv'
  BY <1>1, <1>2, <1>3, AskingStep, Zenon
<1>4. Index \subseteq Int /\ NoIndex \in Int /\ Len(names) \in Int
  BY <1>1, TrackLists DEF Index, NoIndex, MessagesType
<1>5. CASE FetchTracks
  <2>1. "names" \in Kinds
    BY DEF Kinds
  <2> QED BY <1>3, <1>4, <1>5, <2>1, Zenon DEF FetchTracks, historyVars
<1>6. CASE PollMeters
  <2>1. "meters" \in Kinds
    BY DEF Kinds
  <2> QED BY <1>3, <1>4, <1>6, <2>1, Zenon DEF PollMeters, historyVars
<1>7. ASSUME NEW i \in Index, NEW value \in BOOLEAN, SetTrackMute(i, value) PROVE MutesInv'
  <2>1. (IF value THEN "set mute" ELSE "set unmute") \in Kinds
    BY DEF Kinds
  <2>2. /\ Ask(<<Request(IF value THEN "set mute" ELSE "set unmute", i)>>)
        /\ UNCHANGED <<liveTracks, scriptVars, trackVars, toBridge, muted, listed>>
    BY <1>7, Zenon DEF SetTrackMute
  <2> QED BY <1>3, <1>4, <1>7, <2>1, <2>2, Zenon
<1>8. ASSUME NEW kind \in Kinds, NEW i \in Int, OtherClient(kind, i) PROVE MutesInv'
  BY <1>3, <1>8, Zenon DEF OtherClient
<1>9. {"listen volume", "stop volume", "listen parameter", "stop parameter",
       "stop", "reload"} \subseteq Kinds
  BY DEF Kinds
<1>10. CASE BridgeHandles
  BY <1>10, ListStep, ReportStep, OtherAnswersStep, Zenon DEF BridgeHandles
<1>11. CASE LiveObeys
  BY <1>11, MutesObeyStep
<1>12. CASE EditTracks
  <2>1. ~listed'
    BY <1>12, Zenon DEF EditTracks
  <2> QED BY <2>1, Zenon DEF MutesInv, ListInv, SwitchInv
<1>13. CASE Restart
  BY <1>13, MutesRestartStep
<1>14. ASSUME NEW t \in Track, MuteByHand(t) PROVE MutesInv'
  <2>1. (~muted[t]) \in BOOLEAN
    BY Zenon
  <2>2. InList(t, tracks) /\ Mutes(t, ~muted[t]) /\ toLive' = toLive /\ UNCHANGED <<trackVars, listed>>
    BY <1>14, Zenon DEF MuteByHand
  <2> QED BY <2>1, <2>2, SwitchStep, Zenon
<1>15. CASE UNCHANGED vars
  <2>1. UNCHANGED <<tracks, muted, listed, names, mutes, toBridge, toLive>> /\ (registered' => registered)
        /\ attached' = attached /\ functions' = functions
    BY <1>15 DEF vars, liveTracks, scriptVars, tables, trackVars, historyVars
  <2>2. \A sort : SameTold(sort)
    BY <1>1, <2>1, OtherMessages, Zenon
  <2>3. \A i : ListenComing(i) => ListenComing(i)'
    BY <2>1 DEF ListenComing
  <2>4. \A i : OwnListener(i)' => OwnListener(i)
    BY <2>1, Zenon DEF OwnListener, TrackAt, InList
  <2> QED BY <1>1, <2>1, <2>2, <2>3, <2>4, NothingToldStep, Zenon
<1> QED BY <1>4, <1>5, <1>6, <1>7, <1>8, <1>9, <1>10, <1>11, <1>12, <1>13, <1>14, <1>15, Zenon
        DEF Next

\* When nothing is on its way, what the switches will show is what they show.
LEMMA RightWhenQuiet == IInv /\ MutesInv => MutesTrue
<1> SUFFICES ASSUME IInv, MutesInv, Quiet, listed, registered, Listening, OwnCallbacksOnly
             PROVE  MutesRight
  BY Zenon DEF MutesTrue, Settled
<1> USE TracksAssumption
<1>1. MessagesType /\ TablesType
  BY Zenon DEF IInv, ListenersInv
<1>2. \A sort : NoneIn(toBridge, sort) /\ \A what : ~LastIn(toBridge, sort, what)
  BY DEF Quiet, NoneIn, LastIn
<1>3. names = tracks
  BY <1>2, Zenon DEF MutesInv, ListInv
<1>4. ASSUME NEW i \in Positions(tracks) PROVE mutes[i + 1] = muted[TrackAt(i)]
  <2>1. i \in Index /\ HasIndex(i) /\ TrackAt(i) \in Track
    BY <1>1, <1>4, PositionsAreIndices
  <2>2. ~ListenComing(i)
    BY DEF Quiet, ListenComing
  <2>3. OwnListener(i)
    <3>1. functions[<<"mute", i>>] = TrackAt(i)
      BY <2>1, Zenon DEF Listening
    <3>2. ASSUME NEW t \in Track, t # TrackAt(i), InList(t, tracks) PROVE attached[t][<<"mute", i>>] = 0
      <4>1. PICK n \in DOMAIN tracks : tracks[n] = t
        BY <3>2 DEF InList
      <4>2. n - 1 \in Index /\ HasIndex(n - 1) /\ TrackAt(n - 1) = t /\ n - 1 # i
        <5>1. DOMAIN tracks = 1..Len(tracks) /\ Len(tracks) \in Nat
          BY <1>1, TrackLists DEF TablesType
        <5>2. n - 1 \in Int /\ (n - 1) + 1 = n
          BY <4>1, <5>1
        <5>3. HasIndex(n - 1) /\ TrackAt(n - 1) = t
          BY <4>1, <5>2 DEF HasIndex, TrackAt
        <5> QED BY <1>1, <3>2, <5>2, <5>3, IndexInRange
      <4>3. ReportedAs(t, "mute") \subseteq {n - 1}
        BY <4>2, Zenon DEF OwnCallbacksOnly
      <4>4. i \notin ReportedAs(t, "mute")
        BY <4>2, <4>3
      <4>5. <<"mute", i>> \in Key
        BY <2>1 DEF Key
      <4> QED BY <1>1, <2>1, <4>4, <4>5 DEF ReportedAs, TablesType, Counted
    <3> QED BY <3>1, <3>2, Zenon DEF OwnListener
  <2>4. WillBeRight(i)
    BY <1>2, <1>4, Zenon DEF MutesInv, SwitchInv
  <2> QED BY <1>2, <2>2, <2>3, <2>4, Zenon DEF WillBeRight, WillShow
<1>5. ASSUME NEW n \in DOMAIN names PROVE mutes[n] = muted[names[n]]
  <2>1. n - 1 \in Positions(tracks) /\ (n - 1) + 1 = n
    BY <1>1, <1>3, <1>5, TrackLists DEF TablesType, Positions
  <2>2. mutes[(n - 1) + 1] = muted[TrackAt(n - 1)]
    BY <1>4, <2>1
  <2> QED BY <1>3, <2>1, <2>2 DEF TrackAt
<1> QED BY <1>3, <1>5, Zenon DEF MutesRight

\* When nothing is on its way, the mute switches shown are those in Live, provided each
\* track is listened to and reports under its own index only, whatever the listing, set
\* mutes, mutes by hand and other clients' requests did at the same time
\* (_handle_track_names, _handle_track_mute, _start_listen).
THEOREM SwitchesAreTrue == Spec => []MutesTrue
<1> DEFINE Inv == IInv /\ ShownType /\ MutesInv
<1>1. Init => Inv
  <2>1. Init => ShownType
    BY DEF Init, ShownType
  <2>2. Init => MutesInv
    BY Zenon DEF Init, MutesInv, ListInv, SwitchInv
  <2> QED BY <2>1, <2>2, IInvInit, Zenon
<1>2. Inv /\ [Next]_vars => Inv'
  BY IInvStep, ShownStep, MutesInvStep, Zenon
<1>3. Inv => MutesTrue
  BY RightWhenQuiet
<1> QED BY <1>1, <1>2, <1>3, PTL DEF Spec
=============================================================================
