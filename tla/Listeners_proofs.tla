-------------------------- MODULE Listeners_proofs --------------------------
(***************************************************************************)
(* Proofs about the listener tables of AbletonOSC, as the bridge, somebody *)
(* at the computer and another OSC client use them (Tracks), for any set   *)
(* of tracks and any number of events.                                     *)
(***************************************************************************)
EXTENDS Tracks, FiniteSetTheorems, TLAPS

\* The callbacks of a track can be counted.
Counted == attached \in [Track -> [Key -> Nat]]

\* Only a listener for a parameter's value can lack its entry in listener_objects
\* (track.py, device.py).
OthersHaveObjects ==
    \A k \in Key : k[1] \notin ValueProperty /\ functions[k] # NoTrack => objects[k] # NoTrack

TablesType ==
    /\ Counted
    /\ functions \in [Key -> Track \cup {NoTrack, GoneTrack}]
    /\ objects \in [Key -> Track \cup {NoTrack, GoneTrack}]
    /\ tracks \in TrackList

ListenersInv == TablesType /\ TablesAgree /\ OthersHaveObjects /\ DeafOverValuesOnly

-----------------------------------------------------------------------------
(* The steps on the tables *)

\* Removing a callback leaves a count, and the other keys' callbacks alone.
LEMMA WithoutCounts ==
    ASSUME TablesType, NEW t \in Track, NEW k \in Key
    PROVE  /\ Without(t, k) \in [Track -> [Key -> Nat]]
           /\ \A u \in Track, l \in Key : l # k => Without(t, k)[u][l] = attached[u][l]
BY DEF TablesType, Counted, Without, Removes

\* start_listen and its variant for values: the callback under the key is the track's.
LEMMA StartStep ==
    ASSUME TablesType, TablesAgree, NEW t \in Track, NEW k \in Key,
           attached' = [Without(t, k) EXCEPT ![t][k] = @ + 1],
           functions' = [functions EXCEPT ![k] = t],
           objects' = objects \/ objects' = [objects EXCEPT ![k] = t],
           tracks' = tracks
    PROVE  TablesType' /\ TablesAgree'
<1> USE ListenerAssumption
<1>1. TablesType'
  <2>1. Without(t, k) \in [Track -> [Key -> Nat]]
    BY WithoutCounts
  <2>2. attached' \in [Track -> [Key -> Nat]]
    BY <2>1
  <2>3. functions' \in [Key -> Track \cup {NoTrack, GoneTrack}]
    BY DEF TablesType
  <2>4. objects' \in [Key -> Track \cup {NoTrack, GoneTrack}]
    BY DEF TablesType
  <2>5. tracks' \in TrackList
    BY Zenon DEF TablesType
  <2> QED BY <2>2, <2>3, <2>4, <2>5, Zenon DEF TablesType, Counted, TrackList
<1>2. TablesAgree'
  <2>1. SUFFICES ASSUME NEW l \in Key, functions'[l] \in Track
                 PROVE  attached'[functions'[l]][l] > 0
    BY DEF TablesAgree
  <2>2. CASE l = k
    BY <2>2, WithoutCounts DEF TablesType
  <2>3. CASE l # k
    <3>1. functions'[l] = functions[l]
      BY <2>3 DEF TablesType
    <3>2. attached'[functions[l]][l] = attached[functions[l]][l]
      BY <2>1, <2>3, <3>1, WithoutCounts
    <3> QED BY <2>1, <3>1, <3>2 DEF TablesAgree
  <2> QED BY <2>2, <2>3
<1> QED BY <1>1, <1>2

\* stop_listen and its variant for values: the table forgets the callback, attached or not.
LEMMA StopStep ==
    ASSUME TablesType, TablesAgree, NEW t \in Track, NEW k \in Key,
           attached' = Without(t, k),
           functions' = [functions EXCEPT ![k] = NoTrack],
           objects' = objects \/ objects' = [objects EXCEPT ![k] = NoTrack],
           tracks' = tracks
    PROVE  TablesType' /\ TablesAgree'
<1> USE ListenerAssumption
<1>1. TablesType'
  BY WithoutCounts DEF TablesType, Counted, TrackList
<1>2. TablesAgree'
  <2>1. SUFFICES ASSUME NEW l \in Key, functions'[l] \in Track
                 PROVE  attached'[functions'[l]][l] > 0
    BY DEF TablesAgree
  <2>2. l # k /\ functions'[l] = functions[l]
    BY <2>1 DEF TablesType
  <2>3. attached'[functions[l]][l] = attached[functions[l]][l]
    BY <2>1, <2>2, WithoutCounts
  <2> QED BY <2>1, <2>2, <2>3 DEF TablesAgree
<1> QED BY <1>1, <1>2

-----------------------------------------------------------------------------
(* The messages *)

Kinds == {"names", "meters", "clips", "listen", "stop", "listen volume", "stop volume",
          "listen parameter", "stop parameter", "reload", "set mute", "set unmute"}
Requests == [kind : Kinds, index : Int]
Replies ==
    [kind : {"names"}, index : {NoIndex}, what : TrackList]
      \cup [kind : {"mute"}, index : Index, what : BOOLEAN]
      \cup [kind : {"clips"}, index : Index, what : Track]
      \cup [kind : {"meters"}, index : {NoIndex}, what : SUBSET Index]

MessagesType ==
    /\ toLive \in Seq(Requests) /\ toBridge \in Seq(Replies)
    /\ names \in TrackList /\ muted \in [Track -> BOOLEAN]

\* Lists of tracks are sequences, no longer than there are tracks.
LEMMA TrackLists ==
    /\ Cardinality(Track) \in Nat
    /\ \A list \in TrackList : /\ list \in Seq(Track) /\ Len(list) \in 0..Cardinality(Track)
                               /\ DOMAIN list = 1..Len(list)
<1>1. Cardinality(Track) \in Nat
  BY FS_CardinalityType, ListenerAssumption
<1> QED BY <1>1 DEF TrackList

\* An index in Live's list is one of those that tables have keys for.
LEMMA IndexInRange ==
    ASSUME TablesType, NEW i \in Int, HasIndex(i)
    PROVE  i \in Index /\ TrackAt(i) \in Track
BY TrackLists DEF TablesType, HasIndex, TrackAt, Index

\* However many callbacks a track has, their reports can be listed.
LEMMA ReportsType ==
    ASSUME NEW t \in Track, NEW value \in BOOLEAN, NEW reports \in MuteReports(t, value)
    PROVE  reports \in Seq(Replies)
<1> DEFINE indices == ReportedAs(t, "mute")
<1>1. Cardinality(indices) \in Nat
  <2>1. IsFiniteSet(Index)
    BY FS_Interval, TrackLists DEF Index
  <2>2. indices \subseteq Index
    BY DEF ReportedAs
  <2> HIDE DEF indices
  <2>3. IsFiniteSet(indices)
    BY <2>1, <2>2, FS_Subset
  <2> QED BY <2>3, FS_CardinalityType
<1>2. PICK order \in [1..Cardinality(indices) -> indices] :
             reports = [n \in 1..Cardinality(indices) |-> Reply("mute", order[n], value)]
  BY DEF MuteReports
<1>3. \A n \in 1..Cardinality(indices) : Reply("mute", order[n], value) \in Replies
  BY DEF ReportedAs, Reply, Replies
<1> HIDE DEF indices
<1> QED BY <1>1, <1>2, <1>3

\* What a step that sends or takes messages leaves in the queues.
LEMMA QueuesType ==
    ASSUME MessagesType
    PROVE  /\ \A requests \in Seq(Requests) : Ask(requests) => toLive' \in Seq(Requests)
           /\ \A replies \in Seq(Replies) : Answer(replies) => toBridge' \in Seq(Replies)
           /\ \A kind : Obeys(kind) => Head(toLive) \in Requests /\ toLive' \in Seq(Requests)
           /\ \A kind : Received(kind) => /\ Head(toBridge) \in Replies /\ toBridge' \in Seq(Replies)
                                          /\ Head(toBridge).kind = kind
<1>1. ASSUME NEW q \in Seq(Requests), q # <<>> PROVE Head(q) \in Requests /\ Tail(q) \in Seq(Requests)
  BY <1>1
<1>2. ASSUME NEW q \in Seq(Replies), q # <<>> PROVE Head(q) \in Replies /\ Tail(q) \in Seq(Replies)
  BY <1>2
<1>3. \A q, r \in Seq(Requests) : q \o r \in Seq(Requests)
  OBVIOUS
<1>4. \A q, r \in Seq(Replies) : q \o r \in Seq(Replies)
  OBVIOUS
<1> QED BY <1>1, <1>2, <1>3, <1>4, Zenon DEF MessagesType, Ask, Answer, Obeys, Received

\* Mutes by a request or by hand.
LEMMA MutesType ==
    ASSUME MessagesType, TablesType, NEW t \in Track, NEW value \in BOOLEAN, Mutes(t, value)
    PROVE  /\ muted' \in [Track -> BOOLEAN] /\ toBridge' \in Seq(Replies)
           /\ UNCHANGED <<liveTracks, scriptVars>>
<1>1. muted' \in [Track -> BOOLEAN]
  BY DEF Mutes, MessagesType
<1>2. toBridge' \in Seq(Replies)
  BY ReportsType, QueuesType, Zenon DEF Mutes, MessagesType
<1> QED BY <1>1, <1>2, Zenon DEF Mutes

\* The bridge's handlers and polls, and other clients, send well-formed requests.
LEMMA BridgeMessages ==
    ASSUME MessagesType, TablesType,
           \/ FetchTracks \/ PollMeters \/ BridgeHandles
           \/ \E i \in Index, value \in BOOLEAN : SetTrackMute(i, value)
           \/ \E kind \in Kinds, i \in Index \cup {NoIndex} : OtherClient(kind, i)
    PROVE  MessagesType'
<1>1. \A kind \in Kinds, i \in Int : <<Request(kind, i)>> \in Seq(Requests)
  BY DEF Request, Requests
<1>2. Index \cup {NoIndex} \subseteq Int
  BY TrackLists DEF Index, NoIndex
<1>3. CASE FetchTracks
  <2>1. "names" \in Kinds
    BY DEF Kinds
  <2>2. toLive' \in Seq(Requests) /\ UNCHANGED <<toBridge, names, muted>>
    BY <1>1, <1>2, <1>3, <2>1, QueuesType, Zenon DEF FetchTracks, trackVars
  <2> QED BY <2>2, Zenon DEF MessagesType
<1>4. CASE PollMeters
  <2>1. Len(names) \in Int
    BY TrackLists DEF MessagesType
  <2>2. "meters" \in Kinds
    BY DEF Kinds
  <2>3. toLive' \in Seq(Requests) /\ UNCHANGED <<toBridge, names, muted>>
    BY <1>1, <1>4, <2>1, <2>2, QueuesType, Zenon DEF PollMeters, trackVars
  <2> QED BY <2>3, Zenon DEF MessagesType
<1>5. ASSUME NEW i \in Index, NEW value \in BOOLEAN, SetTrackMute(i, value) PROVE MessagesType'
  <2>1. (IF value THEN "set mute" ELSE "set unmute") \in Kinds
    BY DEF Kinds
  <2>2. <<Request(IF value THEN "set mute" ELSE "set unmute", i)>> \in Seq(Requests)
    BY <1>1, <1>2, <2>1, Zenon
  <2>3. toLive' \in Seq(Requests) /\ UNCHANGED <<toBridge, names, muted>>
    BY <1>5, <2>2, QueuesType, Zenon DEF SetTrackMute, trackVars
  <2> QED BY <2>3, Zenon DEF MessagesType
<1>6. ASSUME NEW kind \in Kinds, NEW i \in Index \cup {NoIndex}, OtherClient(kind, i)
      PROVE  MessagesType'
  <2>1. toLive' \in Seq(Requests) /\ UNCHANGED <<toBridge, names, muted>>
    BY <1>1, <1>2, <1>6, QueuesType, Zenon DEF OtherClient, trackVars
  <2> QED BY <2>1, Zenon DEF MessagesType
<1>7. CASE HandleTrackNames
  <2>1. Head(toBridge) \in Replies /\ Head(toBridge).kind = "names" /\ toBridge' \in Seq(Replies)
    BY <1>7, QueuesType DEF HandleTrackNames
  <2> DEFINE list == Head(toBridge).what
  <2>2. list \in TrackList
    BY <2>1 DEF Replies
  <2>3. Listens(list) \in Seq(Requests)
    <3>1. list \in Seq(Track) /\ DOMAIN list = 1..Len(list) /\ Len(list) \in Nat
      BY <2>2, TrackLists
    <3>2. ASSUME NEW n \in DOMAIN list PROVE Request("listen", n - 1) \in Requests
      <4>1. n - 1 \in Int
        BY <3>1, <3>2
      <4>2. "listen" \in Kinds
        BY DEF Kinds
      <4> QED BY <4>1, <4>2 DEF Request, Requests
    <3> HIDE DEF list
    <3> QED BY <3>1, <3>2 DEF Listens
  <2>4. CueIndexIn(list) \in Int
    <3>1. DOMAIN list = 1..Len(list) /\ Len(list) \in Nat
      BY <2>2, TrackLists
    <3>2. CASE InList(CueTrack, list)
      <4>1. \E i \in Positions(list) : list[i + 1] = CueTrack
        <5>1. PICK n \in DOMAIN list : list[n] = CueTrack
          BY <3>2 DEF InList
        <5>2. n - 1 \in Positions(list) /\ list[(n - 1) + 1] = CueTrack
          BY <3>1, <5>1 DEF Positions
        <5> QED BY <5>2
      <4>2. CueIndexIn(list) \in Positions(list)
        BY <3>2, <4>1, Zenon DEF CueIndexIn
      <4> QED BY <3>1, <4>2 DEF Positions
    <3>3. CASE ~InList(CueTrack, list)
      BY <3>3 DEF CueIndexIn, NoIndex
    <3> QED BY <3>2, <3>3
  <2>5. ClipNamesRequest(CueIndexIn(list)) \in Seq(Requests)
    <3>1. "clips" \in Kinds
      BY DEF Kinds
    <3>2. <<Request("clips", CueIndexIn(list))>> \in Seq(Requests)
      BY <1>1, <2>4, <3>1, Zenon
    <3>3. <<>> \in Seq(Requests)
      OBVIOUS
    <3> QED BY <3>2, <3>3, Zenon DEF ClipNamesRequest
  <2>6. ClipNamesRequest(CueIndexIn(list)) \o Listens(list) \in Seq(Requests)
    BY <2>3, <2>5
  <2>7. /\ Ask(ClipNamesRequest(CueIndexIn(list)) \o Listens(list))
        /\ names' = list /\ muted' = muted
    BY <1>7, Zenon DEF HandleTrackNames
  <2> QED BY <2>1, <2>2, <2>6, <2>7, QueuesType, Zenon DEF MessagesType
<1>8. CASE HandleTrackMute
  <2>1. toBridge' \in Seq(Replies) /\ UNCHANGED <<toLive, names, muted>>
    BY <1>8, QueuesType, Zenon DEF HandleTrackMute
  <2> QED BY <2>1, Zenon DEF MessagesType
<1>9. CASE HandleCueClipNames \/ HandleTrackMeter
  <2>1. toBridge' \in Seq(Replies) /\ UNCHANGED <<toLive, names, muted>>
    BY <1>9, QueuesType, Zenon DEF HandleCueClipNames, HandleTrackMeter, trackVars
  <2> QED BY <2>1, Zenon DEF MessagesType
<1> QED BY <1>3, <1>4, <1>5, <1>6, <1>7, <1>8, <1>9, Zenon DEF BridgeHandles

-----------------------------------------------------------------------------
(* The steps of the remote script and of Live *)

TablesKept == UNCHANGED <<tracks, attached, functions, objects, registered>>

\* Tables nobody touches stay as good as they are.
LEMMA KeptStep ==
    ASSUME ListenersInv, TablesKept
    PROVE  ListenersInv'
BY DEF ListenersInv, TablesKept, TablesType, Counted, TablesAgree, OthersHaveObjects, DeafOverValuesOnly

\* A listener for a property that is no parameter's value is started with its object.
LEMMA StartListenStep ==
    ASSUME ListenersInv, MessagesType, NEW prop \in Property, prop \notin ValueProperty,
           NEW i \in Int, HasIndex(i), StartListen(prop, i), tracks' = tracks, registered, registered'
    PROVE  ListenersInv'
<1> USE ListenerAssumption
<1>1. <<prop, i>> \in Key /\ TrackAt(i) \in Track
  BY IndexInRange DEF ListenersInv, Key
<1>2. TablesType' /\ TablesAgree'
  BY <1>1, StartStep, Zenon DEF StartListen, ListenersInv
<1>3. OthersHaveObjects'
  <2>1. SUFFICES ASSUME NEW l \in Key, l[1] \notin ValueProperty, functions'[l] # NoTrack
                 PROVE  objects'[l] # NoTrack
    BY DEF OthersHaveObjects
  <2>2. /\ functions' = [functions EXCEPT ![<<prop, i>>] = TrackAt(i)]
        /\ objects' = [objects EXCEPT ![<<prop, i>>] = TrackAt(i)]
    BY Zenon DEF StartListen
  <2> QED BY <1>1, <2>1, <2>2 DEF ListenersInv, TablesType, OthersHaveObjects
<1> QED BY <1>2, <1>3 DEF ListenersInv, DeafOverValuesOnly

\* A parameter's listener is started without an object, and is no other's.
LEMMA StartValueStep ==
    ASSUME ListenersInv, MessagesType, NEW prop \in ValueProperty,
           NEW i \in Int, HasIndex(i), StartValueListen(prop, i), tracks' = tracks,
           registered, registered'
    PROVE  ListenersInv'
<1> USE ListenerAssumption
<1>1. <<prop, i>> \in Key /\ TrackAt(i) \in Track
  BY IndexInRange DEF ListenersInv, Key
<1>2. TablesType' /\ TablesAgree'
  BY <1>1, StartStep, Zenon DEF StartValueListen, ListenersInv
<1>3. OthersHaveObjects'
  <2>1. SUFFICES ASSUME NEW l \in Key, l[1] \notin ValueProperty, functions'[l] # NoTrack
                 PROVE  objects'[l] # NoTrack
    BY DEF OthersHaveObjects
  <2>2. functions' = [functions EXCEPT ![<<prop, i>>] = TrackAt(i)] /\ objects' = objects
    BY Zenon DEF StartValueListen
  <2>3. l # <<prop, i>>
    BY <2>1
  <2> QED BY <1>1, <2>1, <2>2, <2>3 DEF ListenersInv, TablesType, OthersHaveObjects
<1> QED BY <1>2, <1>3 DEF ListenersInv, DeafOverValuesOnly

\* A listener is stopped with its object, or a parameter's without one.
LEMMA StopListenStep ==
    ASSUME ListenersInv, MessagesType, NEW prop \in Property, NEW i \in Int, HasIndex(i),
           StopListen(prop, i) \/ (prop \in ValueProperty /\ StopValueListen(prop, i)),
           tracks' = tracks, registered, registered'
    PROVE  ListenersInv'
<1> USE ListenerAssumption
<1>1. <<prop, i>> \in Key /\ TrackAt(i) \in Track
  BY IndexInRange DEF ListenersInv, Key
<1>2. /\ attached' = Without(TrackAt(i), <<prop, i>>)
      /\ functions' = [functions EXCEPT ![<<prop, i>>] = NoTrack]
      /\ objects' = objects \/ objects' = [objects EXCEPT ![<<prop, i>>] = NoTrack]
  BY Zenon DEF StopListen, StopValueListen
<1>3. TablesType' /\ TablesAgree'
  BY <1>1, <1>2, StopStep, Zenon DEF ListenersInv
<1>4. OthersHaveObjects'
  <2>1. SUFFICES ASSUME NEW l \in Key, l[1] \notin ValueProperty, functions'[l] # NoTrack
                 PROVE  objects'[l] # NoTrack
    BY DEF OthersHaveObjects
  <2>2. l # <<prop, i>> /\ functions[l] # NoTrack
    BY <1>1, <1>2, <2>1 DEF ListenersInv, TablesType
  <2> QED BY <1>1, <1>2, <2>1, <2>2 DEF ListenersInv, TablesType, OthersHaveObjects
<1> QED BY <1>3, <1>4 DEF ListenersInv, DeafOverValuesOnly

\* A reload that gets through stops every listener; one that does not has met a
\* parameter's, which stays.
LEMMA ReloadStep ==
    ASSUME ListenersInv, MessagesType, Reload
    PROVE  ListenersInv'
<1> USE ListenerAssumption
<1>1. PICK done \in SUBSET {k \in Key : objects[k] # NoTrack} :
        /\ attached' = [t \in Track |-> [k \in Key |->
                IF k \in done /\ Removes(t, k) THEN attached[t][k] - 1 ELSE attached[t][k]]]
        /\ functions' = [k \in Key |-> IF k \in done THEN NoTrack ELSE functions[k]]
        /\ objects' = [k \in Key |-> IF k \in done THEN NoTrack ELSE objects[k]]
  BY Zenon DEF Reload, ClearListeners, Stopped
<1>2. tracks' = tracks /\ registered' = AllHaveObjects(Key)
  BY Zenon DEF Reload
<1>3. TablesType'
  BY <1>1, <1>2 DEF ListenersInv, TablesType, Counted, Removes, TrackList
<1>4. TablesAgree'
  <2>1. SUFFICES ASSUME NEW l \in Key, functions'[l] \in Track
                 PROVE  attached'[functions'[l]][l] > 0
    BY DEF TablesAgree
  <2>2. l \notin done /\ functions'[l] = functions[l]
    BY <1>1, <2>1
  <2> QED BY <1>1, <2>1, <2>2 DEF ListenersInv, TablesAgree
<1>5. OthersHaveObjects'
  BY <1>1 DEF ListenersInv, OthersHaveObjects
<1>6. DeafOverValuesOnly'
  <2>1. SUFFICES ASSUME ~AllHaveObjects(Key)
                 PROVE  \E prop \in ValueProperty, i \in Index : functions'[<<prop, i>>] # NoTrack
    BY <1>2, Zenon DEF DeafOverValuesOnly
  <2>2. PICK k \in Key : functions[k] # NoTrack /\ objects[k] = NoTrack
    BY <2>1 DEF AllHaveObjects
  <2>3. k[1] \in ValueProperty /\ k[2] \in Index /\ k = <<k[1], k[2]>>
    BY <2>2 DEF ListenersInv, OthersHaveObjects, Key
  <2>4. functions'[k] # NoTrack
    BY <1>1, <2>2
  <2> QED BY <2>3, <2>4
<1> QED BY <1>3, <1>4, <1>5, <1>6 DEF ListenersInv

\* Edits of the track list delete callbacks with their tracks, and make the tables name
\* a track that has gone.
LEMMA EditStep ==
    ASSUME ListenersInv, MessagesType, NEW list \in TrackList, TracksEdited(list),
           registered' = registered
    PROVE  ListenersInv'
<1> USE ListenerAssumption
<1>1. /\ tracks' = list
      /\ attached' = [t \in Track |-> IF InList(t, list) THEN attached[t] ELSE [k \in Key |-> 0]]
      /\ functions' = [k \in Key |-> IF functions[k] = NoTrack \/ InList(functions[k], list)
                                     THEN functions[k] ELSE GoneTrack]
      /\ objects' = [k \in Key |-> IF objects[k] = NoTrack \/ InList(objects[k], list)
                                   THEN objects[k] ELSE GoneTrack]
  BY Zenon DEF TracksEdited, Survives, Refers
<1>2. TablesType'
  <2>1. attached' \in [Track -> [Key -> Nat]]
    BY <1>1 DEF ListenersInv, TablesType, Counted
  <2>2. /\ functions' \in [Key -> Track \cup {NoTrack, GoneTrack}]
        /\ objects' \in [Key -> Track \cup {NoTrack, GoneTrack}]
    BY <1>1 DEF ListenersInv, TablesType
  <2> QED BY <1>1, <2>1, <2>2, Zenon DEF TablesType, Counted
<1>3. TablesAgree'
  <2>1. SUFFICES ASSUME NEW l \in Key, functions'[l] \in Track
                 PROVE  attached'[functions'[l]][l] > 0
    BY DEF TablesAgree
  <2>2. functions'[l] = functions[l] /\ InList(functions[l], list)
    BY <1>1, <2>1
  <2> QED BY <1>1, <2>1, <2>2 DEF ListenersInv, TablesAgree
<1>4. OthersHaveObjects'
  BY <1>1 DEF ListenersInv, OthersHaveObjects
<1>5. DeafOverValuesOnly'
  <2>1. \A k \in Key : functions[k] # NoTrack => functions'[k] # NoTrack
    BY <1>1
  <2>2. \A prop \in ValueProperty, i \in Index : <<prop, i>> \in Key
    BY DEF Key
  <2> QED BY <2>1, <2>2 DEF ListenersInv, DeafOverValuesOnly
<1> QED BY <1>2, <1>3, <1>4, <1>5 DEF ListenersInv

\* A restart leaves empty tables and nothing attached.
LEMMA RestartStep ==
    ASSUME ListenersInv, ScriptRestarts, registered'
    PROVE  ListenersInv'
<1> USE ListenerAssumption
<1>1. /\ attached' = [t \in Track |-> [k \in Key |-> 0]]
      /\ functions' = [k \in Key |-> NoTrack] /\ objects' = [k \in Key |-> NoTrack]
      /\ tracks' = tracks
  BY Zenon DEF ScriptRestarts, NoListeners
<1> QED BY <1>1 DEF ListenersInv, TablesType, Counted, TablesAgree, OthersHaveObjects,
                    DeafOverValuesOnly

-----------------------------------------------------------------------------
(* Every step *)

IInv == ListenersInv /\ MessagesType

\* What the remote script does at a request keeps the tables and the messages right.
LEMMA ObeyStep == IInv /\ LiveObeys => IInv'
<1> SUFFICES ASSUME IInv, LiveObeys PROVE IInv'
  OBVIOUS
<1> USE TracksAssumption
<1> DEFINE i == Head(toLive).index
<1>1. ListenersInv /\ MessagesType /\ TablesType /\ names' = names
  BY Zenon DEF IInv, ListenersInv, LiveObeys, trackVars
<1>2. \A kind : Obeys(kind) => registered /\ i \in Int /\ toLive' \in Seq(Requests)
  BY <1>1, QueuesType DEF Obeys, Requests
<1>3. \A replies \in Seq(Replies) : Answer(replies) => toBridge' \in Seq(Replies)
  BY <1>1, QueuesType
<1>4. ASSUME toBridge' = toBridge, muted' = muted, toLive' \in Seq(Requests) PROVE MessagesType'
  BY <1>1, <1>4, Zenon DEF MessagesType
<1>5. ASSUME NEW replies \in Seq(Replies), Answer(replies), muted' = muted, toLive' \in Seq(Requests)
      PROVE  MessagesType'
  BY <1>1, <1>3, <1>5, Zenon DEF MessagesType
<1>6. ASSUME UNCHANGED <<liveTracks, scriptVars>> PROVE ListenersInv'
  BY <1>1, <1>6, KeptStep DEF TablesKept, liveTracks, scriptVars, tables
<1>7. "mute" \in Property /\ "mute" \notin ValueProperty /\ ValueProperty \subseteq Property
      /\ "volume" \in ValueProperty /\ "parameter" \in ValueProperty
  OBVIOUS
<1> HIDE DEF i
<1>8. CASE AnswerNames
  <2>1. tracks \in TrackList
    BY <1>1 DEF TablesType
  <2>2. <<Reply("names", NoIndex, tracks)>> \in Seq(Replies)
    BY <2>1 DEF Reply, Replies
  <2> QED BY <1>2, <1>5, <1>6, <1>8, <2>2, Zenon DEF AnswerNames, IInv
<1>9. CASE AnswerClips
  <2>1. Obeys("clips") /\ UNCHANGED <<liveTracks, scriptVars>> /\ muted' = muted
        /\ Answer(IF HasIndex(i) THEN <<Reply("clips", i, TrackAt(i))>> ELSE <<>>)
    BY <1>9, Zenon DEF AnswerClips, i
  <2>2. (IF HasIndex(i) THEN <<Reply("clips", i, TrackAt(i))>> ELSE <<>>) \in Seq(Replies)
    <3>1. ASSUME HasIndex(i) PROVE <<Reply("clips", i, TrackAt(i))>> \in Seq(Replies)
      <4>1. i \in Index /\ TrackAt(i) \in Track
        BY <1>1, <1>2, <2>1, <3>1, IndexInRange
      <4> QED BY <4>1 DEF Reply, Replies
    <3>2. <<>> \in Seq(Replies)
      OBVIOUS
    <3> QED BY <3>1, <3>2, Zenon
  <2> QED BY <1>2, <1>5, <1>6, <2>1, <2>2, Zenon DEF IInv
<1>10. CASE AnswerMeters
  <2> DEFINE heard == {n \in 0..i - 1 : HasIndex(n)}
  <2>1. Obeys("meters") /\ UNCHANGED <<liveTracks, scriptVars>> /\ muted' = muted
        /\ Answer(<<Reply("meters", NoIndex, heard)>>)
    BY <1>10, Zenon DEF AnswerMeters, i
  <2>2. heard \subseteq Index
    BY <1>1, <1>2, <2>1, IndexInRange
  <2>3. <<Reply("meters", NoIndex, heard)>> \in Seq(Replies)
    BY <2>2 DEF Reply, Replies
  <2> HIDE DEF heard
  <2> QED BY <1>2, <1>5, <1>6, <2>1, <2>3, Zenon DEF IInv
<1>11. CASE AnswerListen
  <2>1. Obeys("listen") /\ tracks' = tracks /\ registered' = registered /\ muted' = muted
    BY <1>11, Zenon DEF AnswerListen
  <2>2. CASE HasIndex(i)
    <3>1. StartListen("mute", i) /\ Answer(<<Reply("mute", i, muted[TrackAt(i)])>>)
      BY <1>11, <2>2, Zenon DEF AnswerListen, i
    <3>2. i \in Index /\ TrackAt(i) \in Track
      BY <1>1, <1>2, <2>1, <2>2, IndexInRange
    <3>3. muted[TrackAt(i)] \in BOOLEAN
      BY <1>1, <3>2, Zenon DEF MessagesType
    <3>4. <<Reply("mute", i, muted[TrackAt(i)])>> \in Seq(Replies)
      BY <3>2, <3>3 DEF Reply, Replies
    <3>5. ListenersInv'
      BY <1>1, <1>2, <1>7, <2>1, <2>2, <3>1, StartListenStep, Zenon
    <3> QED BY <1>2, <1>5, <2>1, <3>1, <3>4, <3>5, Zenon DEF IInv
  <2>3. CASE ~HasIndex(i)
    <3>1. UNCHANGED <<attached, tables, toBridge>>
      BY <1>11, <2>3, Zenon DEF AnswerListen, i
    <3> QED BY <1>2, <1>4, <1>6, <2>1, <3>1 DEF liveTracks, scriptVars, IInv
  <2> QED BY <2>2, <2>3
<1>12. ASSUME NEW kind, NEW prop \in ValueProperty, ListenValue(kind, prop) PROVE IInv'
  <2>1. Obeys(kind) /\ tracks' = tracks /\ UNCHANGED <<registered, toBridge, muted>>
        /\ (IF HasIndex(i) /\ GoesOn(prop, i) THEN StartValueListen(prop, i) ELSE UNCHANGED <<attached, tables>>)
    BY <1>12, Zenon DEF ListenValue, i
  <2>2. CASE HasIndex(i) /\ GoesOn(prop, i)
    <3>1. ListenersInv'
      BY <1>1, <1>2, <1>7, <2>1, <2>2, StartValueStep, Zenon
    <3> QED BY <1>2, <1>4, <2>1, <3>1, Zenon DEF IInv
  <2>3. CASE ~(HasIndex(i) /\ GoesOn(prop, i))
    BY <1>2, <1>4, <1>6, <2>1, <2>3 DEF liveTracks, scriptVars, IInv
  <2> QED BY <2>2, <2>3
<1>13. ASSUME NEW kind, NEW prop \in ValueProperty, StopValue(kind, prop) PROVE IInv'
  <2>1. Obeys(kind) /\ tracks' = tracks /\ UNCHANGED <<registered, toBridge, muted>>
        /\ (IF HasIndex(i) /\ GoesOn(prop, i) THEN StopValueListen(prop, i) ELSE UNCHANGED <<attached, tables>>)
    BY <1>13, Zenon DEF StopValue, i
  <2>2. CASE HasIndex(i) /\ GoesOn(prop, i)
    <3>1. ListenersInv'
      BY <1>1, <1>2, <1>7, <2>1, <2>2, StopListenStep, Zenon
    <3> QED BY <1>2, <1>4, <2>1, <3>1, Zenon DEF IInv
  <2>3. CASE ~(HasIndex(i) /\ GoesOn(prop, i))
    BY <1>2, <1>4, <1>6, <2>1, <2>3 DEF liveTracks, scriptVars, IInv
  <2> QED BY <2>2, <2>3
<1>14. ASSUME StopMute PROVE IInv'
  <2>1. Obeys("stop") /\ tracks' = tracks /\ UNCHANGED <<registered, toBridge, muted>>
        /\ (IF HasIndex(i) THEN StopListen("mute", i) ELSE UNCHANGED <<attached, tables>>)
    BY <1>14, Zenon DEF StopMute, i
  <2>2. CASE HasIndex(i)
    <3>1. ListenersInv'
      BY <1>1, <1>2, <1>7, <2>1, <2>2, StopListenStep, Zenon
    <3> QED BY <1>2, <1>4, <2>1, <3>1, Zenon DEF IInv
  <2>3. CASE ~HasIndex(i)
    BY <1>2, <1>4, <1>6, <2>1, <2>3 DEF liveTracks, scriptVars, IInv
  <2> QED BY <2>2, <2>3
<1>15. CASE Reload
  <2>1. ListenersInv'
    BY <1>1, <1>15, ReloadStep
  <2> QED BY <1>2, <1>4, <1>15, <2>1, Zenon DEF Reload, IInv
<1>16. CASE NotUnderstood
  <2>1. toLive' \in Seq(Requests)
    BY <1>1, <1>16 DEF NotUnderstood, MessagesType
  <2> QED BY <1>4, <1>6, <1>16, <2>1, Zenon DEF NotUnderstood, IInv
<1>17. ASSUME NEW kind, NEW value \in BOOLEAN, ObeyMute(kind, value) PROVE IInv'
  <2>1. Obeys(kind)
        /\ (IF HasIndex(i) THEN Mutes(TrackAt(i), value)
            ELSE UNCHANGED <<liveTracks, scriptVars, toBridge, muted>>)
    BY <1>17, Zenon DEF ObeyMute, i
  <2>2. CASE HasIndex(i)
    <3>1. TrackAt(i) \in Track
      BY <1>1, <1>2, <2>1, <2>2, IndexInRange
    <3>2. /\ muted' \in [Track -> BOOLEAN] /\ toBridge' \in Seq(Replies)
          /\ UNCHANGED <<liveTracks, scriptVars>>
      BY <1>1, <2>1, <2>2, <3>1, MutesType, Zenon
    <3> QED BY <1>1, <1>2, <1>6, <2>1, <3>2, Zenon DEF MessagesType, IInv
  <2>3. CASE ~HasIndex(i)
    BY <1>2, <1>4, <1>6, <2>1, <2>3, Zenon DEF IInv
  <2> QED BY <2>2, <2>3
<1>18. CASE ListenVolume \/ StopVolume \/ ListenParameter \/ StopParameter
  BY <1>7, <1>12, <1>13, <1>18, Zenon DEF ListenVolume, StopVolume, ListenParameter, StopParameter
<1> QED BY <1>8, <1>9, <1>10, <1>11, <1>14, <1>15, <1>16, <1>17, <1>18, Zenon DEF LiveObeys

\* IInv is kept by every step.
LEMMA IInvStep == IInv /\ [Next]_vars => IInv'
<1> SUFFICES ASSUME IInv, [Next]_vars PROVE IInv'
  OBVIOUS
<1>1. ListenersInv /\ MessagesType /\ TablesType
  BY Zenon DEF IInv, ListenersInv
<1>2. ASSUME UNCHANGED <<liveTracks, scriptVars>> PROVE ListenersInv'
  BY <1>1, <1>2, KeptStep DEF TablesKept, liveTracks, scriptVars, tables
<1>3. CASE FetchTracks \/ PollMeters \/ BridgeHandles
  <2>1. UNCHANGED <<liveTracks, scriptVars>>
    BY <1>3, Zenon DEF FetchTracks, PollMeters, BridgeHandles, HandleTrackNames,
                       HandleTrackMute, HandleCueClipNames, HandleTrackMeter
  <2> QED BY <1>1, <1>2, <1>3, <2>1, BridgeMessages, Zenon DEF IInv
<1>4. ASSUME NEW i \in Index, NEW value \in BOOLEAN, SetTrackMute(i, value) PROVE IInv'
  <2>1. UNCHANGED <<liveTracks, scriptVars>>
    BY <1>4, Zenon DEF SetTrackMute
  <2> QED BY <1>1, <1>2, <1>4, <2>1, BridgeMessages, Zenon DEF IInv
<1>5. ASSUME NEW kind \in Kinds, NEW i \in Index \cup {NoIndex}, OtherClient(kind, i) PROVE IInv'
  <2>1. UNCHANGED <<liveTracks, scriptVars>>
    BY <1>5, Zenon DEF OtherClient
  <2> QED BY <1>1, <1>2, <1>5, <2>1, BridgeMessages, Zenon DEF IInv
<1>6. CASE LiveObeys
  BY <1>6, ObeyStep
<1>7. CASE EditTracks
  <2>1. PICK list \in TrackList : TracksEdited(list)
    BY <1>7, Zenon DEF EditTracks
  <2>2. registered' = registered /\ UNCHANGED <<names, toLive, toBridge, muted>>
    BY <1>7, Zenon DEF EditTracks, trackVars
  <2> QED BY <1>1, <2>1, <2>2, EditStep, Zenon DEF MessagesType, IInv
<1>8. CASE Restart
  <2>1. ScriptRestarts /\ registered' /\ toLive' = <<>> /\ UNCHANGED <<names, toBridge, muted>>
    BY <1>8, Zenon DEF Restart, trackVars
  <2>2. toLive' \in Seq(Requests)
    BY <2>1
  <2> QED BY <1>1, <2>1, <2>2, RestartStep, Zenon DEF MessagesType, IInv
<1>9. ASSUME NEW t \in Track, MuteByHand(t) PROVE IInv'
  <2>1. /\ muted' \in [Track -> BOOLEAN] /\ toBridge' \in Seq(Replies)
        /\ UNCHANGED <<liveTracks, scriptVars>>
    <3>1. (~muted[t]) \in BOOLEAN
      BY Zenon
    <3> QED BY <1>1, <1>9, <3>1, MutesType, Zenon DEF MuteByHand
  <2>2. UNCHANGED <<names, toLive>>
    BY <1>9, Zenon DEF MuteByHand, trackVars
  <2> QED BY <1>1, <1>2, <2>1, <2>2, Zenon DEF MessagesType, IInv
<1>10. CASE UNCHANGED vars
  <2>1. UNCHANGED <<liveTracks, scriptVars, names, toLive, toBridge, muted>>
    BY <1>10, Zenon DEF vars, trackVars
  <2> QED BY <1>1, <1>2, <2>1, Zenon DEF MessagesType, IInv
<1>11. /\ \A i \in Index : i \in Index \cup {NoIndex}
       /\ NoIndex \in Index \cup {NoIndex}
       /\ {"listen volume", "stop volume", "listen parameter", "stop parameter",
           "stop", "reload"} \subseteq Kinds
  BY DEF Kinds
<1> QED BY <1>3, <1>4, <1>5, <1>6, <1>7, <1>8, <1>9, <1>10, <1>11, Zenon DEF Next

\* At first nothing is listened to.
LEMMA IInvInit == Init => IInv
<1> SUFFICES ASSUME Init PROVE IInv
  OBVIOUS
<1> USE ListenerAssumption
<1>1. /\ attached = [t \in Track |-> [k \in Key |-> 0]]
      /\ functions = [k \in Key |-> NoTrack] /\ objects = [k \in Key |-> NoTrack]
      /\ tracks \in TrackList /\ registered
  BY Zenon DEF Init, ListenersInit, NoListeners
<1>2. ListenersInv
  BY <1>1 DEF ListenersInv, TablesType, Counted, TablesAgree, OthersHaveObjects, DeafOverValuesOnly
<1>3. MessagesType
  <2>1. names \in TrackList
    BY TrackLists DEF Init, TrackList
  <2>2. muted \in [Track -> BOOLEAN]
    BY DEF Init
  <2>3. toLive \in Seq(Requests) /\ toBridge \in Seq(Replies)
    BY DEF Init
  <2> QED BY <2>1, <2>2, <2>3, Zenon DEF MessagesType
<1> QED BY <1>2, <1>3, Zenon DEF IInv

\* The callback kept under a key reports for the track it was made for, whatever is
\* moved, deleted, restarted, reloaded or listened to (_start_listen, _stop_listen).
THEOREM ListenersReport == Spec => []TablesAgree
<1>1. IInv => TablesAgree
  BY Zenon DEF IInv, ListenersInv
<1> QED BY <1>1, IInvInit, IInvStep, PTL DEF Spec

\* A reload leaves the remote script without handlers only over a listener for the value
\* of a mixer's or a device's parameter (_clear_listeners, clear_api, reload_imports).
THEOREM OnlyValuesDeafen == Spec => []DeafOverValuesOnly
<1>1. IInv => DeafOverValuesOnly
  BY Zenon DEF IInv, ListenersInv
<1> QED BY <1>1, IInvInit, IInvStep, PTL DEF Spec
-----------------------------------------------------------------------------
(* The type invariant *)

\* What the devices are shown of the tracks.
ShownType ==
    /\ mutes \in [DOMAIN names -> BOOLEAN]
    /\ cueIndex \in Index \cup {NoIndex} /\ clipMap \in Track \cup {NoTrack}
    /\ meters \subseteq Index

\* Where a track list has the Cue Clips track.
LEMMA CueIndexType ==
    ASSUME NEW list \in TrackList
    PROVE  CueIndexIn(list) \in Index \cup {NoIndex} /\ Positions(list) \subseteq Index
<1>1. DOMAIN list = 1..Len(list) /\ Len(list) \in 0..Cardinality(Track) /\ Cardinality(Track) \in Nat
  BY TrackLists
<1>2. Positions(list) \subseteq Index
  BY <1>1 DEF Positions, Index
<1>3. ASSUME InList(CueTrack, list) PROVE CueIndexIn(list) \in Positions(list)
  <2>1. PICK n \in DOMAIN list : list[n] = CueTrack
    BY <1>3 DEF InList
  <2>2. n - 1 \in Positions(list) /\ list[(n - 1) + 1] = CueTrack
    BY <1>1, <2>1 DEF Positions
  <2>3. \E i \in Positions(list) : list[i + 1] = CueTrack
    BY <2>2
  <2> QED BY <1>3, <2>3, Zenon DEF CueIndexIn
<1>4. ~InList(CueTrack, list) => CueIndexIn(list) = NoIndex
  BY Zenon DEF CueIndexIn
<1> QED BY <1>2, <1>3, <1>4, Zenon

\* ShownType is kept by every step: only what comes from Live changes what is shown.
LEMMA ShownStep ==
    ASSUME IInv, ShownType, [Next]_vars
    PROVE  ShownType'
<1> USE TracksAssumption
<1>1. MessagesType
  BY Zenon DEF IInv
<1>2. ASSUME UNCHANGED <<trackVars, cueVars, meters>> PROVE ShownType'
  BY <1>2 DEF ShownType, trackVars, cueVars, Index
<1>3. CASE FetchTracks \/ PollMeters \/ LiveObeys \/ EditTracks \/ Restart \/ UNCHANGED vars
  BY <1>2, <1>3, Zenon DEF FetchTracks, PollMeters, LiveObeys, EditTracks, Restart, vars
<1>4. ASSUME NEW i, NEW value, SetTrackMute(i, value) PROVE ShownType'
  BY <1>2, <1>4, Zenon DEF SetTrackMute
<1>5. ASSUME NEW kind, NEW i, OtherClient(kind, i) PROVE ShownType'
  BY <1>2, <1>5, Zenon DEF OtherClient
<1>6. ASSUME NEW t, MuteByHand(t) PROVE ShownType'
  BY <1>2, <1>6, Zenon DEF MuteByHand
<1>7. CASE HandleTrackNames
  <2> DEFINE list == Head(toBridge).what
             index == CueIndexIn(list)
             kept == [n \in DOMAIN list |-> n \in DOMAIN mutes /\ mutes[n]]
  <2>1. Head(toBridge) \in Replies /\ Head(toBridge).kind = "names"
    BY <1>1, <1>7, QueuesType, Zenon DEF HandleTrackNames
  <2>2. list \in TrackList
    BY <2>1 DEF Replies
  <2>3. index \in Index \cup {NoIndex} /\ Positions(list) \subseteq Index
    BY <2>2, CueIndexType
  <2>4. /\ names' = list /\ mutes' = kept /\ cueIndex' = index
        /\ clipMap' = (IF index # cueIndex THEN NoTrack ELSE clipMap)
        /\ meters' = meters \cap Positions(list)
    BY <1>7, Zenon DEF HandleTrackNames, KeptMeters
  <2>5. kept \in [DOMAIN list -> BOOLEAN]
    <3>1. \A n \in DOMAIN list : (n \in DOMAIN mutes /\ mutes[n]) \in BOOLEAN
      BY Zenon
    <3> HIDE DEF list
    <3> QED BY <3>1, Zenon
  <2>6. mutes' \in [DOMAIN names' -> BOOLEAN]
    BY <2>4, <2>5, Zenon
  <2>7. clipMap' \in Track \cup {NoTrack} /\ meters' \subseteq Index
    <3> HIDE DEF index
    <3> QED BY <2>3, <2>4 DEF ShownType
  <2> QED BY <2>3, <2>4, <2>6, <2>7, Zenon DEF ShownType, Index
<1>8. CASE HandleTrackMute
  <2> DEFINE report == Head(toBridge)
             shown == [n \in DOMAIN mutes |-> IF n = report.index + 1 THEN report.what ELSE mutes[n]]
  <2>1. report \in Replies /\ report.kind = "mute"
    BY <1>1, <1>8, QueuesType, Zenon DEF HandleTrackMute
  <2>2. report.what \in BOOLEAN
    BY <2>1 DEF Replies
  <2>3. mutes' = shown /\ UNCHANGED <<names, cueIndex, clipMap, meters>>
    BY <1>8, Zenon DEF HandleTrackMute, cueVars
  <2>4. \A n \in DOMAIN mutes : (IF n = report.index + 1 THEN report.what ELSE mutes[n]) \in BOOLEAN
    BY <2>2, Zenon DEF ShownType
  <2>5. DOMAIN mutes = DOMAIN names
    BY Zenon DEF ShownType
  <2>6. shown \in [DOMAIN names -> BOOLEAN]
    <3> HIDE DEF report
    <3> QED BY <2>4, <2>5, Zenon
  <2> QED BY <2>3, <2>6, Zenon DEF ShownType, Index
<1>9. CASE HandleCueClipNames
  <2> DEFINE reply == Head(toBridge)
  <2>1. reply \in Replies /\ reply.kind = "clips"
    BY <1>1, <1>9, QueuesType, Zenon DEF HandleCueClipNames
  <2>2. reply.what \in Track
    BY <2>1 DEF Replies
  <2>3. clipMap' \in Track \cup {NoTrack}
    BY <1>9, <2>2, Zenon DEF HandleCueClipNames, ShownType
  <2>4. UNCHANGED <<names, mutes, cueIndex, meters>>
    BY <1>9, Zenon DEF HandleCueClipNames, trackVars
  <2> QED BY <2>3, <2>4, Zenon DEF ShownType, Index
<1>10. CASE HandleTrackMeter
  <2> DEFINE reply == Head(toBridge)
  <2>1. reply \in Replies /\ reply.kind = "meters"
    BY <1>1, <1>10, QueuesType, Zenon DEF HandleTrackMeter
  <2>2. reply.what \subseteq Index
    BY <2>1 DEF Replies
  <2>3. meters' = meters \cup reply.what /\ UNCHANGED <<names, mutes, cueIndex, clipMap>>
    BY <1>10, Zenon DEF HandleTrackMeter, trackVars, cueVars
  <2>4. meters' \subseteq Index
    BY <2>2, <2>3 DEF ShownType
  <2> QED BY <2>3, <2>4, Zenon DEF ShownType, Index
<1> QED BY <1>3, <1>4, <1>5, <1>6, <1>7, <1>8, <1>9, <1>10, Zenon DEF Next, BridgeHandles

\* Whether the script has its handlers is always known.
LEMMA RegisteredStep == ASSUME registered \in BOOLEAN, [Next]_vars PROVE registered' \in BOOLEAN
<1>1. ASSUME UNCHANGED scriptVars PROVE registered' \in BOOLEAN
  BY <1>1, Zenon DEF scriptVars
<1>2. CASE FetchTracks \/ PollMeters \/ BridgeHandles \/ UNCHANGED vars
  BY <1>1, <1>2, Zenon DEF FetchTracks, PollMeters, BridgeHandles, HandleTrackNames,
     HandleTrackMute, HandleCueClipNames, HandleTrackMeter, vars
<1>3. ASSUME NEW i, NEW value, SetTrackMute(i, value) PROVE registered' \in BOOLEAN
  BY <1>1, <1>3, Zenon DEF SetTrackMute
<1>4. ASSUME NEW kind, NEW i, OtherClient(kind, i) PROVE registered' \in BOOLEAN
  BY <1>1, <1>4, Zenon DEF OtherClient
<1>5. ASSUME NEW t, MuteByHand(t) PROVE registered' \in BOOLEAN
  BY <1>1, <1>5, Zenon DEF MuteByHand, Mutes
<1>6. CASE EditTracks \/ Restart
  BY <1>6, Zenon DEF EditTracks, Restart
<1>7. CASE LiveObeys
  <2>1. CASE AnswerNames \/ AnswerClips \/ AnswerMeters \/ NotUnderstood
    BY <1>1, <2>1, Zenon DEF AnswerNames, AnswerClips, AnswerMeters, NotUnderstood
  <2>2. CASE AnswerListen \/ ListenVolume \/ StopVolume \/ ListenParameter \/ StopParameter \/ StopMute
    BY <2>2, Zenon DEF AnswerListen, ListenVolume, StopVolume, ListenParameter, StopParameter,
                       ListenValue, StopValue, StopMute
  <2>3. CASE Reload
    <3>1. AllHaveObjects(Key) \in BOOLEAN
      BY Zenon DEF AllHaveObjects
    <3> QED BY <2>3, <3>1, Zenon DEF Reload
  <2>4. ASSUME NEW kind, NEW value, ObeyMute(kind, value) PROVE registered' \in BOOLEAN
    BY <1>1, <2>4, Zenon DEF ObeyMute, Mutes
  <2> QED BY <1>7, <2>1, <2>2, <2>3, <2>4, Zenon DEF LiveObeys
<1> QED BY <1>2, <1>3, <1>4, <1>5, <1>6, <1>7, Zenon DEF Next

\* What the bridge shows of the tracks keeps to its types: there is a mute state for each
\* name, and no meter or clip name of an index or track that cannot be.
THEOREM WellTyped == Spec => []TypeOK
<1> DEFINE Inv == IInv /\ ShownType /\ registered \in BOOLEAN
<1>1. Init => Inv
  <2>1. Init => ShownType
    BY DEF Init, ShownType
  <2>2. Init => registered \in BOOLEAN
    BY Zenon DEF Init
  <2> QED BY <2>1, <2>2, IInvInit, Zenon
<1>2. Inv /\ [Next]_vars => Inv'
  BY IInvStep, ShownStep, RegisteredStep, Zenon
<1>3. Inv => TypeOK
  BY Zenon DEF IInv, ListenersInv, MessagesType, TablesType, Counted, ShownType, TypeOK, ListenersTypeOK
<1> QED BY <1>1, <1>2, <1>3, PTL DEF Spec
=============================================================================
