------------------------------- MODULE Tracks -------------------------------
(***************************************************************************)
(* The track list, the mute switches, the meters and the Cue Clips track:  *)
(* what bridge/ableton.py keeps of them, and the mute listeners of         *)
(* AbletonOSC it learns them from.  Requests and replies are datagrams on  *)
(* the loopback interface and stay in order.  A track list is asked for    *)
(* again and again; somebody at the computer may meanwhile add, delete and *)
(* move tracks, mute them, or restart the remote script, and another OSC   *)
(* client may listen for the values of parameters or have the script       *)
(* reload itself.                                                          *)
(***************************************************************************)
EXTENDS Listeners

CONSTANTS
    CueTrack,      \* the track named "Cue Clips"
    MaxEvents      \* bound: edits, mute changes, other clients' requests and restarts

ASSUME TracksAssumption ==
    /\ CueTrack \in Track
    /\ Property = {"mute", "volume", "parameter"}
    /\ ValueProperty = {"volume", "parameter"} /\ DeviceProperty = {"parameter"}

VARIABLES
    \* AppState and AbletonBridge
    names,       \* tracks: the track at each index
    mutes,       \* tracks: whether it is muted
    cueIndex,    \* _cue_clips_track_index
    clipMap,     \* _cue_clip_index_by_name: the track whose clips it names
    meters,      \* track_meters: the indices with a reading
    \* the messages, and Live
    toLive, toBridge,
    muted,
    registered,  \* the OSC server has its handlers (_callbacks)
    \* history and bounds
    hasty,       \* tracks moved, or the script restarted, between the two halves of a listing
    listed,      \* a listing has been answered since the tracks last moved
    events

trackVars == <<names, mutes>>
cueVars == <<cueIndex, clipMap>>
historyVars == <<hasty, listed, events>>
scriptVars == <<tables, registered>>
vars == <<liveTracks, scriptVars, trackVars, cueVars, meters, toLive, toBridge, muted, historyVars>>

NoIndex == -1
Positions(list) == 0..Len(list) - 1

Request(kind, i) == [kind |-> kind, index |-> i]
Reply(kind, i, what) == [kind |-> kind, index |-> i, what |-> what]
OnItsWay(queue, kind) == \E n \in DOMAIN queue : queue[n].kind = kind
Ask(requests) == toLive' = toLive \o requests

Init ==
    /\ ListenersInit
    /\ names = <<>> /\ mutes = <<>> /\ cueIndex = NoIndex /\ clipMap = NoTrack
    /\ meters = {}
    /\ toLive = <<>> /\ toBridge = <<>>
    /\ muted = [t \in Track |-> FALSE]
    /\ registered = TRUE
    /\ hasty = FALSE /\ listed = FALSE /\ events = 0

-----------------------------------------------------------------------------
(* The bridge *)

\* fetch_tracks, on every fifth poll, on a refresh, and after a mute.  Bound: one
\* listing at a time; the last answer has come by then.
FetchTracks ==
    /\ ~OnItsWay(toLive, "names") /\ ~OnItsWay(toBridge, "names")
    /\ Ask(<<Request("names", NoIndex)>>)
    /\ UNCHANGED <<liveTracks, scriptVars, trackVars, cueVars, meters, toBridge, muted, historyVars>>

\* A device's mute_track message, whose index need not be one of the list's.
SetTrackMute(i, value) ==
    /\ events < MaxEvents /\ events' = events + 1
    /\ Ask(<<Request(IF value THEN "set mute" ELSE "set unmute", i)>>)
    /\ UNCHANGED <<liveTracks, scriptVars, trackVars, cueVars, meters, toBridge, muted, hasty, listed>>

\* One round of _poll_track_meters, all of whose requests Live reads in one go: the
\* last round's answers have come.
PollMeters ==
    /\ ~OnItsWay(toLive, "meters") /\ ~OnItsWay(toBridge, "meters")
    /\ names # <<>>
    /\ Ask(<<Request("meters", Len(names))>>)
    /\ UNCHANGED <<liveTracks, scriptVars, trackVars, cueVars, meters, toBridge, muted, historyVars>>

Received(kind) == toBridge # <<>> /\ Head(toBridge).kind = kind /\ toBridge' = Tail(toBridge)

CueIndexIn(list) ==
    IF InList(CueTrack, list) THEN (CHOOSE i \in Positions(list) : list[i + 1] = CueTrack) ELSE NoIndex

\* Variant: asks for clip names only when there was no Cue Clips track before.
ClipNamesRequest_OnlyOnce(index) ==
    IF cueIndex = NoIndex /\ index # NoIndex THEN <<Request("clips", index)>> ELSE <<>>

\* Variant: listens only to the tracks that are new.
Listens_OnlyNew(list) == SelectSeq([n \in DOMAIN list |-> Request("listen", n - 1)],
                                   LAMBDA r : r.index \notin Positions(names))

\* The requests that follow a track list: the clip names, if the Cue Clips track is at
\* another index than before, and a mute listener for every track.
ClipNamesRequest(index) ==
    IF index # cueIndex /\ index # NoIndex THEN <<Request("clips", index)>> ELSE <<>>
Listens(list) == [n \in DOMAIN list |-> Request("listen", n - 1)]

\* Variant: readings are dropped.
KeptMeters_None(list) == {}
KeptMeters(list) == meters \cap Positions(list)

\* _handle_track_names: mute states stay with their index.
HandleTrackNames ==
    /\ Received("names")
    /\ LET list == Head(toBridge).what
           index == CueIndexIn(list)
       IN  /\ names' = list
           /\ mutes' = [n \in DOMAIN list |-> n \in DOMAIN mutes /\ mutes[n]]
           /\ cueIndex' = index
           /\ clipMap' = IF index # cueIndex THEN NoTrack ELSE clipMap
           /\ Ask(ClipNamesRequest(index) \o Listens(list))
           /\ meters' = KeptMeters(list)
    /\ UNCHANGED <<liveTracks, scriptVars, muted, historyVars>>

HandleTrackMute ==
    /\ Received("mute")
    /\ LET report == Head(toBridge)
       IN  mutes' = [n \in DOMAIN mutes |-> IF n = report.index + 1 THEN report.what ELSE mutes[n]]
    /\ UNCHANGED <<liveTracks, scriptVars, names, cueVars, meters, toLive, muted, historyVars>>

ClipNamesWanted(reply) == reply.index = cueIndex

HandleCueClipNames ==
    /\ Received("clips")
    /\ clipMap' = IF ClipNamesWanted(Head(toBridge)) THEN Head(toBridge).what ELSE clipMap
    /\ UNCHANGED <<liveTracks, scriptVars, trackVars, cueIndex, meters, toLive, muted, historyVars>>

\* The answers to one round.
HandleTrackMeter ==
    /\ Received("meters")
    /\ meters' = meters \cup Head(toBridge).what
    /\ UNCHANGED <<liveTracks, scriptVars, trackVars, cueVars, toLive, muted, historyVars>>

-----------------------------------------------------------------------------
(* AbletonOSC and Live *)

Obeys(kind) ==
    registered /\ toLive # <<>> /\ Head(toLive).kind = kind /\ toLive' = Tail(toLive)
Answer(replies) == toBridge' = toBridge \o replies

AnswerNames ==
    /\ Obeys("names")
    /\ Answer(<<Reply("names", NoIndex, tracks)>>)
    /\ listed' = TRUE
    /\ UNCHANGED <<liveTracks, scriptVars, muted>>

\* Getters of a track: an index beyond the list raises, and nothing is answered.
AnswerClips ==
    /\ Obeys("clips")
    /\ LET i == Head(toLive).index
       IN  Answer(IF HasIndex(i) THEN <<Reply("clips", i, TrackAt(i))>> ELSE <<>>)
    /\ UNCHANGED <<liveTracks, scriptVars, muted>>

AnswerMeters ==
    /\ Obeys("meters")
    /\ Answer(<<Reply("meters", NoIndex, {i \in 0..Head(toLive).index - 1 : HasIndex(i)})>>)
    /\ UNCHANGED <<liveTracks, scriptVars, muted>>

\* Variant: the present value is not reported.
AnswerListen_Silent ==
    /\ Obeys("listen")
    /\ LET i == Head(toLive).index
       IN  IF HasIndex(i) THEN StartListen("mute", i) ELSE UNCHANGED <<attached, tables>>
    /\ UNCHANGED <<tracks, registered, toBridge, muted>>

\* start_listen/mute, which reports the present value at once.
AnswerListen ==
    /\ Obeys("listen")
    /\ LET i == Head(toLive).index
       IN  IF HasIndex(i)
           THEN StartListen("mute", i) /\ Answer(<<Reply("mute", i, muted[TrackAt(i)])>>)
           ELSE UNCHANGED <<attached, tables, toBridge>>
    /\ UNCHANGED <<tracks, registered, muted>>

\* The callbacks attached to a track report a change, each under its own index.
MuteReports(t, value) ==
    {[n \in 1..Cardinality(ReportedAs(t, "mute")) |-> Reply("mute", order[n], value)] :
        order \in {o \in [1..Cardinality(ReportedAs(t, "mute")) -> ReportedAs(t, "mute")] : Distinct(o)}}

Mutes(t, value) ==
    /\ muted' = [muted EXCEPT ![t] = value]
    /\ IF muted[t] = value
       THEN UNCHANGED toBridge
       ELSE \E reports \in MuteReports(t, value) : Answer(reports)
    /\ UNCHANGED <<liveTracks, scriptVars>>

ObeyMute(kind, value) ==
    /\ Obeys(kind)
    /\ IF HasIndex(Head(toLive).index)
       THEN Mutes(TrackAt(Head(toLive).index), value)
       ELSE UNCHANGED <<liveTracks, scriptVars, toBridge, muted>>

\* Other listening requests: an exception (no such index, or a parameter's callback of
\* another object) ends them without effect.
ListenValue(kind, prop) ==
    /\ Obeys(kind)
    /\ LET i == Head(toLive).index
       IN  IF HasIndex(i) /\ GoesOn(prop, i)
           THEN StartValueListen(prop, i) ELSE UNCHANGED <<attached, tables>>
    /\ UNCHANGED <<tracks, registered, toBridge, muted>>

StopValue(kind, prop) ==
    /\ Obeys(kind)
    /\ LET i == Head(toLive).index
       IN  IF HasIndex(i) /\ GoesOn(prop, i)
           THEN StopValueListen(prop, i) ELSE UNCHANGED <<attached, tables>>
    /\ UNCHANGED <<tracks, registered, toBridge, muted>>

\* The mixer's volume, and the parameter of a device.
ListenVolume == ListenValue("listen volume", "volume")
StopVolume == StopValue("stop volume", "volume")
ListenParameter == ListenValue("listen parameter", "parameter")
StopParameter == StopValue("stop parameter", "parameter")

StopMute ==
    /\ Obeys("stop")
    /\ LET i == Head(toLive).index
       IN  IF HasIndex(i) THEN StopListen("mute", i) ELSE UNCHANGED <<attached, tables>>
    /\ UNCHANGED <<tracks, registered, toBridge, muted>>

\* reload_imports: clear_api drops the handlers first and then stops the listeners; if
\* that raises, init_api is not called.
Reload ==
    /\ Obeys("reload")
    /\ ClearListeners
    /\ registered' = AllHaveObjects(Key)
    /\ UNCHANGED <<tracks, toBridge, muted>>

\* Without handlers, "Unknown OSC address".
NotUnderstood ==
    /\ ~registered /\ toLive # <<>> /\ toLive' = Tail(toLive)
    /\ UNCHANGED <<liveTracks, scriptVars, toBridge, muted>>

LiveObeys ==
    /\ \/ AnswerNames
       \/ /\ \/ AnswerListen
             \/ AnswerClips \/ AnswerMeters
             \/ ListenVolume \/ StopVolume
             \/ ListenParameter \/ StopParameter \/ StopMute
             \/ Reload \/ NotUnderstood
             \/ ObeyMute("set mute", TRUE)
             \/ ObeyMute("set unmute", FALSE)
          /\ UNCHANGED listed
    /\ UNCHANGED <<trackVars, cueVars, meters, hasty, events>>

\* Somebody at the computer.
Event == events < MaxEvents /\ events' = events + 1

EditTracks ==
    /\ Event
    /\ \E list \in TrackList : TracksEdited(list)
    /\ hasty' = (hasty \/ OnItsWay(toBridge, "names") \/ OnItsWay(toLive, "clips"))
    /\ listed' = FALSE
    /\ UNCHANGED <<registered, trackVars, cueVars, meters, toLive, toBridge, muted>>

MuteByHand(t) ==
    /\ Event
    /\ InList(t, tracks) /\ Mutes(t, ~muted[t])
    /\ UNCHANGED <<trackVars, cueVars, meters, toLive, hasty, listed>>

\* The requests in the closed socket are lost.
Restart ==
    /\ Event
    /\ ScriptRestarts /\ registered' = TRUE
    /\ toLive' = <<>>
    /\ hasty' = (hasty \/ OnItsWay(toLive, "clips"))
    /\ UNCHANGED <<trackVars, cueVars, meters, toBridge, muted, listed>>

\* Another OSC client of the script.
OtherClient(kind, i) ==
    /\ Event
    /\ Ask(<<Request(kind, i)>>)
    /\ UNCHANGED <<liveTracks, scriptVars, trackVars, cueVars, meters, toBridge, muted, hasty, listed>>

-----------------------------------------------------------------------------
BridgeHandles == HandleTrackNames \/ HandleTrackMute \/ HandleCueClipNames \/ HandleTrackMeter

Next ==
    \/ FetchTracks \/ PollMeters
    \/ \E i \in Index, value \in BOOLEAN : SetTrackMute(i, value)
    \/ BridgeHandles \/ LiveObeys
    \/ \E i \in Index : \/ OtherClient("listen volume", i) \/ OtherClient("stop volume", i)
                        \/ OtherClient("listen parameter", i) \/ OtherClient("stop parameter", i)
                        \/ OtherClient("stop", i)
    \/ OtherClient("reload", NoIndex)
    \/ EditTracks \/ Restart \/ \E t \in Track : MuteByHand(t)

Spec == Init /\ [][Next]_vars

\* The two poll tasks, the event loop and Live's timer go on.
Fairness ==
    /\ WF_vars(FetchTracks) /\ WF_vars(PollMeters)
    /\ WF_vars(BridgeHandles) /\ WF_vars(LiveObeys)

FairSpec == Spec /\ Fairness

-----------------------------------------------------------------------------
(* Properties *)

TypeOK ==
    /\ ListenersTypeOK
    /\ names \in TrackList /\ mutes \in [DOMAIN names -> BOOLEAN]
    /\ cueIndex \in Index \cup {NoIndex}
    /\ clipMap \in Track \cup {NoTrack}
    /\ meters \subseteq Index
    /\ muted \in [Track -> BOOLEAN]
    /\ registered \in BOOLEAN

\* A reload leaves the script without handlers only over a listener for the value of a
\* mixer's or a device's parameter, made without an entry in listener_objects (track.py,
\* device.py) and still kept; whatever else is listened to, it gets through
\* (_clear_listeners, clear_api, reload_imports).
DeafOverValuesOnly ==
    ~registered => \E prop \in ValueProperty, i \in Index : functions[<<prop, i>>] # NoTrack

Quiet == toLive = <<>> /\ toBridge = <<>>
MutesRight == names = tracks /\ \A n \in DOMAIN names : mutes[n] = muted[names[n]]

\* The list shown is Live's present one, as far as nothing is still on its way, and the
\* script answers.
Settled == Quiet /\ listed /\ registered

\* The listener kept for each index is that of the track there.
Listening == \A i \in Index : HasIndex(i) => functions[<<"mute", i>>] = TrackAt(i)

\* No track reports under another's index.
OwnCallbacksOnly ==
    \A i \in Index : HasIndex(i) => ReportedAs(TrackAt(i), "mute") \subseteq {i}

\* When nothing is on its way, the mute switches shown are those in Live, provided each
\* track is listened to and reports under its own index only: a set mute, a mute by hand,
\* the listing of the tracks, and what other clients ask of the listeners may cross in any
\* way (_handle_track_names, _handle_track_mute).
MutesTrue == Settled /\ Listening /\ OwnCallbacksOnly => MutesRight

\* ... and also when tracks were moved, once the listeners have been set up again for
\* the new list: "Subscribe to live mute updates for every track. The first
\* notification gives us the real initial state; subsequent ones fire on any change."
\* (bridge/ableton.py)
MutesFollowLive == Settled /\ Listening => MutesRight

\* The mute switches come right in the end, whatever was moved, muted, restarted or
\* reloaded, as long as the script answers:
\* each listing of the tracks listens again, which reports the present value.
MutesSettle == <>[](registered => MutesRight)

\* The clip names held in the end are those of the Cue Clips track, at its present
\* index, unless tracks moved or the script restarted between the
\* listing that showed the index and the answer to the request for the names
\* (_handle_track_names, _handle_cue_clip_names): nothing asks again.
ClipMapSettles ==
    <>[](~registered \/ hasty \/ (cueIndex = CueIndexIn(tracks) /\ (cueIndex # NoIndex => clipMap = CueTrack)))

\* In the end every track has its meter.
MetersSettle == <>[](registered => meters = Positions(tracks))
=============================================================================
