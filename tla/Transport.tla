----------------------------- MODULE Transport -----------------------------
(***************************************************************************)
(* Jumping about the set: _handle_jump and the stop message of             *)
(* bridge/server.py, the cue cache, position tracking, queued jump and     *)
(* Cue Clip retarget of bridge/ableton.py, and Ableton Live at the other   *)
(* end of the OSC socket, which is modelled from how the bridge uses it.   *)
(*                                                                         *)
(* A jump's handler changes the state, waits while jump_queued goes out to *)
(* every device, and only then schedules the retarget or sends the jump.   *)
(* Positions are whole beats: Live reports its position many times a beat, *)
(* so the bridge has always heard of a beat before the next one.  Position *)
(* messages to the devices are left out.                                   *)
(***************************************************************************)
EXTENDS Markers

CONSTANTS
    CueLists,      \* the cue points Live may hold, in Live's order
    SentIndex,     \* the indices devices send; -1 when they leave one out
    ClipName,      \* names that have a clip on the Cue Clips track
    BeatsPerBar,
    ReloadJump,    \* a jump back by more beats than this means a new set (8)
    MaxBeat,       \* bound: the last beat of the timeline, whose last bar repeats
    MaxEvents,     \* bound: jumps asked for, and changes by hand of markers or playhead
    MaxCommands,   \* bound: messages on their way to Live
    Controllers    \* how many devices come to be primary while a jump is handled

ASSUME BarAssumption == BeatsPerBar \in Nat \ {0} /\ MaxBeat % BeatsPerBar = 0

VARIABLES
    \* AppState
    position, songs,
    current,        \* <<current_song_index, current_section_index>>
    queued,         \* <<queued_song_index, queued_section_index>>
    launchBeat,     \* queued_launch_beat
    \* AbletonBridge
    lastRawCues,    \* _last_raw_cues
    retarget,       \* _pending_retarget_beat and _pending_retarget_target
    \* handlers of the server
    jumps,          \* _handle_jump calls waiting for their broadcast
    \* Live and the messages to and from it
    toLive, replies,
    cues, playhead, playing, cueJump, loop,
    \* history and bounds
    lastTap,        \* the section last asked for
    cancelled,      \* playback was stopped since then
    taps, edits

bridgeVars == <<position, songs, current, lastRawCues>>
jumpVars == <<queued, launchBeat, retarget>>
liveVars == <<cues, playhead, playing, cueJump, loop>>
tapVars == <<lastTap, cancelled, taps>>
vars == <<bridgeVars, jumpVars, jumps, toLive, replies, liveVars, tapVars, edits>>

Beat == 0..MaxBeat
NoBeat == -1
NoRetarget == [beat |-> NoBeat, target |-> NoBeat]
NoLoop == [from |-> NoBeat, length |-> 0]
NoTap == [position |-> NoBeat]

\* parse_markers, as a table.
SongsOf == [raw \in CueLists \cup {<<>>} |-> ParseMarkers(raw)]

Init ==
    /\ cues \in CueLists
    /\ position = 0 /\ songs = <<>> /\ current = NoIndices
    /\ queued = NoIndices /\ launchBeat = NoBeat
    /\ lastRawCues = <<>>
    /\ retarget = NoRetarget
    /\ jumps = {} /\ toLive = <<>> /\ replies = <<>>
    /\ playhead = 0 /\ playing = FALSE /\ cueJump = NoBeat /\ loop = NoLoop
    /\ lastTap = NoTap /\ cancelled = FALSE
    /\ taps = 0 /\ edits = 0

-----------------------------------------------------------------------------
(* The devices' messages *)

Command(kind, arg) == [kind |-> kind, arg |-> arg]
Tell(cmds) == Len(toLive) + Len(cmds) <= MaxCommands /\ toLive' = toLive \o cmds

\* A list takes negative indices too: -1 is its last element.
Indices(s) == -Len(s)..Len(s) - 1
At(s, i) == s[(i % Len(s)) + 1]

\* A handler waits while its broadcast goes out; other devices' handlers do not.
HandlerFree == Cardinality(jumps) < Controllers

\* The region set_loop_region binds, or none for disable_loop.
LoopRegion(section) ==
    IF section.is_loop /\ section.length > 0
    THEN [from |-> section.position, length |-> section.length]
    ELSE NoLoop

\* Variant: the old region stays bound.
LoopCommand_NeverReleases(section) ==
    IF LoopRegion(section) = NoLoop THEN <<>> ELSE <<Command("loop", LoopRegion(section))>>

LoopCommand(section) == <<Command("loop", LoopRegion(section))>>

\* The next bar line, where Live's launch quantization lands a jump.
LaunchBeat(p) == (p \div BeatsPerBar + 1) * BeatsPerBar

\* _handle_jump up to its broadcast.
Jump(song, sec) ==
    /\ taps + edits < MaxEvents /\ HandlerFree
    /\ position + BeatsPerBar <= MaxBeat
    /\ song \in Indices(songs) /\ sec \in Indices(At(songs, song).sections)
    /\ LET section == At(At(songs, song).sections, sec)
           launch == LaunchBeat(position)
       IN  /\ queued' = <<song, sec>>
           /\ launchBeat' = launch
           /\ Tell(LoopCommand(section))
           /\ jumps' = jumps \cup {[id |-> taps, section |-> section, launch |-> launch]}
           /\ lastTap' = section
    /\ cancelled' = FALSE
    /\ taps' = taps + 1
    /\ UNCHANGED <<bridgeVars, retarget, replies, liveVars, edits>>

FireCueClip(section) == section.name \in ClipName

\* Variant: a marker jump leaves an older retarget pending.
SendJump_KeepsRetarget(j) ==
    /\ j \in jumps
    /\ jumps' = jumps \ {j}
    /\ IF FireCueClip(j.section)
       THEN /\ retarget' = [beat |-> j.launch, target |-> j.section.position + BeatsPerBar]
            /\ UNCHANGED toLive
       ELSE /\ Tell(<<Command("jump", j.section.cue_index)>>)
            /\ UNCHANGED retarget
    /\ UNCHANGED <<bridgeVars, queued, launchBeat, replies, liveVars, tapVars, edits>>

\* _handle_jump after its broadcast.
SendJump(j) ==
    /\ j \in jumps
    /\ jumps' = jumps \ {j}
    /\ IF FireCueClip(j.section)
       THEN /\ retarget' = [beat |-> j.launch, target |-> j.section.position + BeatsPerBar]
            /\ UNCHANGED toLive
       ELSE /\ retarget' = NoRetarget
            /\ Tell(<<Command("jump", j.section.cue_index)>>)
    /\ UNCHANGED <<bridgeVars, queued, launchBeat, replies, liveVars, tapVars, edits>>

\* (When Live plays already, it changes nothing.)
Play ==
    /\ HandlerFree
    /\ ~playing
    /\ Tell(<<Command("play", 0)>>)
    /\ UNCHANGED <<bridgeVars, jumpVars, jumps, replies, liveVars, tapVars, edits>>

Stop ==
    /\ HandlerFree
    /\ Tell(<<Command("stop", 0)>>)
    /\ queued' = NoIndices
    /\ launchBeat' = NoBeat
    /\ retarget' = NoRetarget
    /\ cancelled' = TRUE
    /\ UNCHANGED <<bridgeVars, jumps, replies, liveVars, lastTap, taps, edits>>

-----------------------------------------------------------------------------
(* What the bridge hears from Live *)

\* Variant: the list is taken for unchanged when it is as long as before.
CuesUnchanged_SameLength(raw) == Len(raw) = Len(lastRawCues)

\* Variant: the songs stay when the list is as long as before.
TakeCues_SameLength(raw) ==
    /\ lastRawCues' = raw
    /\ songs' = IF Len(raw) = Len(lastRawCues) THEN songs ELSE SongsOf[raw]
    /\ current' = FindCurrentIndices(songs', position)

CuesUnchanged(raw) == raw = lastRawCues

\* Variant: the indices are left for the next beat to correct.
TakeCues_LeavesIndices(raw) ==
    /\ lastRawCues' = raw
    /\ songs' = SongsOf[raw]
    /\ UNCHANGED current

TakeCues(raw) ==
    /\ lastRawCues' = raw
    /\ songs' = SongsOf[raw]
    /\ current' = FindCurrentIndices(songs', position)

HandleCuePoints ==
    /\ replies # <<>>
    /\ replies' = Tail(replies)
    /\ IF CuesUnchanged(Head(replies))
       THEN UNCHANGED <<lastRawCues, songs, current>>
       ELSE TakeCues(Head(replies))
    /\ UNCHANGED <<position, jumpVars, jumps, toLive, liveVars, tapVars, edits>>

Landed(indices) == queued[1] # -1 /\ indices = queued

\* A position report: on every beat, on every tick while Live plays, or polled.
HandleBeat ==
    /\ position' = playhead
    /\ lastRawCues' = IF playhead < position - ReloadJump THEN <<>> ELSE lastRawCues
    /\ IF retarget # NoRetarget /\ playhead >= retarget.beat
       THEN retarget' = NoRetarget /\ Tell(<<Command("seek", retarget.target)>>)
       ELSE UNCHANGED <<retarget, toLive>>
    /\ current' = FindCurrentIndices(songs, playhead)
    /\ IF Landed(current')
       THEN queued' = NoIndices /\ launchBeat' = NoBeat
       ELSE UNCHANGED <<queued, launchBeat>>
    /\ UNCHANGED <<songs, jumps, replies, liveVars, tapVars, edits>>

\* The poll of once a second, or a refresh, and Live's answer to it.
PollCuePoints ==
    /\ replies = <<>>
    /\ replies' = <<cues>>
    /\ UNCHANGED <<bridgeVars, jumpVars, jumps, toLive, liveVars, tapVars, edits>>

\* The end of generate_cues_from_track, analyze_guide_track or apply_analysis: Live
\* has replaced its cue points, or had nothing to put in their place.
CuesReplaced ==
    /\ taps + edits < MaxEvents /\ edits' = edits + 1
    /\ cues' \in (CueLists \ {<<>>}) \cup {cues}
    /\ lastRawCues' = <<>>
    /\ replies' = Append(replies, cues')
    /\ UNCHANGED <<position, songs, current, jumpVars, jumps, toLive, playhead, playing,
                   cueJump, loop, tapVars>>

-----------------------------------------------------------------------------
(* Live *)

\* Live takes the messages in the order they were sent.  A cue jump waits for the
\* next bar when Live plays; a stop drops it.
LiveObeys ==
    /\ toLive # <<>>
    /\ toLive' = Tail(toLive)
    /\ LET cmd == Head(toLive) IN
       \/ cmd.kind = "play" /\ playing' = TRUE /\ UNCHANGED <<playhead, cueJump, loop>>
       \/ cmd.kind = "stop" /\ playing' = FALSE /\ cueJump' = NoBeat /\ UNCHANGED <<playhead, loop>>
       \/ cmd.kind = "loop" /\ loop' = cmd.arg /\ UNCHANGED <<playhead, playing, cueJump>>
       \/ cmd.kind = "seek" /\ playhead' = cmd.arg /\ UNCHANGED <<playing, cueJump, loop>>
       \/ /\ cmd.kind = "jump" /\ cmd.arg + 1 \in DOMAIN cues /\ playing
          /\ cueJump' = cues[cmd.arg + 1].position
          /\ UNCHANGED <<playhead, playing, loop>>
       \/ /\ cmd.kind = "jump" /\ cmd.arg + 1 \in DOMAIN cues /\ ~playing
          /\ playhead' = cues[cmd.arg + 1].position
          /\ UNCHANGED <<playing, cueJump, loop>>
       \/ /\ cmd.kind = "jump" /\ cmd.arg + 1 \notin DOMAIN cues
          /\ UNCHANGED <<playhead, playing, cueJump, loop>>
    /\ UNCHANGED <<bridgeVars, jumpVars, jumps, replies, cues, tapVars, edits>>

NextBeat ==
    CASE loop # NoLoop /\ playhead + 1 = loop.from + loop.length -> loop.from
      [] ~(loop # NoLoop /\ playhead + 1 = loop.from + loop.length) /\ playhead = MaxBeat
            -> MaxBeat - BeatsPerBar + 1
      [] OTHER -> playhead + 1

AtBar == (playhead + 1) % BeatsPerBar = 0
LandsJump == playing /\ cueJump # NoBeat /\ AtBar

\* Live reads its messages several times a beat, and reports each beat.
LivePlays ==
    /\ playing /\ toLive = <<>> /\ position = playhead
    /\ playhead' = IF LandsJump THEN cueJump ELSE NextBeat
    /\ cueJump' = IF LandsJump THEN NoBeat ELSE cueJump
    /\ UNCHANGED <<bridgeVars, jumpVars, jumps, toLive, replies, cues, playing, loop, tapVars, edits>>

\* Somebody at the computer edits the markers, loads a set, or clicks in the timeline.
LiveEdited ==
    /\ taps + edits < MaxEvents /\ edits' = edits + 1
    /\ \/ cues' \in CueLists /\ UNCHANGED playhead
       \/ playhead' \in Beat /\ position = playhead /\ UNCHANGED cues
    /\ UNCHANGED <<bridgeVars, jumpVars, jumps, toLive, replies, playing, cueJump, loop, tapVars>>

-----------------------------------------------------------------------------
Next ==
    \/ \E song, sec \in SentIndex : Jump(song, sec)
    \/ \E j \in jumps : SendJump(j)
    \/ Play \/ Stop
    \/ HandleCuePoints \/ HandleBeat \/ PollCuePoints \/ CuesReplaced
    \/ LiveObeys \/ LivePlays \/ LiveEdited

Spec == Init /\ [][Next]_vars

\* Only HandleCuePoints takes a reply, so that fairness of the one is fairness of
\* the other; whether this one is enabled is quick to tell.
TakeReply == replies # <<>> /\ replies' = Tail(replies)

\* The poll task, the event loop and Live go on; broadcasts end.
Fairness ==
    /\ WF_vars(PollCuePoints)
    /\ WF_replies(TakeReply)
    /\ WF_vars(HandleBeat)
    /\ WF_vars(LiveObeys)
    /\ WF_vars(LivePlays)
    /\ WF_vars(\E j \in jumps : SendJump(j))

FairSpec == Spec /\ Fairness

-----------------------------------------------------------------------------
(* Properties *)

\* While the cache stands, the songs are those of the cached cue points: skipping a
\* reply as unchanged (_handle_cue_points) never leaves other songs in place.
SongsAreOfCache == lastRawCues # <<>> => songs = SongsOf[lastRawCues]

\* The current song and section are those of the known position among the known
\* songs, whichever of the two changed last (_handle_cue_points, _handle_beat).
IndicesCurrent == current = FindCurrentIndices(songs, position)

\* A pending Cue Clip retarget is the last tap's own, and gone once playback was
\* stopped (clear_pending_retarget).
RetargetIsLastTaps ==
    retarget # NoRetarget /\ jumps = {} =>
        /\ ~cancelled
        /\ FireCueClip(lastTap) /\ retarget.target = lastTap.position + BeatsPerBar

\* Once every tap has reached Live, its playhead only jumps to the section last
\* tapped: the newest tap replaces the ones before it, Cue Clip or not.
LandsOnLastTap ==
    [][LandsJump /\ LivePlays /\ jumps = {} => playhead' = lastTap.position]_vars

\* Live's cue points reach the bridge once they stop changing, unless there are none:
\* a cleared cache looks like an empty list.
SongsCatchUp == <>[](cues = <<>> \/ songs = SongsOf[cues])

\* A queued jump is over in the end, as long as Live plays and nobody edits at the
\* computer ("cleared by AbletonBridge._handle_beat once the section actually lands
\* there").
QueueSettles ==
    (queued # NoIndices /\ edits = 0) ~> (queued = NoIndices \/ ~playing \/ edits # 0)
=============================================================================
