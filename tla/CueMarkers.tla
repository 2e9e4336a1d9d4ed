----------------------------- MODULE CueMarkers -----------------------------
(***************************************************************************)
(* How Ableton's cue points come to be made, and how they reach the        *)
(* parser: the two handlers of AbletonOSC's song.py that make them, from   *)
(* the clips of a track or from the analysis of a guide track, what        *)
(* bridge/analyzer.py and analyze_guide.command send, and the list of cue  *)
(* points as the bridge reads it.                                          *)
(*                                                                         *)
(* Positions are in half beats, so that a time can fall between two beats; *)
(* a tempo is in half beats per unit of time.  Live has one switch for cue *)
(* points: pressed where there is none it makes one, pressed where there   *)
(* is one it deletes it.                                                   *)
(***************************************************************************)
EXTENDS Markers, SequencesExt

CONSTANTS
    NewName,      \* what Live calls a new cue point
    NoName,       \* what the guide says when it names no section
    Tempo,        \* tempos a track may be found to have
    Repeats       \* a section named again within this time is the same one

ASSUME CueAssumption == NewName \in Name /\ NoName \notin Name /\ Tempo \subseteq Nat

VARIABLES
    cues,         \* Live's cue points, in the order in which it reports them
    position,     \* the playhead
    tempo,
    asked         \* history: the sections Live was last asked to mark, if it was the last step

vars == <<cues, position, tempo, asked>>

Nothing == [sections |-> <<>>]   \* no request

Cue(name, p) == [name |-> name, position |-> p]
At(list, p) == {i \in DOMAIN list : list[i].position = p}
Within(list, p, d) == {i \in DOMAIN list : list[i].position - p \in -d..d}
Rename(list, i, name) == [list EXCEPT ![i].name = name]

\* Live's switch, pressed with the playhead at p.
SetOrDeleteCue(list, p) ==
    IF At(list, p) = {} THEN Append(list, Cue(NewName, p)) ELSE RemoveAt(list, Min(At(list, p)))

-----------------------------------------------------------------------------
(* Cue points from the clips of a track *)

\* Variant: presses the switch at every clip.
GenerateCue_Always(list, clip) ==
    LET toggled == SetOrDeleteCue(list, clip.position)
    IN  IF At(toggled, clip.position) = {} THEN toggled
        ELSE Rename(toggled, Max(At(toggled, clip.position)), clip.name)

\* A cue point at the clip is renamed; otherwise one is made.  Of two at one position
\* the later one is the one in the map.
GenerateCue(list, clip) ==
    LET made == IF At(list, clip.position) = {} THEN SetOrDeleteCue(list, clip.position) ELSE list
    IN  Rename(made, Max(At(made, clip.position)), clip.name)

\* The list after each of the clips.
GeneratedUpTo(list, clips) ==
    LET made[n \in 0..Len(clips)] == IF n = 0 THEN list ELSE GenerateCue(made[n - 1], clips[n])
    IN  made

GenerateCues(list, clips) == GeneratedUpTo(list, clips)[Len(clips)]

-----------------------------------------------------------------------------
(* Cue points from an analysis *)

Number(n) == [number |-> n]
Word(name) == [word |-> name]
IsNumber(arg) == "number" \in DOMAIN arg

\* transcribe_sections: what the guide says, without repetitions.
Hear(sections, said) ==
    IF \/ said.name = NoName
       \/ \E i \in DOMAIN sections : /\ sections[i].name = said.name
                                     /\ sections[i].time - said.time \in -(Repeats - 1)..Repeats - 1
    THEN sections ELSE Append(sections, said)

HeardUpTo(speech) ==
    LET heard[n \in 0..Len(speech)] == IF n = 0 THEN <<>> ELSE Hear(heard[n - 1], speech[n])
    IN  heard

Transcribe(speech) == HeardUpTo(speech)[Len(speech)]

\* What analyze_guide.command sends: the song's header first, at the start.
WithHeader(header, sections) == <<[name |-> header, time |-> 0]>> \o sections

Flat(sections) ==
    [k \in 1..2 * Len(sections) |->
        IF k % 2 = 1 THEN Word(sections[(k + 1) \div 2].name) ELSE Number(sections[k \div 2].time)]
Analysis(bpm, start, sections) == <<Number(bpm), Number(start)>> \o Flat(sections)

\* What analyze_guide_track sends to the same handler: beats, after a word of its own.
TempoWord == Word("__tempo__")
GuideCues(bpm, sections) ==
    LET inBeats == [i \in DOMAIN sections |->
                       [name |-> sections[i].name, time |-> sections[i].time * bpm]]
    IN  <<TempoWord, Number(bpm)>> \o Flat(inBeats)

\* Python's round: to the nearest beat, halfway to the even one.
NearestBeat(t) == IF t % 2 = 0 \/ (t \div 2) % 2 = 0 THEN 2 * (t \div 2) ELSE 2 * (t \div 2) + 2

\* The pairs of a name and a time; others are skipped.
Pairs(params) ==
    LET pair(k) == [name |-> params[2 * k + 1].word, time |-> params[2 * k + 2].number]
        good == {k \in 1..(Len(params) \div 2) - 1 : IsNumber(params[2 * k + 2])}
    IN  [n \in 1..Cardinality(good) |-> pair(CHOOSE k \in good : Cardinality({j \in good : j < k}) = n - 1)]

Understood(params) ==
    Len(params) >= 2 /\ IsNumber(params[1]) /\ IsNumber(params[2]) /\ Pairs(params) # <<>>

\* Variant: walks down the list it is shortening, and misses every other cue point.
DeleteAll_EveryOther(list) ==
    LET delete(l, i) == SetOrDeleteCue(l, list[i].position)
    IN  FoldLeft(delete, list, SelectSeq([i \in DOMAIN list |-> i], LAMBDA i : i % 2 = 1))

LeftAfter(list) ==
    LET left[n \in 0..Len(list)] ==
            IF n = 0 THEN list ELSE SetOrDeleteCue(left[n - 1], list[n].position)
    IN  left

DeleteAll(list) == LeftAfter(list)[Len(list)]

\* One cue point is made and named.
PlaceCue(list, name, beat) ==
    LET toggled == SetOrDeleteCue(list, beat)
    IN  IF Within(toggled, beat, 0) = {} THEN toggled
        ELSE Rename(toggled, Min(Within(toggled, beat, 0)), name)

BeatOf(params, pair) == NearestBeat(pair.time * params[1].number) + params[2].number

\* Every cue point is deleted; then what is there after each of the pairs.
PlacedUpTo(list, params) ==
    LET pairs == Pairs(params)
        placed[n \in 0..Len(pairs)] ==
            IF n = 0 THEN DeleteAll(list)
            ELSE PlaceCue(placed[n - 1], pairs[n].name, BeatOf(params, pairs[n]))
    IN  placed

ReplaceAllCues(list, params) ==
    IF Understood(params) THEN PlacedUpTo(list, params)[Len(Pairs(params))] ELSE list

-----------------------------------------------------------------------------
(* What the bridge reads *)

\* song_get_cue_points: names and times in turn.
CuesReply(list) ==
    [k \in 1..2 * Len(list) |->
        IF k % 2 = 1 THEN Word(list[(k + 1) \div 2].name) ELSE Number(list[k \div 2].position)]

\* _handle_cue_points, after each of the arguments: the cue points so far, and the name
\* that waits for its time.  What should be a time and is not is taken for the next name.
ReadUpTo(args) ==
    LET read(r, arg) ==
            CASE r.name # NoName /\ IsNumber(arg) ->
                    [cues |-> Append(r.cues, Cue(r.name, arg.number)), name |-> NoName]
              [] ~IsNumber(arg) -> [r EXCEPT !.name = arg.word]
              [] OTHER -> r
        got[k \in 0..Len(args)] ==
            IF k = 0 THEN [cues |-> <<>>, name |-> NoName] ELSE read(got[k - 1], args[k])
    IN  got

ReadCues(args) == ReadUpTo(args)[Len(args)].cues

-----------------------------------------------------------------------------
(* The steps: each is one message, which Live deals with in one go *)

GenerateCuesFromTrack(clips) ==
    /\ cues' = GenerateCues(cues, clips)
    /\ asked' = Nothing
    /\ UNCHANGED <<position, tempo>>

Replace(params, request) ==
    /\ cues' = ReplaceAllCues(cues, params)
    /\ tempo' = IF Understood(params) THEN params[1].number ELSE tempo
    /\ asked' = request
    /\ UNCHANGED position

\* The script and the route /apply_analysis.
ApplyAnalysis(header, bpm, start, speech) ==
    LET sections == WithHeader(header, Transcribe(speech))
    IN  /\ Transcribe(speech) # <<>>
        /\ Replace(Analysis(bpm, start, sections),
                   [sections |-> sections, bpm |-> bpm, start |-> start])

\* A device's analyze_guide message.
AnalyzeGuideTrack(bpm, speech) ==
    /\ Transcribe(speech) # <<>>
    /\ Replace(GuideCues(bpm, Transcribe(speech)), Nothing)

\* Somebody at the computer makes a cue point.
AddMarker(cue) == cues' = Append(cues, cue) /\ asked' = Nothing /\ UNCHANGED <<position, tempo>>
=============================================================================
