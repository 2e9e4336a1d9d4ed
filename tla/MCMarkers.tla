----------------------------- MODULE MCMarkers -----------------------------
(***************************************************************************)
(* The parser against reference definitions, for every list of up to       *)
(* MaxCues cue points made one at a time, in any order of positions, as    *)
(* Ableton may report it; and the handlers that make cue points, applied   *)
(* to every such list that is shorter than MaxCues.                        *)
(***************************************************************************)
EXTENDS CueMarkers

CONSTANTS
    header, start, loop, verse, chorus, fresh,
    MaxCues,      \* bound: length of the list when it is next changed
    MaxPosition   \* bound: last half beat of the timeline

ASSUME MarkersAssumption ==
    {header, start, loop, verse, chorus} \subseteq Name /\ MaxCues \in Nat /\ MaxPosition \in Nat

Even(S) == {p \in S : p % 2 = 0}
SomeCue == [name : {header, start, loop, verse}, position : Even(0..MaxPosition)]

\* Clips on a track do not overlap.
SomeClips == {<<Cue(verse, 2)>>, <<Cue(header, 0), Cue(chorus, 4)>>}

Said(name, t) == [name |-> name, time |-> t]
\* Apart; a repetition, and a word that names no section; and right at the start.
SomeSpeech ==
    {<<Said(verse, 3), Said(chorus, 6)>>,
     <<Said(verse, 2), Said(NoName, 3), Said(verse, 3), Said(verse, 5)>>,
     <<Said(verse, 1), Said(chorus, 6)>>}

Init == cues = <<>> /\ position \in 0..MaxPosition /\ tempo \in Tempo /\ asked = Nothing

Next ==
    /\ Len(cues) < MaxCues
    /\ \/ \E c \in SomeCue : AddMarker(c)
       \/ \E clips \in SomeClips : GenerateCuesFromTrack(clips)
       \/ \E speech \in SomeSpeech, bpm \in Tempo, from \in {0, 3} : ApplyAnalysis(header, bpm, from, speech)
       \/ \E speech \in SomeSpeech, bpm \in Tempo : AnalyzeGuideTrack(bpm, speech)

Spec == Init /\ [][Next]_vars

-----------------------------------------------------------------------------
\* Every cue point has a name and a place on the timeline, whatever made it.
TypeOK ==
    /\ cues \in Seq([name : Name, position : Nat])
    /\ position \in Nat /\ tempo \in Nat
    /\ asked = Nothing \/ asked.sections # <<>>

Songs == ParseMarkers(ReadCues(CuesReply(cues)))
SectionIds == {id \in (DOMAIN Songs) \X (DOMAIN cues) : id[2] \in DOMAIN Songs[id[1]].sections}
SectionAt(id) == Songs[id[1]].sections[id[2]]
Before(a, b) == a[1] < b[1] \/ (a[1] = b[1] /\ a[2] < b[2])

\* Every jump lands where the tapped section starts: its cue_index is the index,
\* in Live's own list, of a cue point at that position (parse_markers).
CueIndexLands ==
    \A id \in SectionIds :
        /\ SectionAt(id).cue_index \in 0..Len(cues) - 1
        /\ cues[SectionAt(id).cue_index + 1].position = SectionAt(id).position

\* No cue point is lost: the sections are as many as the cue points that do not
\* come before the first song, and they are in the order of the timeline.
NothingLost ==
    LET starts == {i \in DOMAIN cues : cues[i].name \in SongHeader \cup SongStart}
        early == {i \in DOMAIN cues : \A j \in starts : SortsBefore(cues, i, j)}
    IN  /\ Cardinality(SectionIds) = Cardinality(DOMAIN cues \ early)
        /\ Len(Songs) = Cardinality(starts)
        /\ \A a, b \in SectionIds :
               Before(a, b) => SectionAt(a).position <= SectionAt(b).position

\* A section's length reaches to the next section and no further, song or not, so
\* that a Loop section's region holds that section (_annotate_section_lengths).
SectionsTile ==
    \A a \in SectionIds :
        LET later == {b \in SectionIds : Before(a, b)}
            ends == SectionAt(a).position + SectionAt(a).length
        IN  IF later = {} THEN SectionAt(a).length = None
            ELSE /\ \E b \in later : SectionAt(b).position = ends
                 /\ \A b \in later : SectionAt(b).position >= ends

\* The current section is the last one of the whole set that has begun
\* (find_current_indices, which searches song by song).
CurrentIsLatest ==
    LET begun == {id \in SectionIds : SectionAt(id).position <= position}
    IN  FindCurrentIndices(Songs, position) =
            IF begun = {} THEN NoIndices
            ELSE LET last == CHOOSE id \in begun : \A b \in begun \ {id} : Before(b, id)
                 IN  <<last[1] - 1, last[2] - 1>>

-----------------------------------------------------------------------------
\* Where a section is spoken, on Live's timeline.
Spoken(request, i) == request.sections[i].time * request.bpm + request.start

\* The beat between two sections that are told apart.
Apart(request) ==
    \A i, j \in DOMAIN request.sections :
        i # j => Spoken(request, i) - Spoken(request, j) \notin -2..2

\* Every section has a cue point of its name within half a beat of where it is
\* spoken, there are no others, and the tempo is set.
Marked(request) ==
    /\ tempo = request.bpm /\ Len(cues) = Len(request.sections)
    /\ \A i \in DOMAIN request.sections :
           \E k \in DOMAIN cues : /\ cues[k].name = request.sections[i].name
                                  /\ cues[k].position - Spoken(request, i) \in -1..1

\* Applying an analysis leaves exactly the markers of its sections, whatever Live had
\* before, if its sections are more than a beat apart (song_replace_all_cues: "Deletes
\* every existing cue. Creates each new cue and immediately names it").
SectionsMarked == asked # Nothing /\ Apart(asked) => Marked(asked)

\* ... and also if two of them round to the same beat.
EverySectionMarked == asked # Nothing => Marked(asked)

\* Generating cue points names one after every clip and leaves those "at OTHER
\* positions ... untouched", in their places in the list, so that indices the devices
\* know stay good (song_generate_cues_from_track).
OthersUntouched ==
    [][\A clips \in SomeClips : GenerateCuesFromTrack(clips) =>
          /\ \A n \in DOMAIN clips : Cue(clips[n].name, clips[n].position) \in {cues'[i] : i \in DOMAIN cues'}
          /\ \A i \in DOMAIN cues :
                /\ i \in DOMAIN cues' /\ cues'[i].position = cues[i].position
                /\ (\A n \in DOMAIN clips : clips[n].position # cues[i].position) => cues'[i] = cues[i]
       ]_vars
=============================================================================
