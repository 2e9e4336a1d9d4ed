------------------------------ MODULE Markers ------------------------------
(***************************************************************************)
(* bridge/parser.py: cue points (Ableton's locators) become songs with     *)
(* sections, and a playback position becomes a (song, section) pair.       *)
(* Names are abstract: all that matters is which of them match the song    *)
(* header pattern, the start keywords and the loop keyword.                *)
(***************************************************************************)
EXTENDS Integers, Sequences, FiniteSets, FiniteSetsExt

CONSTANTS
    Name,             \* cue names, stripped
    SongHeader,       \* those like "== Amazing Grace =="
    SongStart,        \* those like "Start"
    StartName,        \* "Start", which a header's own section is called
    LoopName          \* those that are "Loop"

ASSUME NameAssumption ==
    /\ SongHeader \cup SongStart \cup LoopName \subseteq Name
    /\ SongHeader \cap SongStart = {}
    /\ StartName \in SongStart
    /\ LoopName \cap (SongHeader \cup SongStart) = {}

None == -1   \* Python's None, where a length is expected

-----------------------------------------------------------------------------
(* parse_markers *)

\* The sort key of the cue at index i: position, headers first; sorted() is stable.
SortsBefore(cues, i, j) ==
    LET rank(k) == IF cues[k].name \in SongHeader THEN 0 ELSE 1
        p == cues[i].position
        q == cues[j].position
    IN  \/ p < q
        \/ p = q /\ rank(i) < rank(j)
        \/ p = q /\ rank(i) = rank(j) /\ i < j

\* The indices of cues in sorted order.
SortedIndices(cues) ==
    [k \in DOMAIN cues |->
        CHOOSE i \in DOMAIN cues :
            Cardinality({j \in DOMAIN cues : SortsBefore(cues, j, i)}) = k - 1]

\* Variant: the place in display order instead.
OriginalIndex_InDisplayOrder(cues, cue) ==
    LET sorted == SortedIndices(cues)
    IN  Max({k \in DOMAIN cues : cues[sorted[k]] = cue}) - 1

\* original_index: the last of the equal cues wins; Ableton counts from 0.
OriginalIndex(cues, cue) == Max({i \in DOMAIN cues : cues[i] = cue}) - 1

NewSection(cues, cue, loops) ==
    [name      |-> IF cue.name \in SongHeader THEN StartName ELSE cue.name,
     position  |-> cue.position,
     cue_index |-> OriginalIndex(cues, cue),
     is_loop   |-> loops]

\* Variant: only a header opens a song.
AddCue_HeadersOnly(cues, songs, cue) ==
    CASE cue.name \in SongHeader ->
            Append(songs, [position |-> cue.position, sections |-> <<NewSection(cues, cue, FALSE)>>])
      [] cue.name \notin SongHeader /\ songs # <<>> ->
            [songs EXCEPT ![Len(songs)].sections =
                Append(@, NewSection(cues, cue, cue.name \in LoopName))]
      [] OTHER -> songs

\* What one more cue adds to the songs so far; a section before any song is dropped.
AddCue(cues, songs, cue) ==
    CASE cue.name \in SongHeader \cup SongStart ->
            Append(songs, [position |-> cue.position, sections |-> <<NewSection(cues, cue, FALSE)>>])
      [] cue.name \notin SongHeader \cup SongStart /\ songs # <<>> ->
            [songs EXCEPT ![Len(songs)].sections =
                Append(@, NewSection(cues, cue, cue.name \in LoopName))]
      [] OTHER -> songs

\* Variant: a song's last section runs to the end of the set.
NextPosition_WithinSong(songs, s, k) ==
    IF k < Len(songs[s].sections) THEN songs[s].sections[k + 1].position ELSE None

\* Where the section after section k of song s starts, across songs.
NextPosition(songs, s, k) ==
    CASE k < Len(songs[s].sections) -> songs[s].sections[k + 1].position
      [] k = Len(songs[s].sections) /\ s < Len(songs) -> songs[s + 1].sections[1].position
      [] OTHER -> None

LengthOf(songs, s, k) ==
    LET next == NextPosition(songs, s, k)
    IN  IF next = None THEN None ELSE next - songs[s].sections[k].position

AnnotateSectionLengths(songs) ==
    [s \in DOMAIN songs |->
        [position |-> songs[s].position,
         sections |-> [k \in DOMAIN songs[s].sections |->
            LET this == songs[s].sections[k] IN
            [name      |-> this.name,
             position  |-> this.position,
             cue_index |-> this.cue_index,
             is_loop   |-> this.is_loop,
             length    |-> LengthOf(songs, s, k)]]]]

\* The songs after each of the sorted cues: SongsAfter(cues)[k] is what the first k make.
SongsAfter(cues) ==
    LET sorted == SortedIndices(cues)
        songs[k \in 0..Len(cues)] ==
            IF k = 0 THEN <<>> ELSE AddCue(cues, songs[k - 1], cues[sorted[k]])
    IN  songs

ParseMarkers(cues) == AnnotateSectionLengths(SongsAfter(cues)[Len(cues)])

-----------------------------------------------------------------------------
(* find_current_indices: Python's indices count from 0, and -1 is "none" *)

NoIndices == <<-1, -1>>

\* Variant: the first song that has begun is taken for the current one.
FindCurrentIndices_FirstSong(songs, p) ==
    LET begun == {s \in DOMAIN songs : p >= songs[s].position}
        s == Min(begun)
        passed(k) == \A j \in 1..k : p >= songs[s].sections[j].position
    IN  IF begun = {} THEN NoIndices
        ELSE <<s - 1, Max({k \in 0..Len(songs[s].sections) : passed(k)}) - 1>>

\* The last song that has begun, and its sections up to the first that has not.
FindCurrentIndices(songs, p) ==
    LET begun == {s \in DOMAIN songs : p >= songs[s].position}
        s == Max(begun)
        passed(k) == \A j \in 1..k : p >= songs[s].sections[j].position
    IN  IF begun = {} THEN NoIndices
        ELSE <<s - 1, Max({k \in 0..Len(songs[s].sections) : passed(k)}) - 1>>
=============================================================================
