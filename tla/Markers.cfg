\* Every list of up to three cue points out of four kinds and three positions, and
\* the markers of three guide tracks at two tempos.
SPECIFICATION Spec
CONSTANTS
    header = header
    start = start
    loop = loop
    verse = verse
    chorus = chorus
    fresh = fresh
    Name = {header, start, loop, verse, chorus, fresh}
    SongHeader = {header}
    SongStart = {start}
    StartName = start
    LoopName = {loop}
    NewName = fresh
    NoName = NoName
    Tempo = {1, 2}
    Repeats = 2
    MaxCues = 3
    MaxPosition = 5
CHECK_DEADLOCK FALSE
INVARIANTS
    CueIndexLands
    NothingLost
    SectionsTile
    CurrentIsLatest
    SectionsMarked
PROPERTIES
    OthersUntouched
