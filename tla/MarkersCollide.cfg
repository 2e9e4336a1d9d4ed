\* Sections spoken less than a beat apart.
SPECIFICATION Spec
CONSTANTS
    header = header
    start = start
    loop = loop
    verse = verse
    chorus = chorus
    fresh = fresh
    Name = {header, start, loop, verse, chorus, fresh}
    SongHeader = {header}
    SongStart = {start}
    StartName = start
    LoopName = {loop}
    NewName = fresh
    NoName = NoName
    Tempo = {1, 2}
    Repeats = 2
    MaxCues = 3
    MaxPosition = 5
CHECK_DEADLOCK FALSE
INVARIANT EverySectionMarked
