\* Two taps, or a tap and a change by hand at the computer, or two changes; one
\* primary at a time.
SPECIFICATION FairSpec
CONSTANTS
    header = header
    start = start
    loops = loops
    verse = verse
    pickup = pickup
    Name = {header, start, loops, verse, pickup}
    SongHeader = {header}
    SongStart = {start}
    StartName = start
    LoopName = {loops}
    ClipName = {pickup}
    CueLists <- TwoSets
    SentIndex = {0, 1, 2}
    BeatsPerBar = 2
    ReloadJump = 3
    MaxBeat = 8
    MaxEvents = 2
    MaxCommands = 2
    Controllers = 1
CHECK_DEADLOCK FALSE
INVARIANTS
    SongsAreOfCache
    IndicesCurrent
    RetargetIsLastTaps
PROPERTIES
    SongsCatchUp
    QueueSettles
