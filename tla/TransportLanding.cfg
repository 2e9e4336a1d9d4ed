\* A second tap before the bar line at which the first one lands.
SPECIFICATION Spec
CONSTANTS
    header = header
    start = start
    loops = loops
    verse = verse
    pickup = pickup
    Name = {header, start, loops, verse, pickup}
    SongHeader = {header}
    SongStart = {start}
    StartName = start
    LoopName = {loops}
    ClipName = {pickup}
    CueLists <- OneSet
    SentIndex = {0, 1, 2}
    BeatsPerBar = 2
    ReloadJump = 3
    MaxBeat = 8
    MaxEvents = 2
    MaxCommands = 3
    Controllers = 1
CHECK_DEADLOCK FALSE
PROPERTIES
    LandsOnLastTap
