\* Two callers, one guide track with a clip and one without; the timeouts are short.
SPECIFICATION FairSpec
CONSTANTS
    Caller = {route, task}
    NoCaller = NoCaller
    Track = {guide, empty}
    TrackWithClip = {guide}
    NoClip = NoClip
    AbletonTimeout = 3
    CallTimeout = 2
    MaxLost = 1
    MaxOutages = 1
    MaxEvents = 2
INVARIANTS
    GoneIsTold
    NoFalseAlarm
    AnswerIsOwn
PROPERTIES
    ConnectedSettles
    PlayingSettles
    CallsSettle
