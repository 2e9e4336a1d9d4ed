\* Two tracks, which come and go, trade places and are muted; two events.
SPECIFICATION FairSpec
CONSTANTS
    cueClips = cueClips
    drums = drums
    Track <- BothTracks
    NoTrack = NoTrack
    GoneTrack = GoneTrack
    Property = {"mute", "volume", "parameter"}
    ValueProperty = {"volume", "parameter"}
    DeviceProperty = {"parameter"}
    CueTrack = cueClips
    MaxEvents = 2
INVARIANTS
    TablesAgree
    DeafOverValuesOnly
    MutesTrue
PROPERTIES
    MutesSettle
    ClipMapSettles
    MetersSettle
