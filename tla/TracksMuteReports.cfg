\* Two tracks trade places, and one of them is muted by hand.
SPECIFICATION FairSpec
CONSTANTS
    cueClips = cueClips
    drums = drums
    Track <- BothTracks
    NoTrack = NoTrack
    GoneTrack = GoneTrack
    Property = {"mute", "volume", "parameter"}
    ValueProperty = {"volume", "parameter"}
    DeviceProperty = {"parameter"}
    CueTrack = cueClips
    MaxEvents = 2
INVARIANTS
    MutesFollowLive
