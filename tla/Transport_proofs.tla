-------------------------- MODULE Transport_proofs --------------------------
(***************************************************************************)
(* Proofs about Transport for any markers, clips, bars and bounds.         *)
(***************************************************************************)
EXTENDS Transport, FiniteSetTheorems, TLAPS

-----------------------------------------------------------------------------
(* The cue cache and the current section *)

\* The steps that leave cache, songs, position and current section alone.
LEMMA BridgeUntouched ==
    ASSUME bridgeVars' = bridgeVars
    PROVE  /\ SongsAreOfCache => SongsAreOfCache'
           /\ IndicesCurrent => IndicesCurrent'
BY DEF bridgeVars, SongsAreOfCache, IndicesCurrent

\* Every other step but the two handlers of Live's reports is one of them.
LEMMA BridgeSteps ==
    ASSUME [Next]_vars, ~HandleCuePoints, ~HandleBeat
    PROVE  bridgeVars' = bridgeVars \/ CuesReplaced
<1>1. ASSUME NEW song \in SentIndex, NEW sec \in SentIndex, Jump(song, sec)
      PROVE  bridgeVars' = bridgeVars
  BY <1>1, Zenon DEF Jump
<1>2. ASSUME NEW j \in jumps, SendJump(j) PROVE bridgeVars' = bridgeVars
  BY <1>2, Zenon DEF SendJump
<1>3. CASE Play BY <1>3, Zenon DEF Play
<1>4. CASE Stop BY <1>4, Zenon DEF Stop
<1>5. CASE PollCuePoints BY <1>5, Zenon DEF PollCuePoints
<1>6. CASE LiveObeys BY <1>6, Zenon DEF LiveObeys
<1>7. CASE LivePlays BY <1>7, Zenon DEF LivePlays
<1>8. CASE LiveEdited BY <1>8, Zenon DEF LiveEdited
<1>9. CASE UNCHANGED vars BY <1>9 DEF vars, bridgeVars
<1> QED BY <1>1, <1>2, <1>3, <1>4, <1>5, <1>6, <1>7, <1>8, <1>9, Zenon DEF Next

\* A reply is skipped only if it is the cached one; a position report and a forced
\* refresh at most empty the cache.
LEMMA CacheStep == SongsAreOfCache /\ [Next]_vars => SongsAreOfCache'
<1> SUFFICES ASSUME SongsAreOfCache, [Next]_vars PROVE SongsAreOfCache'
  OBVIOUS
<1>1. CASE HandleCuePoints
  <2>1. CASE CuesUnchanged(Head(replies))
    BY <1>1, <2>1, Zenon DEF HandleCuePoints, SongsAreOfCache
  <2>2. CASE ~CuesUnchanged(Head(replies))
    BY <1>1, <2>2, Zenon DEF HandleCuePoints, TakeCues, SongsAreOfCache
  <2> QED BY <2>1, <2>2
<1>2. CASE HandleBeat
  <2>1. songs' = songs /\ (lastRawCues' = <<>> \/ lastRawCues' = lastRawCues)
    BY <1>2, Zenon DEF HandleBeat
  <2> QED BY <2>1 DEF SongsAreOfCache
<1>3. CASE CuesReplaced
  BY <1>3, Zenon DEF CuesReplaced, SongsAreOfCache
<1> QED BY <1>1, <1>2, <1>3, BridgeSteps, BridgeUntouched

\* The songs are those of the cue cache whenever there is one (_handle_cue_points).
THEOREM CacheIsTrue == Spec => []SongsAreOfCache
<1>1. Init => SongsAreOfCache
  BY DEF Init, SongsAreOfCache
<1> QED BY <1>1, CacheStep, PTL DEF Spec

\* Both handlers that change the position or the songs look for the section anew.
LEMMA IndicesStep == IndicesCurrent /\ [Next]_vars => IndicesCurrent'
<1> SUFFICES ASSUME IndicesCurrent, [Next]_vars PROVE IndicesCurrent'
  OBVIOUS
<1>1. CASE HandleCuePoints
  <2>1. position' = position
    BY <1>1, Zenon DEF HandleCuePoints
  <2>2. CASE CuesUnchanged(Head(replies))
    <3>1. songs' = songs /\ current' = current
      BY <1>1, <2>2, Zenon DEF HandleCuePoints
    <3> QED BY <2>1, <3>1, Zenon DEF IndicesCurrent
  <2>3. CASE ~CuesUnchanged(Head(replies))
    <3>1. current' = FindCurrentIndices(songs', position)
      BY <1>1, <2>3, Zenon DEF HandleCuePoints, TakeCues
    <3> QED BY <2>1, <3>1, Zenon DEF IndicesCurrent
  <2> QED BY <2>2, <2>3
<1>2. CASE HandleBeat
  <2>1. /\ position' = playhead /\ songs' = songs
        /\ current' = FindCurrentIndices(songs, playhead)
    BY <1>2, Zenon DEF HandleBeat
  <2> QED BY <2>1, Zenon DEF IndicesCurrent
<1>3. CASE CuesReplaced
  <2>1. position' = position /\ songs' = songs /\ current' = current
    BY <1>3, Zenon DEF CuesReplaced
  <2> QED BY <2>1, Zenon DEF IndicesCurrent
<1> QED BY <1>1, <1>2, <1>3, BridgeSteps, BridgeUntouched

\* A position before every song has no current song.
LEMMA NoSongsNoIndices == FindCurrentIndices(<<>>, 0) = NoIndices
BY DEF FindCurrentIndices

\* The current song and section always fit the known songs and position.
THEOREM CurrentIsTrue == Spec => []IndicesCurrent
<1>1. Init => IndicesCurrent
  BY NoSongsNoIndices, Zenon DEF Init, IndicesCurrent
<1> QED BY <1>1, IndicesStep, PTL DEF Spec

-----------------------------------------------------------------------------
(* The Cue Clip retarget, when the devices' jumps are handled one at a time *)

\* The one jump whose handler waits for its broadcast is the last tap's.
WaitingIsLastTap ==
    jumps = {} \/ \E j \in jumps : jumps = {j} /\ j.section = lastTap /\ cancelled = FALSE

RetargetInv == WaitingIsLastTap /\ RetargetIsLastTaps

\* With one controller a handler starts only when none is waiting.
LEMMA OneHandler ==
    ASSUME Controllers = 1, WaitingIsLastTap, HandlerFree
    PROVE  jumps = {}
<1>1. ASSUME NEW j, jumps = {j} PROVE FALSE
  <2>1. Cardinality({j}) = 1
    BY FS_Singleton
  <2> QED BY <1>1, <2>1 DEF HandlerFree
<1> QED BY <1>1, Zenon DEF WaitingIsLastTap

\* The steps that neither tap, stop, send a jump nor report a position.
LEMMA RetargetUntouched ==
    ASSUME RetargetInv, UNCHANGED <<jumps, retarget, lastTap, cancelled>>
    PROVE  RetargetInv'
BY Zenon DEF RetargetInv, WaitingIsLastTap, RetargetIsLastTaps, FireCueClip

\* A tap parks the only waiting jump, its second half installs or clears the retarget,
\* a stop clears it, a position report at most fires it.
LEMMA RetargetStep == Controllers = 1 /\ RetargetInv /\ [Next]_vars => RetargetInv'
<1> SUFFICES ASSUME Controllers = 1, RetargetInv, [Next]_vars PROVE RetargetInv'
  OBVIOUS
<1>1. ASSUME NEW song \in SentIndex, NEW sec \in SentIndex, Jump(song, sec)
      PROVE  RetargetInv'
  <2>1. jumps = {}
    BY <1>1, OneHandler, Zenon DEF Jump, RetargetInv
  <2>2. \E j : jumps' = {j} /\ j.section = lastTap' /\ cancelled' = FALSE
    <3> DEFINE section == At(At(songs, song).sections, sec)
               j == [id |-> taps, section |-> section, launch |-> LaunchBeat(position)]
    <3>1. jumps' = jumps \cup {j} /\ lastTap' = section /\ cancelled' = FALSE
      BY <1>1, Zenon DEF Jump
    <3>2. j.section = section
      OBVIOUS
    <3> HIDE DEF j, section
    <3> QED BY <2>1, <3>1, <3>2
  <2> QED BY <2>2, Zenon DEF RetargetInv, WaitingIsLastTap, RetargetIsLastTaps
<1>2. ASSUME NEW j \in jumps, SendJump(j) PROVE RetargetInv'
  <2>1. jumps = {j} /\ j.section = lastTap /\ cancelled = FALSE
    BY <1>2, Zenon DEF RetargetInv, WaitingIsLastTap
  <2>2. jumps' = {} /\ lastTap' = lastTap /\ cancelled' = cancelled
    BY <1>2, <2>1 DEF SendJump, tapVars
  <2>3. CASE FireCueClip(j.section)
    <3>1. retarget' = [beat |-> j.launch, target |-> lastTap.position + BeatsPerBar]
      BY <1>2, <2>1, <2>3, Zenon DEF SendJump
    <3>2. retarget'.target = lastTap'.position + BeatsPerBar
      BY <3>1, <2>2
    <3> QED BY <2>1, <2>2, <2>3, <3>2, Zenon
        DEF RetargetInv, WaitingIsLastTap, RetargetIsLastTaps, FireCueClip
  <2>4. CASE ~FireCueClip(j.section)
    <3>1. retarget' = NoRetarget
      BY <1>2, <2>4, Zenon DEF SendJump
    <3>2. NoRetarget' = NoRetarget
      BY DEF NoRetarget, NoBeat
    <3> QED BY <2>2, <3>1, <3>2, Zenon DEF RetargetInv, WaitingIsLastTap, RetargetIsLastTaps
  <2> QED BY <2>3, <2>4
<1>3. CASE Stop
  <2>1. jumps = {} /\ jumps' = jumps /\ retarget' = NoRetarget
    BY <1>3, OneHandler, Zenon DEF Stop, RetargetInv
  <2> QED BY <2>1, Zenon DEF RetargetInv, WaitingIsLastTap, RetargetIsLastTaps
<1>4. CASE HandleBeat
  <2>1. /\ jumps' = jumps /\ lastTap' = lastTap /\ cancelled' = cancelled
        /\ retarget' = retarget \/ retarget' = NoRetarget
    BY <1>4, Zenon DEF HandleBeat, tapVars
  <2> QED BY <2>1, Zenon
      DEF RetargetInv, WaitingIsLastTap, RetargetIsLastTaps, FireCueClip
<1>5. CASE Play \/ HandleCuePoints \/ PollCuePoints
  BY <1>5, RetargetUntouched DEF Play, HandleCuePoints, PollCuePoints, jumpVars, tapVars
<1>6. CASE CuesReplaced \/ LivePlays \/ LiveEdited
  BY <1>6, RetargetUntouched DEF CuesReplaced, LivePlays, LiveEdited, jumpVars, tapVars
<1>7. CASE LiveObeys
  BY <1>7, RetargetUntouched DEF LiveObeys, jumpVars, tapVars
<1>8. CASE UNCHANGED vars
  BY <1>8, RetargetUntouched DEF vars, jumpVars, tapVars
<1> QED BY <1>1, <1>2, <1>3, <1>4, <1>5, <1>6, <1>7, <1>8, Zenon DEF Next

\* With one device at a time in control of the handlers, a pending retarget is always
\* the last tap's own, and none survives a stop.
THEOREM RetargetIsTrue == Controllers = 1 /\ Spec => []RetargetIsLastTaps
<1> SUFFICES ASSUME Controllers = 1 PROVE Spec => []RetargetIsLastTaps
  OBVIOUS
<1>1. Init => RetargetInv
  BY DEF Init, RetargetInv, WaitingIsLastTap, RetargetIsLastTaps
<1>2. RetargetInv /\ [Next]_vars => RetargetInv'
  BY RetargetStep
<1>3. RetargetInv => RetargetIsLastTaps
  BY DEF RetargetInv
<1> QED BY <1>1, <1>2, <1>3, PTL DEF Spec
=============================================================================
