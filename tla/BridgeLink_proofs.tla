------------------------- MODULE BridgeLink_proofs -------------------------
(***************************************************************************)
(* Proofs about BridgeLink for any callers, guide tracks, timeouts and     *)
(* bounds.                                                                 *)
(***************************************************************************)
EXTENDS BridgeLink, TLAPS

-----------------------------------------------------------------------------
(* Types *)

NetKinds == {"listen", "is_playing", "path", "play", "stop"}
ToLive == [kind : NetKinds, what : Track \cup {NoClip}]
ToBridge == [kind : {"is_playing"}, what : BOOLEAN] \cup [kind : {"path"}, what : Track \cup {NoClip}]

NoCalls == {[stage |-> "none"]}
Calls == NoCalls \cup [stage : {"waits", "answered"}, track : Track, left : 0..CallTimeout,
                       got : Track \cup {NoClip}, alone : BOOLEAN]

LinkType ==
    /\ running \in BOOLEAN /\ livePlaying \in BOOLEAN
    /\ isPlaying \in BOOLEAN
    /\ silence \in 0..AbletonTimeout
    /\ pendingPath \in Caller \cup {NoCaller}
    /\ calls \in [Caller -> Calls]
    /\ toLive \in Seq(ToLive) /\ toBridge \in Seq(ToBridge)
    /\ lost \in Nat

\* The datagrams in a queue.
Carried(queue) == {queue[n] : n \in DOMAIN queue}

\* One datagram more.
LEMMA CarriedAppend ==
    ASSUME NEW S, NEW q \in Seq(S), NEW d \in S
    PROVE  Append(q, d) \in Seq(S) /\ Carried(Append(q, d)) = Carried(q) \cup {d}
<1>1. /\ Append(q, d) \in Seq(S) /\ Len(Append(q, d)) = Len(q) + 1
      /\ Append(q, d)[Len(q) + 1] = d /\ \A n \in 1..Len(q) : Append(q, d)[n] = q[n]
  OBVIOUS
<1>2. Carried(Append(q, d)) \subseteq Carried(q) \cup {d}
  BY <1>1 DEF Carried
<1>3. Carried(q) \subseteq Carried(Append(q, d))
  BY <1>1 DEF Carried
<1>4. d \in Carried(Append(q, d))
  BY <1>1 DEF Carried
<1> QED BY <1>1, <1>2, <1>3, <1>4

\* Two queues, one after the other.
LEMMA CarriedConcat ==
    ASSUME NEW S, NEW q \in Seq(S), NEW r \in Seq(S)
    PROVE  q \o r \in Seq(S) /\ Carried(q \o r) = Carried(q) \cup Carried(r)
<1>1. Carried(q \o r) \subseteq Carried(q) \cup Carried(r)
  BY DEF Carried
<1>2. Carried(q) \subseteq Carried(q \o r)
  BY DEF Carried
<1>3. Carried(r) \subseteq Carried(q \o r)
  <2>1. SUFFICES ASSUME NEW n \in DOMAIN r PROVE r[n] \in Carried(q \o r)
    BY DEF Carried
  <2>2. Len(q) + n \in DOMAIN (q \o r) /\ (q \o r)[Len(q) + n] = r[n]
    BY <2>1
  <2> QED BY <2>2 DEF Carried
<1> QED BY <1>1, <1>2, <1>3

\* The first datagram and the rest.
LEMMA CarriedTail ==
    ASSUME NEW S, NEW q \in Seq(S), q # <<>>
    PROVE  /\ Tail(q) \in Seq(S) /\ Head(q) \in S
           /\ Carried(q) = Carried(Tail(q)) \cup {Head(q)}
<1>1. Carried(Tail(q)) \subseteq Carried(q)
  BY DEF Carried
<1>2. Head(q) \in Carried(q) /\ Head(q) \in S
  BY DEF Carried
<1>3. Carried(q) \subseteq Carried(Tail(q)) \cup {Head(q)}
  <2>1. SUFFICES ASSUME NEW n \in DOMAIN q, n # 1 PROVE q[n] \in Carried(Tail(q))
    BY DEF Carried
  <2>2. n - 1 \in DOMAIN Tail(q) /\ Tail(q)[n - 1] = q[n]
    BY <2>1
  <2> QED BY <2>2 DEF Carried
<1>4. Tail(q) \in Seq(S)
  OBVIOUS
<1> QED BY <1>1, <1>2, <1>3, <1>4

\* A datagram of a kind is on its way if one of those carried is of that kind.
LEMMA OnItsWayCarried ==
    ASSUME NEW q, NEW kind
    PROVE  OnItsWay(q, kind) <=> \E d \in Carried(q) : d.kind = kind
BY DEF OnItsWay, Carried

-----------------------------------------------------------------------------
(* Every variable keeps to its type *)

\* Requests reach a Live that runs.
LEMMA AskType ==
    ASSUME LinkType, NEW requests \in Seq(ToLive), Ask(requests)
    PROVE  /\ toLive' \in Seq(ToLive)
           /\ Carried(toLive') = IF running THEN Carried(toLive) \cup Carried(requests)
                                            ELSE Carried(toLive)
BY CarriedConcat, Zenon DEF LinkType, Ask

\* The requests the bridge makes.
LEMMA RequestTypes ==
    /\ \A kind \in NetKinds : <<Request(kind)>> \in Seq(ToLive)
    /\ \A track \in Track : <<Datagram("path", track)>> \in Seq(ToLive)
    /\ <<Request("listen"), Request("is_playing")>> \in Seq(ToLive)
    /\ <<>> \in Seq(ToLive)
BY DEF Request, Datagram, ToLive, NetKinds

\* What Live tells by itself.
LEMMA TellsType ==
    ASSUME NEW playing \in BOOLEAN
    PROVE  Tells(playing) \in Seq(ToBridge)
<1>1. Datagram("is_playing", playing) \in ToBridge
  BY DEF Datagram, ToBridge
<1> QED BY <1>1 DEF Tells

\* The answer to a request for a path.
LEMMA PathType ==
    ASSUME NEW what \in Track \cup {NoClip}
    PROVE  GuideClipPath(what) \in Track \cup {NoClip}
BY LinkAssumption DEF GuideClipPath

\* What is received is of the type of what was sent.
LEMMA ReceivedType ==
    ASSUME LinkType, NEW kind, Received(kind)
    PROVE  /\ Head(toBridge) \in ToBridge /\ Head(toBridge).kind = kind
           /\ toBridge' \in Seq(ToBridge) /\ silence' = 0
           /\ Carried(toBridge) = Carried(toBridge') \cup {Head(toBridge)}
BY CarriedTail, Zenon DEF LinkType, Received

\* A new call.
LEMMA NewCallType ==
    ASSUME NEW track \in Track
    PROVE  /\ NewCall(track) \in Calls
           /\ NewCall(track).stage = "waits" /\ NewCall(track).track = track
<1> DEFINE free == ~OnItsWay(toLive, "path") /\ ~OnItsWay(toBridge, "path")
                   /\ \A c \in Caller : calls[c] = NoCall
<1>1. free \in BOOLEAN
  BY Zenon
<1>2. NewCall(track) = [stage |-> "waits", track |-> track, left |-> CallTimeout,
                        got |-> NoClip, alone |-> free]
  BY DEF NewCall
<1> HIDE DEF free
<1> QED BY <1>1, <1>2, LinkAssumption DEF Calls

\* A call that waits, and the changes to it.
LEMMA CallTypes ==
    ASSUME LinkType
    PROVE  /\ NoCall \in Calls
           /\ \A c \in Caller : Waits(c) =>
                /\ calls[c].track \in Track /\ calls[c].left \in 0..CallTimeout
                /\ [calls[c] EXCEPT !.alone = FALSE] \in Calls
                /\ calls[c].left > 0 => [calls[c] EXCEPT !.left = @ - 1] \in Calls
                /\ \A what \in Track \cup {NoClip} :
                     [calls[c] EXCEPT !.stage = "answered", !.got = what] \in Calls
<1>1. NoCall \in Calls
  BY DEF NoCall, Calls, NoCalls
<1>2. ASSUME NEW c \in Caller, Waits(c)
      PROVE  /\ calls[c].track \in Track /\ calls[c].left \in 0..CallTimeout
             /\ [calls[c] EXCEPT !.alone = FALSE] \in Calls
             /\ calls[c].left > 0 => [calls[c] EXCEPT !.left = @ - 1] \in Calls
             /\ \A what \in Track \cup {NoClip} :
                  [calls[c] EXCEPT !.stage = "answered", !.got = what] \in Calls
  <2>1. calls[c] \in [stage : {"waits", "answered"}, track : Track, left : 0..CallTimeout,
                      got : Track \cup {NoClip}, alone : BOOLEAN]
    BY <1>2 DEF LinkType, Waits, Calls, NoCalls
  <2> DEFINE call == calls[c]
  <2>2. call.left \in 0..CallTimeout /\ call.track \in Track
    BY <2>1
  <2>3. [call EXCEPT !.alone = FALSE] \in Calls
    BY <2>1 DEF Calls
  <2>4. ASSUME call.left > 0 PROVE [call EXCEPT !.left = @ - 1] \in Calls
    <3>1. call.left - 1 \in 0..CallTimeout
      BY <2>2, <2>4, LinkAssumption
    <3> HIDE DEF call
    <3> QED BY <2>1, <3>1 DEF Calls, call
  <2>5. \A what \in Track \cup {NoClip} :
           [call EXCEPT !.stage = "answered", !.got = what] \in Calls
    BY <2>1 DEF Calls
  <2> QED BY <2>2, <2>3, <2>4, <2>5
<1> QED BY <1>1, <1>2, Zenon

\* LinkType is kept by every step.
LEMMA LinkTypeStep == LinkType /\ [Next]_vars => LinkType'
<1> SUFFICES ASSUME LinkType, [Next]_vars PROVE LinkType'
  OBVIOUS
<1> USE LinkAssumption
<1>1. CASE Poll
  <2>1. toLive' \in Seq(ToLive)
    <3>1. "is_playing" \in NetKinds
      BY DEF NetKinds
    <3> QED BY <1>1, <3>1, AskType, RequestTypes, Zenon DEF Poll
  <2> QED BY <1>1, <2>1, Zenon DEF Poll, LinkType, liveVars, stateVars, callVars, boundVars
<1>2. CASE Watchdog
  <2>1. isPlaying' \in BOOLEAN
    BY <1>2, Zenon DEF Watchdog
  <2> QED BY <1>2, <2>1, Zenon DEF Watchdog, LinkType, liveVars, callVars, netVars, boundVars
<1>3. CASE Second
  <2>1. silence' \in 0..AbletonTimeout
    BY <1>3 DEF Second, LinkType
  <2>2. calls' \in [Caller -> Calls]
    <3>1. \A c \in Caller : Waits(c) => calls[c].left > 0
      BY <1>3 DEF Second, Waits, NoCall
    <3>2. calls' = [c \in Caller |->
                      IF Waits(c) THEN [calls[c] EXCEPT !.left = @ - 1] ELSE calls[c]]
      BY <1>3, Zenon DEF Second
    <3>3. \A c \in Caller :
             (IF Waits(c) THEN [calls[c] EXCEPT !.left = @ - 1] ELSE calls[c]) \in Calls
      BY <3>1, CallTypes, Zenon DEF LinkType
    <3> QED BY <3>2, <3>3
  <2> QED BY <1>3, <2>1, <2>2, Zenon DEF Second, LinkType, liveVars, netVars, boundVars
<1>4. ASSUME NEW kind \in {"play", "stop"}, Transport(kind) PROVE LinkType'
  <2>1. toLive' \in Seq(ToLive)
    <3>1. kind \in NetKinds
      BY DEF NetKinds
    <3> QED BY <1>4, <3>1, AskType, RequestTypes, Zenon DEF Transport
  <2> QED BY <1>4, <2>1, Zenon DEF Transport, LinkType, liveVars, stateVars, callVars
<1>5. ASSUME NEW c \in Caller, NEW t \in Track, AskClipPath(c, t) PROVE LinkType'
  <2>1. toLive' \in Seq(ToLive)
    BY <1>5, AskType, RequestTypes, Zenon DEF AskClipPath
  <2>2. calls' \in [Caller -> Calls]
    <3>1. calls' = [d \in Caller |->
                    IF d = c THEN NewCall(t)
                    ELSE IF Waits(d) THEN [calls[d] EXCEPT !.alone = FALSE] ELSE calls[d]]
      BY <1>5, Zenon DEF AskClipPath
    <3>2. \A d \in Caller :
            (IF d = c THEN NewCall(t)
             ELSE IF Waits(d) THEN [calls[d] EXCEPT !.alone = FALSE] ELSE calls[d]) \in Calls
      BY NewCallType, CallTypes, Zenon DEF LinkType
    <3> QED BY <3>1, <3>2
  <2>3. pendingPath' \in Caller \cup {NoCaller}
    BY <1>5 DEF AskClipPath
  <2> QED BY <1>5, <2>1, <2>2, <2>3, Zenon DEF AskClipPath, LinkType, liveVars, stateVars
<1>6. ASSUME NEW c \in Caller, Finish(c) \/ TimesOut(c) PROVE LinkType'
  <2>1. calls' = [calls EXCEPT ![c] = NoCall] /\ pendingPath' = NoCaller
        /\ UNCHANGED <<liveVars, stateVars, taskVars, netVars, boundVars>>
    BY <1>6, Zenon DEF Finish, TimesOut
  <2>2. calls' \in [Caller -> Calls]
    BY <2>1, CallTypes DEF LinkType
  <2> QED BY <2>1, <2>2, Zenon DEF LinkType, liveVars, stateVars, netVars, boundVars
<1>7. CASE HandleIsPlaying
  <2>1. /\ Head(toBridge) \in ToBridge /\ Head(toBridge).kind = "is_playing"
        /\ toBridge' \in Seq(ToBridge) /\ silence' = 0
    BY <1>7, ReceivedType, Zenon DEF HandleIsPlaying
  <2>2. Head(toBridge).what \in BOOLEAN
    BY <2>1 DEF ToBridge
  <2>3. isPlaying' \in BOOLEAN
    BY <1>7, <2>2, Zenon DEF HandleIsPlaying
  <2>4. silence' \in 0..AbletonTimeout
    BY <2>1
  <2> QED BY <1>7, <2>1, <2>3, <2>4, Zenon DEF HandleIsPlaying, LinkType, liveVars, callVars, boundVars
<1>8. CASE HandleGuideClipPath
  <2>1. /\ Head(toBridge) \in ToBridge /\ Head(toBridge).kind = "path"
        /\ toBridge' \in Seq(ToBridge) /\ silence' = 0
    BY <1>8, ReceivedType, Zenon DEF HandleGuideClipPath
  <2>2. Head(toBridge).what \in Track \cup {NoClip}
    BY <2>1 DEF ToBridge
  <2>3. calls' \in [Caller -> Calls]
    <3>1. CASE pendingPath # NoCaller /\ Waits(pendingPath)
      <4>1. pendingPath \in Caller
        BY <3>1 DEF LinkType
      <4>2. calls' = [calls EXCEPT ![pendingPath] =
                        [calls[pendingPath] EXCEPT !.stage = "answered", !.got = Head(toBridge).what]]
        BY <1>8, <3>1, <4>1 DEF HandleGuideClipPath, LinkType
      <4>3. [calls[pendingPath] EXCEPT !.stage = "answered", !.got = Head(toBridge).what] \in Calls
        BY <2>2, <3>1, <4>1, CallTypes, Zenon
      <4> QED BY <4>2, <4>3 DEF LinkType
    <3>2. CASE ~(pendingPath # NoCaller /\ Waits(pendingPath))
      BY <1>8, <3>2, Zenon DEF HandleGuideClipPath, LinkType
    <3> QED BY <3>1, <3>2
  <2>4. silence' \in 0..AbletonTimeout
    BY <2>1
  <2> QED BY <1>8, <2>1, <2>3, <2>4, Zenon DEF HandleGuideClipPath, LinkType, liveVars, boundVars
<1>9. CASE LiveAnswers
  <2> DEFINE request == Head(toLive)
  <2>1. request \in ToLive /\ toLive' \in Seq(ToLive)
    BY <1>9, CarriedTail, Zenon DEF LiveAnswers, LinkType
  <2>2. request.what \in Track \cup {NoClip}
    BY <2>1 DEF ToLive
  <2>3. Datagram("is_playing", livePlaying) \in ToBridge
    BY DEF LinkType, Datagram, ToBridge
  <2>4. Datagram("path", GuideClipPath(request.what)) \in ToBridge
    BY <2>2, PathType DEF Datagram, ToBridge
  <2>5. \A d \in ToBridge : Append(toBridge, d) \in Seq(ToBridge)
    BY DEF LinkType
  <2>6. (request.kind = "play") \in BOOLEAN
    BY Zenon
  <2>7. \A q \in Seq(ToBridge) : toBridge \o q \in Seq(ToBridge)
    BY DEF LinkType
  <2>8. livePlaying' \in BOOLEAN
    BY <1>9, <2>6, Zenon DEF LiveAnswers, LinkType, request
  <2>9. toBridge' \in Seq(ToBridge)
    BY <1>9, <2>3, <2>4, <2>5, <2>7, <2>8, TellsType, Zenon DEF LiveAnswers, LinkType
  <2> QED BY <1>9, <2>1, <2>8, <2>9, Zenon DEF LiveAnswers, LinkType, stateVars, callVars, boundVars
<1>10. CASE PlaysOrStops
  <2>1. livePlaying' \in BOOLEAN
    BY <1>10, Zenon DEF PlaysOrStops
  <2>2. \A q \in Seq(ToBridge) : toBridge \o q \in Seq(ToBridge)
    BY DEF LinkType
  <2>3. toBridge' \in Seq(ToBridge)
    BY <1>10, <2>1, <2>2, TellsType, Zenon DEF PlaysOrStops
  <2> QED BY <1>10, <2>1, <2>3, Zenon DEF PlaysOrStops, LinkType, stateVars, callVars
<1>11. CASE LiveQuits
  <2>1. running' = FALSE /\ livePlaying' = FALSE /\ toLive' \in Seq(ToLive)
    BY <1>11, RequestTypes, Zenon DEF LiveQuits
  <2> QED BY <1>11, <2>1, Zenon DEF LiveQuits, LinkType, stateVars, callVars
<1>12. CASE LiveStarts \/ LiveStalls \/ LiveResumes
  BY <1>12, Zenon DEF LiveStarts, LiveStalls, LiveResumes, LinkType, stateVars, callVars,
                      netVars, boundVars
<1>13. CASE Loses
  <2>1. lost' \in Nat
    BY <1>13 DEF Loses, LinkType
  <2>2. toLive' \in Seq(ToLive) /\ toBridge' \in Seq(ToBridge)
    <3>1. toLive # <<>> => Tail(toLive) \in Seq(ToLive)
      BY CarriedTail, Zenon DEF LinkType
    <3>2. toBridge # <<>> => Tail(toBridge) \in Seq(ToBridge)
      BY CarriedTail, Zenon DEF LinkType
    <3> QED BY <1>13, <3>1, <3>2, Zenon DEF Loses, LinkType
  <2> QED BY <1>13, <2>1, <2>2, Zenon DEF Loses, LinkType, liveVars, stateVars, callVars
<1>14. CASE Restart
  <2>1. toLive' \in Seq(ToLive)
    BY <1>14, AskType, RequestTypes, Zenon DEF Restart
  <2>2. calls' \in [Caller -> Calls]
    <3>1. calls' = [c \in Caller |-> NoCall]
      BY <1>14, Zenon DEF Restart
    <3> QED BY <3>1, CallTypes
  <2>3. toBridge' \in Seq(ToBridge)
    BY <1>14 DEF Restart
  <2>4. pendingPath' \in Caller \cup {NoCaller}
    BY <1>14 DEF Restart
  <2>5. silence' \in 0..AbletonTimeout
    BY <1>14 DEF Restart
  <2> QED BY <1>14, <2>1, <2>2, <2>3, <2>4, <2>5, Zenon DEF Restart, LinkType, liveVars
<1>15. CASE UNCHANGED vars
  BY <1>15, Zenon DEF vars, LinkType, liveVars, stateVars, callVars, netVars, boundVars
<1> QED BY <1>1, <1>2, <1>3, <1>4, <1>5, <1>6, <1>7, <1>8, <1>9, <1>10, <1>11, <1>12, <1>13,
           <1>14, <1>15, Zenon DEF Next

\* Nothing has been heard of Live or sent to it at first.
LEMMA LinkTypeInit == Init => LinkType
<1> SUFFICES ASSUME Init PROVE LinkType
  OBVIOUS
<1>1. toLive \in Seq(ToLive) /\ toBridge \in Seq(ToBridge)
  BY RequestTypes DEF Init
<1>2. calls \in [Caller -> Calls]
  BY DEF Init, Calls, NoCalls, NoCall
<1>3. silence \in 0..AbletonTimeout /\ lost \in Nat /\ pendingPath \in Caller \cup {NoCaller}
  BY LinkAssumption DEF Init
<1>4. livePlaying \in BOOLEAN /\ isPlaying \in BOOLEAN /\ running \in BOOLEAN
  BY Zenon DEF Init
<1> QED BY <1>1, <1>2, <1>3, <1>4, Zenon DEF LinkType

-----------------------------------------------------------------------------
(* The alarm is given in time *)

\* What is heard after the alarm, but before the watchdog runs again, may turn the
\* display to playing; the next run finds Live back, unless it has gone once more.
AlarmInv ==
    /\ silence = AbletonTimeout /\ watched => ~connected
    /\ ~connected /\ isPlaying => silence = 0 \/ (silence = 1 /\ ~watched)

\* The steps that neither pass time, hear from Live nor run the watchdog.
LEMMA AlarmKept ==
    ASSUME AlarmInv, UNCHANGED <<silence, watched, connected, isPlaying>>
    PROVE  AlarmInv'
BY Zenon DEF AlarmInv

\* AlarmInv is kept by every step, if the timeout is more than the watchdog's period.
LEMMA AlarmStep ==
    ASSUME AbletonTimeout > 1, LinkType, AlarmInv, [Next]_vars
    PROVE  AlarmInv'
<1> USE LinkAssumption
<1>0. silence \in 0..AbletonTimeout /\ AbletonTimeout # 0 /\ AbletonTimeout # 1
  BY DEF LinkType
<1>1. CASE Watchdog
  <2>1. silence' = silence /\ watched' /\ connected' = ~Silent
        /\ isPlaying' = (isPlaying /\ ~(connected /\ Silent))
    BY <1>1, Zenon DEF Watchdog
  <2>2. Silent <=> silence = AbletonTimeout
    BY <1>0 DEF Silent
  <2>3. silence = 0 \/ silence = 1 => ~Silent
    BY <1>0, <2>2
  <2> QED BY <2>1, <2>2, <2>3, Zenon DEF AlarmInv
<1>2. CASE Second
  <2>1. watched /\ ~watched' /\ connected' = connected /\ isPlaying' = isPlaying
        /\ silence' = (IF silence < AbletonTimeout THEN silence + 1 ELSE silence)
    BY <1>2, Zenon DEF Second
  <2>2. silence = 0 => silence' = 1
    BY <1>0, <2>1
  <2> QED BY <2>1, <2>2, Zenon DEF AlarmInv
<1>3. CASE HandleIsPlaying \/ HandleGuideClipPath
  <2>1. silence' = 0
    BY <1>3, Zenon DEF HandleIsPlaying, HandleGuideClipPath, Received
  <2> QED BY <1>0, <2>1 DEF AlarmInv
<1>4. CASE Restart
  <2>1. connected' /\ ~watched'
    BY <1>4, Zenon DEF Restart
  <2> QED BY <2>1, Zenon DEF AlarmInv
<1>5. CASE Poll \/ LiveAnswers \/ PlaysOrStops \/ LiveQuits \/ LiveStarts \/ LiveStalls
           \/ LiveResumes \/ Loses
  BY <1>5, AlarmKept, Zenon
  DEF Poll, LiveAnswers, PlaysOrStops, LiveQuits, LiveStarts, LiveStalls, LiveResumes, Loses,
      stateVars, taskVars
<1>6. ASSUME NEW kind \in {"play", "stop"}, Transport(kind) PROVE AlarmInv'
  BY <1>6, AlarmKept, Zenon DEF Transport, stateVars, taskVars
<1>7. ASSUME NEW c \in Caller, NEW t \in Track, AskClipPath(c, t) PROVE AlarmInv'
  BY <1>7, AlarmKept, Zenon DEF AskClipPath, stateVars, taskVars
<1>8. ASSUME NEW c \in Caller, Finish(c) \/ TimesOut(c) PROVE AlarmInv'
  BY <1>8, AlarmKept, Zenon DEF Finish, TimesOut, stateVars, taskVars
<1>9. CASE UNCHANGED vars
  BY <1>9, AlarmKept, Zenon DEF vars, stateVars, taskVars
<1> QED BY <1>1, <1>2, <1>3, <1>4, <1>5, <1>6, <1>7, <1>8, <1>9, Zenon DEF Next

\* If Live has been silent for the timeout, the watchdog's run tells the devices, and
\* nothing plays any more (_watchdog).
THEOREM AlarmInTime == AbletonTimeout > 1 /\ Spec => []GoneIsTold
<1> SUFFICES ASSUME AbletonTimeout > 1 PROVE Spec => []GoneIsTold
  OBVIOUS
<1> DEFINE IInv == LinkType /\ AlarmInv
<1>1. Init => IInv
  <2>1. Init => connected /\ ~watched
    BY Zenon DEF Init
  <2> QED BY <2>1, LinkTypeInit, Zenon DEF AlarmInv
<1>2. IInv /\ [Next]_vars => IInv'
  BY LinkTypeStep, AlarmStep, Zenon
<1>3. IInv => GoneIsTold
  <2>1. SUFFICES ASSUME IInv, silence = AbletonTimeout, watched PROVE ~connected /\ ~isPlaying
    BY DEF GoneIsTold
  <2>2. silence # 0 /\ silence # 1
    BY <2>1, LinkAssumption
  <2> QED BY <2>1, <2>2, Zenon DEF AlarmInv
<1> QED BY <1>1, <1>2, <1>3, PTL DEF Spec

-----------------------------------------------------------------------------
(* The alarm is not given without reason *)

\* A poll that is not yet answered is on its way, or its answer is, unless it was lost.
CalmInv ==
    ~trouble => /\ running /\ ~busy
                /\ silence <= 1 + lost
                /\ polled => \/ OnItsWay(toLive, "is_playing") \/ toBridge # <<>>
                             \/ silence <= lost

\* Steps that only send more, or do nothing to the link.
LEMMA CalmKept ==
    ASSUME CalmInv, UNCHANGED <<trouble, running, busy, silence, lost, polled>>,
           OnItsWay(toLive, "is_playing") => OnItsWay(toLive', "is_playing"),
           toBridge # <<>> => toBridge' # <<>>
    PROVE  CalmInv'
BY Zenon DEF CalmInv, OnItsWay

\* CalmInv is kept by every step.
LEMMA CalmStep ==
    ASSUME LinkType, CalmInv, [Next]_vars
    PROVE  CalmInv'
<1> USE LinkAssumption
<1>0. silence \in Nat /\ lost \in Nat
  BY DEF LinkType
<1>1. ASSUME NEW requests \in Seq(ToLive), Ask(requests), OnItsWay(toLive, "is_playing")
      PROVE  OnItsWay(toLive', "is_playing")
  <2>1. Carried(toLive) \subseteq Carried(toLive')
    BY <1>1, AskType
  <2> QED BY <1>1, <2>1, OnItsWayCarried
<1>2. CASE Poll
  <2>1. DEFINE requests == IF OnItsWay(toLive, "is_playing") THEN <<>> ELSE <<Request("is_playing")>>
  <2>2. Ask(requests) /\ polled' /\ UNCHANGED <<trouble, running, busy, silence, lost, toBridge>>
    BY <1>2, Zenon DEF Poll, liveVars, stateVars, boundVars
  <2>3. requests \in Seq(ToLive)
    <3>1. "is_playing" \in NetKinds
      BY DEF NetKinds
    <3> QED BY <3>1, RequestTypes, Zenon
  <2>4. running => OnItsWay(toLive', "is_playing")
    <3>1. CASE OnItsWay(toLive, "is_playing")
      BY <1>1, <2>2, <2>3, <3>1
    <3>2. CASE ~OnItsWay(toLive, "is_playing")
      <4>1. Request("is_playing") \in Carried(requests) /\ Request("is_playing").kind = "is_playing"
        BY <3>2 DEF Carried, Request, Datagram
      <4>2. running => Carried(toLive') = Carried(toLive) \cup Carried(requests)
        BY <2>2, <2>3, AskType
      <4> QED BY <4>1, <4>2, OnItsWayCarried
    <3> QED BY <3>1, <3>2
  <2> HIDE DEF requests
  <2> QED BY <2>2, <2>4, Zenon DEF CalmInv
<1>3. CASE Second
  <2>1. SUFFICES ASSUME ~trouble PROVE running' /\ ~busy' /\ silence' <= 1 + lost' /\ ~polled'
    BY <1>3 DEF Second, CalmInv, boundVars
  <2>2. running /\ ~busy /\ polled /\ toBridge = <<>> /\ toLive = <<>>
    BY <1>3, <2>1, Zenon DEF Second, CalmInv
  <2>3. silence <= lost
    <3>1. ~OnItsWay(toLive, "is_playing")
      BY <2>2 DEF OnItsWay
    <3> QED BY <2>1, <2>2, <3>1, Zenon DEF CalmInv
  <2>4. lost' = lost /\ running' = running /\ busy' = busy /\ ~polled'
        /\ silence' = (IF silence < AbletonTimeout THEN silence + 1 ELSE silence)
    BY <1>3, Zenon DEF Second, liveVars, boundVars
  <2>5. silence' <= 1 + lost'
    BY <1>0, <2>3, <2>4
  <2> QED BY <2>2, <2>4, <2>5, Zenon
<1>4. CASE HandleIsPlaying \/ HandleGuideClipPath
  <2>1. silence' = 0 /\ UNCHANGED <<trouble, running, busy, lost, polled>>
    BY <1>4, Zenon DEF HandleIsPlaying, HandleGuideClipPath, Received, liveVars, taskVars, boundVars
  <2>2. silence' <= 1 + lost' /\ silence' <= lost'
    BY <1>0, <2>1
  <2> QED BY <2>1, <2>2, Zenon DEF CalmInv
<1>5. CASE LiveAnswers
  <2> DEFINE request == Head(toLive)
  <2>1. UNCHANGED <<trouble, running, busy, silence, lost, polled>>
    BY <1>5, Zenon DEF LiveAnswers, stateVars, taskVars, boundVars
  <2>2. toLive # <<>> /\ toLive' = Tail(toLive)
    BY <1>5, Zenon DEF LiveAnswers
  <2>3. \A d : Append(toBridge, d) # <<>>
    BY DEF LinkType
  <2>4. \A playing \in BOOLEAN : toBridge # <<>> => toBridge \o Tells(playing) # <<>>
    BY TellsType DEF LinkType
  <2>5. livePlaying' \in BOOLEAN
    BY <1>5, LinkTypeStep, Zenon DEF LinkType
  <2>6. CASE request.kind \in {"listen", "is_playing", "path"}
    <3>1. toBridge' # <<>>
      BY <1>5, <2>3, <2>6 DEF LiveAnswers
    <3> QED BY <2>1, <3>1, Zenon DEF CalmInv
  <2>7. CASE request.kind \in {"play", "stop"}
    <3>1. toBridge # <<>> => toBridge' # <<>>
      <4>1. toBridge' = toBridge \/ toBridge' = toBridge \o Tells(livePlaying')
        BY <1>5, <2>7 DEF LiveAnswers
      <4> QED BY <2>4, <2>5, <4>1, Zenon
    <3>2. OnItsWay(toLive, "is_playing") => OnItsWay(toLive', "is_playing")
      <4>1. Carried(toLive) = Carried(toLive') \cup {request}
        BY <2>2, CarriedTail, Zenon DEF LinkType
      <4>2. request.kind # "is_playing"
        BY <2>7
      <4> QED BY <4>1, <4>2, OnItsWayCarried, Zenon
    <3> QED BY <2>1, <3>1, <3>2, CalmKept
  <2> QED BY <1>5, <2>6, <2>7, Zenon DEF LiveAnswers
<1>6. CASE Loses
  <2>1. lost' = lost + 1 /\ UNCHANGED <<trouble, running, busy, silence, polled>>
    BY <1>6, Zenon DEF Loses, liveVars, stateVars, taskVars
  <2>2. ~trouble => silence' <= lost' /\ silence' <= 1 + lost'
    BY <1>0, <2>1 DEF CalmInv
  <2> QED BY <2>1, <2>2, Zenon DEF CalmInv
<1>7. CASE Restart
  <2>1. silence' = 0 /\ ~polled' /\ UNCHANGED <<trouble, running, busy, lost>>
    BY <1>7, Zenon DEF Restart, liveVars
  <2>2. silence' <= 1 + lost'
    BY <1>0, <2>1
  <2> QED BY <2>1, <2>2, Zenon DEF CalmInv
<1>8. CASE LiveQuits \/ LiveStalls
  BY <1>8, Zenon DEF LiveQuits, LiveStalls, CalmInv
<1>9. CASE LiveStarts \/ LiveResumes
  <2>1. trouble' = trouble /\ (~running \/ busy)
    BY <1>9, Zenon DEF LiveStarts, LiveResumes, boundVars
  <2> QED BY <2>1, Zenon DEF CalmInv
<1>10. CASE Watchdog
  BY <1>10, CalmKept, Zenon DEF Watchdog, liveVars, netVars, boundVars
<1>11. CASE PlaysOrStops
  <2>1. livePlaying' \in BOOLEAN
    BY <1>11, LinkTypeStep, Zenon DEF LinkType
  <2>2. toBridge # <<>> => toBridge' # <<>>
    <3>1. toBridge' = toBridge \o Tells(livePlaying')
      BY <1>11, Zenon DEF PlaysOrStops
    <3> QED BY <2>1, <3>1, TellsType DEF LinkType
  <2> QED BY <1>11, <2>2, CalmKept, Zenon DEF PlaysOrStops, stateVars, taskVars
<1>12. ASSUME NEW kind \in {"play", "stop"}, Transport(kind) PROVE CalmInv'
  <2>1. kind \in NetKinds
    BY DEF NetKinds
  <2>2. OnItsWay(toLive, "is_playing") => OnItsWay(toLive', "is_playing")
    BY <1>1, <1>12, <2>1, RequestTypes, Zenon DEF Transport
  <2> QED BY <1>12, <2>2, CalmKept, Zenon DEF Transport, liveVars, stateVars, taskVars
<1>13. ASSUME NEW c \in Caller, NEW t \in Track, AskClipPath(c, t) PROVE CalmInv'
  <2>1. OnItsWay(toLive, "is_playing") => OnItsWay(toLive', "is_playing")
    BY <1>1, <1>13, RequestTypes, Zenon DEF AskClipPath
  <2> QED BY <1>13, <2>1, CalmKept, Zenon DEF AskClipPath, liveVars, stateVars, taskVars
<1>14. ASSUME NEW c \in Caller, Finish(c) \/ TimesOut(c) PROVE CalmInv'
  BY <1>14, CalmKept, Zenon DEF Finish, TimesOut, liveVars, stateVars, taskVars, netVars, boundVars
<1>15. CASE UNCHANGED vars
  BY <1>15, CalmKept, Zenon DEF vars, liveVars, stateVars, taskVars, netVars, boundVars
<1> QED BY <1>2, <1>3, <1>4, <1>5, <1>6, <1>7, <1>8, <1>9, <1>10, <1>11, <1>12, <1>13, <1>14,
           <1>15, Zenon DEF Next

\* Trouble and lost datagrams are not forgotten.
LEMMA HistoryGrows == [Next]_vars => (trouble' = TRUE \/ trouble' = trouble) /\ (lost' = lost \/ lost' = lost + 1)
<1> SUFFICES ASSUME [Next]_vars PROVE (trouble' = TRUE \/ trouble' = trouble) /\ (lost' = lost \/ lost' = lost + 1)
  OBVIOUS
<1>1. ASSUME Poll \/ Watchdog \/ Second \/ HandleIsPlaying \/ HandleGuideClipPath
      PROVE  trouble' = trouble /\ lost' = lost
  BY <1>1, Zenon DEF Poll, Watchdog, Second, HandleIsPlaying, HandleGuideClipPath, boundVars
<1>2. ASSUME LiveAnswers \/ PlaysOrStops \/ LiveStarts \/ LiveResumes
      PROVE  trouble' = trouble /\ lost' = lost
  BY <1>2, Zenon DEF LiveAnswers, PlaysOrStops, LiveStarts, LiveResumes, boundVars
<1>3. ASSUME NEW kind, Transport(kind) PROVE trouble' = trouble /\ lost' = lost
  BY <1>3, Zenon DEF Transport
<1>4. ASSUME NEW c, NEW t, AskClipPath(c, t) PROVE trouble' = trouble /\ lost' = lost
  BY <1>4, Zenon DEF AskClipPath
<1>5. ASSUME NEW c, Finish(c) \/ TimesOut(c) PROVE trouble' = trouble /\ lost' = lost
  BY <1>5, Zenon DEF Finish, TimesOut, boundVars
<1>6. ASSUME LiveQuits \/ LiveStalls \/ Loses \/ Restart
      PROVE  (trouble' = TRUE \/ trouble' = trouble) /\ (lost' = lost \/ lost' = lost + 1)
  BY <1>6, Zenon DEF LiveQuits, LiveStalls, Loses, Restart
<1>7. ASSUME UNCHANGED vars PROVE trouble' = trouble /\ lost' = lost
  BY <1>7, Zenon DEF vars, boundVars
<1> QED BY <1>1, <1>2, <1>3, <1>4, <1>5, <1>6, <1>7, Zenon DEF Next

\* The connection is not taken for lost because of one lost datagram, a late poll or a
\* restart of the bridge, if the timeout is three periods of the poll (ABLETON_TIMEOUT).
THEOREM AlarmHasReason == AbletonTimeout > 2 /\ Spec => []NoFalseAlarm
<1> SUFFICES ASSUME AbletonTimeout > 2 PROVE Spec => []NoFalseAlarm
  OBVIOUS
<1> DEFINE IInv == LinkType /\ CalmInv /\ NoFalseAlarm
<1>1. Init => IInv
  <2>1. SUFFICES ASSUME Init PROVE CalmInv /\ NoFalseAlarm
    BY LinkTypeInit
  <2>2. connected /\ ~polled /\ busy = FALSE /\ trouble = ~running
    BY <2>1, Zenon DEF Init
  <2>3. silence <= 1 + lost
    BY <2>1 DEF Init
  <2> QED BY <2>2, <2>3, Zenon DEF CalmInv, NoFalseAlarm
<1>2. LinkType /\ CalmInv /\ [Next]_vars => LinkType' /\ CalmInv'
  BY LinkTypeStep, CalmStep, Zenon
<1>3. ASSUME LinkType, CalmInv, NoFalseAlarm, [Next]_vars PROVE NoFalseAlarm'
  <2>1. lost \in Nat /\ silence \in Nat
    BY <1>3 DEF LinkType
  <2>2. (trouble => trouble') /\ (lost' = lost \/ lost' = lost + 1)
    <3>1. trouble' = TRUE \/ trouble' = trouble
      BY <1>3, HistoryGrows, Zenon
    <3>2. trouble => trouble'
      BY <3>1, Zenon
    <3>3. lost' = lost \/ lost' = lost + 1
      BY <1>3, HistoryGrows, Zenon
    <3> QED BY <3>2, <3>3
  <2>3. lost > 1 => lost' > 1
    BY <2>1, <2>2
  <2>4. CASE Watchdog
    <3>1. connected' = ~Silent /\ trouble' = trouble /\ lost' = lost
      BY <2>4, Zenon DEF Watchdog, boundVars
    <3>2. ~trouble /\ ~(lost > 1) => ~Silent
      BY <1>3, <2>1, LinkAssumption DEF CalmInv, Silent
    <3> QED BY <3>1, <3>2, Zenon DEF NoFalseAlarm
  <2>5. CASE ~Watchdog
    <3>1. connected' = connected \/ connected'
      BY <1>3, <2>5, Zenon DEF Next, vars, stateVars, Poll, Second, Transport, AskClipPath,
         Finish, TimesOut, HandleIsPlaying, HandleGuideClipPath, LiveAnswers, PlaysOrStops,
         LiveQuits, LiveStarts, LiveStalls, LiveResumes, Loses, Restart
    <3> QED BY <1>3, <2>2, <2>3, <3>1, Zenon DEF NoFalseAlarm
  <2> QED BY <2>4, <2>5
<1>4. IInv /\ [Next]_vars => IInv'
  BY <1>2, <1>3, Zenon
<1> QED BY <1>1, <1>4, PTL DEF Spec

-----------------------------------------------------------------------------
(* A caller that asked alone gets its own answer *)

\* What is on its way for a call that nobody disturbed is its own.
Own(c) ==
    /\ calls[c].stage = "answered" /\ calls[c].alone => calls[c].got = GuideClipPath(calls[c].track)
    /\ Waits(c) /\ calls[c].alone =>
         /\ \A d \in Carried(toLive) : d.kind = "path" => d.what = calls[c].track
         /\ \A d \in Carried(toBridge) : d.kind = "path" => d.what = GuideClipPath(calls[c].track)
OwnInv == \A c \in Caller : Own(c)

\* A call that goes on as it was, or is over, or is not alone any more.
GoesOn(c) ==
    Waits(c)' \/ calls'[c].stage = "answered" =>
        \/ calls'[c].alone = FALSE
        \/ /\ calls'[c].stage = calls[c].stage /\ calls'[c].track = calls[c].track
           /\ calls'[c].got = calls[c].got /\ calls'[c].alone = calls[c].alone

\* Steps that send no datagram about a path leave OwnInv as it is.
LEMMA OwnKept ==
    ASSUME OwnInv, \A c \in Caller : GoesOn(c),
           \A d \in Carried(toLive') : d.kind = "path" => d \in Carried(toLive),
           \A d \in Carried(toBridge') : d.kind = "path" => d \in Carried(toBridge)
    PROVE  OwnInv'
<1> SUFFICES ASSUME NEW c \in Caller, calls'[c].alone, Waits(c)' \/ calls'[c].stage = "answered"
             PROVE  Own(c)'
  BY Zenon DEF OwnInv, Own
<1>1. /\ calls'[c].stage = calls[c].stage /\ calls'[c].track = calls[c].track
      /\ calls'[c].got = calls[c].got /\ calls[c].alone
  BY Zenon DEF GoesOn
<1>2. GuideClipPath(calls[c].track)' = GuideClipPath(calls[c].track)
  BY <1>1 DEF GuideClipPath
<1> QED BY <1>1, <1>2, Zenon DEF OwnInv, Own, Waits

\* Calls that are the same, or over, go on.
LEMMA SameGoesOn ==
    ASSUME NEW c, calls'[c] = calls[c] \/ calls'[c] = NoCall
    PROVE  GoesOn(c)
BY DEF GoesOn, Waits, NoCall

\* A request that is not about a path adds none.
LEMMA OtherRequest ==
    ASSUME LinkType, NEW requests \in Seq(ToLive), Ask(requests),
           \A d \in Carried(requests) : d.kind # "path"
    PROVE  \A d \in Carried(toLive') : d.kind = "path" => d \in Carried(toLive)
BY AskType, Zenon

\* The requests of the tasks and of the transport.
LEMMA OtherRequests ==
    /\ \A kind \in NetKinds \ {"path"} : \A d \in Carried(<<Request(kind)>>) : d.kind # "path"
    /\ \A d \in Carried(<<Request("listen"), Request("is_playing")>>) : d.kind # "path"
    /\ \A d \in Carried(<<>>) : d.kind # "path"
BY DEF Carried, Request, Datagram, NetKinds

\* What Live tells by itself is not about a path.
LEMMA TellsNoPath ==
    ASSUME LinkType, NEW playing \in BOOLEAN
    PROVE  /\ toBridge \o Tells(playing) \in Seq(ToBridge)
           /\ \A d \in Carried(toBridge \o Tells(playing)) : d.kind = "path" => d \in Carried(toBridge)
<1>1. Carried(toBridge \o Tells(playing)) = Carried(toBridge) \cup Carried(Tells(playing))
      /\ toBridge \o Tells(playing) \in Seq(ToBridge)
  <2>1. Tells(playing) \in Seq(ToBridge)
    BY TellsType
  <2>2. toBridge \in Seq(ToBridge)
    BY Zenon DEF LinkType
  <2> QED BY <2>1, <2>2, CarriedConcat
<1>2. ASSUME NEW d \in Carried(Tells(playing)) PROVE d.kind # "path"
  <2>1. PICK n \in DOMAIN Tells(playing) : d = Tells(playing)[n]
    BY Zenon DEF Carried
  <2>2. CASE listening
    <3>1. Tells(playing) = <<Datagram("is_playing", playing)>>
      BY <2>2, Zenon DEF Tells
    <3>2. d = Datagram("is_playing", playing)
      BY <2>1, <3>1
    <3> QED BY <3>2 DEF Datagram
  <2>3. CASE ~listening
    <3>1. Tells(playing) = <<>>
      BY <2>3, Zenon DEF Tells
    <3> QED BY <2>1, <3>1
  <2> QED BY <2>2, <2>3
<1> QED BY <1>1, <1>2, Zenon

\* OwnInv is kept by every step.
LEMMA OwnStep ==
    ASSUME LinkType, OwnInv, [Next]_vars
    PROVE  OwnInv'
<1>1. ASSUME UNCHANGED <<calls, toLive, toBridge>> PROVE OwnInv'
  BY <1>1, OwnKept, SameGoesOn, Zenon
<1>2. ASSUME UNCHANGED <<calls, toBridge>>, NEW requests \in Seq(ToLive), Ask(requests),
             \A d \in Carried(requests) : d.kind # "path"
      PROVE  OwnInv'
  BY <1>2, OwnKept, SameGoesOn, OtherRequest, Zenon
<1>3. CASE Poll
  <2> DEFINE requests == IF OnItsWay(toLive, "is_playing") THEN <<>> ELSE <<Request("is_playing")>>
  <2>1. "is_playing" \in NetKinds \ {"path"}
    BY DEF NetKinds
  <2>2. requests \in Seq(ToLive) /\ \A d \in Carried(requests) : d.kind # "path"
    BY <2>1, RequestTypes, OtherRequests, Zenon
  <2>3. Ask(requests) /\ UNCHANGED <<calls, toBridge>>
    BY <1>3, Zenon DEF Poll, callVars
  <2> HIDE DEF requests
  <2> QED BY <1>2, <2>2, <2>3
<1>4. ASSUME NEW kind \in {"play", "stop"}, Transport(kind) PROVE OwnInv'
  <2>1. kind \in NetKinds \ {"path"}
    BY DEF NetKinds
  <2>2. Ask(<<Request(kind)>>) /\ UNCHANGED <<calls, toBridge>>
    BY <1>4, Zenon DEF Transport, callVars
  <2>3. <<Request(kind)>> \in Seq(ToLive) /\ \A d \in Carried(<<Request(kind)>>) : d.kind # "path"
    BY <2>1, RequestTypes, OtherRequests, Zenon
  <2> QED BY <1>2, <2>2, <2>3
<1>5. CASE Watchdog \/ LiveStarts \/ LiveStalls \/ LiveResumes \/ UNCHANGED vars
  BY <1>1, <1>5, Zenon
  DEF Watchdog, LiveStarts, LiveStalls, LiveResumes, vars, callVars, netVars
<1>6. CASE Second
  <2>1. UNCHANGED <<toLive, toBridge>>
    BY <1>6, Zenon DEF Second, netVars
  <2>2. ASSUME NEW c \in Caller PROVE GoesOn(c)
    <3>1. CASE Waits(c)
      <4>1. calls'[c] = [calls[c] EXCEPT !.left = @ - 1]
        BY <1>6, <3>1, Zenon DEF Second
      <4>2. calls[c] \in [stage : {"waits", "answered"}, track : Track, left : 0..CallTimeout,
                          got : Track \cup {NoClip}, alone : BOOLEAN]
        BY <3>1 DEF LinkType, Calls, NoCalls, Waits
      <4> DEFINE call == calls[c]
      <4>3. /\ [call EXCEPT !.left = @ - 1].stage = call.stage
            /\ [call EXCEPT !.left = @ - 1].track = call.track
            /\ [call EXCEPT !.left = @ - 1].got = call.got
            /\ [call EXCEPT !.left = @ - 1].alone = call.alone
        BY <4>2
      <4> QED BY <4>1, <4>3, Zenon DEF GoesOn
    <3>2. CASE ~Waits(c)
      <4>1. calls'[c] = calls[c]
        BY <1>6, <3>2, Zenon DEF Second
      <4> QED BY <4>1, SameGoesOn
    <3> QED BY <3>1, <3>2
  <2> QED BY <2>1, <2>2, OwnKept, Zenon
<1>7. ASSUME NEW c \in Caller, NEW t \in Track, AskClipPath(c, t) PROVE OwnInv'
  <2> DEFINE own == Datagram("path", t)
  <2>1. /\ Ask(<<own>>) /\ toBridge' = toBridge
        /\ calls' = [d \in Caller |->
                      IF d = c THEN NewCall(t)
                      ELSE IF Waits(d) THEN [calls[d] EXCEPT !.alone = FALSE] ELSE calls[d]]
    BY <1>7, Zenon DEF AskClipPath
  <2>2. Carried(<<own>>) = {own} /\ own.kind = "path" /\ own.what = t
    BY DEF Carried, Datagram
  <2>3. \A d \in Carried(toLive') : d \in Carried(toLive) \/ d = own
    BY <2>1, <2>2, AskType, RequestTypes, Zenon
  <2> SUFFICES ASSUME NEW d \in Caller PROVE Own(d)'
    BY Zenon DEF OwnInv
  <2>4. CASE d = c
    <3>1. calls'[d] = NewCall(t)
      BY <2>1, <2>4, Zenon
    <3>2. calls'[d].stage = "waits" /\ calls'[d].track = t
      BY <3>1, NewCallType
    <3>3. calls'[d].alone => ~OnItsWay(toLive, "path") /\ ~OnItsWay(toBridge, "path")
      <4> DEFINE free == ~OnItsWay(toLive, "path") /\ ~OnItsWay(toBridge, "path")
                         /\ \A e \in Caller : calls[e] = NoCall
      <4>1. calls'[d] = [stage |-> "waits", track |-> t, left |-> CallTimeout,
                         got |-> NoClip, alone |-> free]
        BY <3>1 DEF NewCall
      <4>2. calls'[d].alone = free
        <5> HIDE DEF free
        <5> QED BY <4>1
      <4> QED BY <4>2, Zenon
    <3>4. calls'[d].alone => /\ \A e \in Carried(toLive') : e.kind = "path" => e.what = t
                             /\ \A e \in Carried(toBridge') : e.kind # "path"
      BY <2>1, <2>2, <2>3, <3>3, OnItsWayCarried, Zenon
    <3> QED BY <3>2, <3>4 DEF Own
  <2>5. CASE d # c /\ Waits(d)
    <3>1. calls'[d] = [calls[d] EXCEPT !.alone = FALSE]
      BY <2>1, <2>5, Zenon
    <3>2. calls[d] \in [stage : {"waits", "answered"}, track : Track, left : 0..CallTimeout,
                        got : Track \cup {NoClip}, alone : BOOLEAN]
      BY <2>5 DEF LinkType, Calls, NoCalls, Waits
    <3>3. calls'[d].alone = FALSE
      BY <3>1, <3>2
    <3> QED BY <3>3, Zenon DEF Own
  <2>6. CASE d # c /\ ~Waits(d)
    <3>1. calls'[d] = calls[d]
      BY <2>1, <2>6, Zenon
    <3>2. GuideClipPath(calls[d].track)' = GuideClipPath(calls[d].track)
      BY <3>1 DEF GuideClipPath
    <3> QED BY <2>6, <3>1, <3>2, Zenon DEF Own, OwnInv, Waits
  <2> QED BY <2>4, <2>5, <2>6
<1>8. ASSUME NEW c \in Caller, Finish(c) \/ TimesOut(c) PROVE OwnInv'
  <2>1. calls' = [calls EXCEPT ![c] = NoCall] /\ UNCHANGED <<toLive, toBridge>>
    BY <1>8, Zenon DEF Finish, TimesOut, netVars
  <2>2. \A d \in Caller : calls'[d] = calls[d] \/ calls'[d] = NoCall
    BY <2>1 DEF LinkType
  <2> QED BY <2>1, <2>2, OwnKept, SameGoesOn, Zenon
<1>9. CASE HandleIsPlaying
  <2>1. UNCHANGED <<calls, toLive>> /\ Received("is_playing")
    BY <1>9, Zenon DEF HandleIsPlaying, callVars
  <2>2. Carried(toBridge') \subseteq Carried(toBridge)
    BY <2>1, ReceivedType
  <2> QED BY <2>1, <2>2, OwnKept, SameGoesOn, Zenon
<1>10. CASE HandleGuideClipPath
  <2> DEFINE p == pendingPath
             answer == Head(toBridge)
  <2>1. Received("path") /\ toLive' = toLive
    BY <1>10, Zenon DEF HandleGuideClipPath
  <2>2. Carried(toBridge) = Carried(toBridge') \cup {answer} /\ answer.kind = "path"
    BY <2>1, ReceivedType, Zenon
  <2>3. CASE p # NoCaller /\ Waits(p)
    <3>1. p \in Caller
      BY <2>3 DEF LinkType
    <3>2. calls' = [calls EXCEPT ![p] = [calls[p] EXCEPT !.stage = "answered", !.got = answer.what]]
      BY <1>10, <2>3, <3>1 DEF HandleGuideClipPath, LinkType
    <3>3. calls[p] \in [stage : {"waits", "answered"}, track : Track, left : 0..CallTimeout,
                        got : Track \cup {NoClip}, alone : BOOLEAN]
      BY <2>3, <3>1 DEF LinkType, Calls, NoCalls, Waits
    <3>4. calls'[p] = [calls[p] EXCEPT !.stage = "answered", !.got = answer.what]
      BY <3>1, <3>2 DEF LinkType
    <3>5. /\ calls'[p].stage = "answered" /\ calls'[p].got = answer.what
          /\ calls'[p].track = calls[p].track /\ calls'[p].alone = calls[p].alone
      <4> DEFINE call == calls[p]
      <4>1. /\ [call EXCEPT !.stage = "answered", !.got = answer.what].stage = "answered"
            /\ [call EXCEPT !.stage = "answered", !.got = answer.what].got = answer.what
            /\ [call EXCEPT !.stage = "answered", !.got = answer.what].track = call.track
            /\ [call EXCEPT !.stage = "answered", !.got = answer.what].alone = call.alone
        BY <3>3
      <4> QED BY <3>4, <4>1
    <3>6. calls[p].alone => answer.what = GuideClipPath(calls[p].track)
      BY <2>2, <2>3, <3>1, Zenon DEF OwnInv, Own
    <3>7. Own(p)'
      <4>1. GuideClipPath(calls[p].track) = IF calls'[p].track \in TrackWithClip THEN calls'[p].track ELSE NoClip
        BY <3>5 DEF GuideClipPath
      <4>2. calls'[p].alone => calls'[p].got = IF calls'[p].track \in TrackWithClip THEN calls'[p].track ELSE NoClip
        BY <3>5, <3>6, <4>1, Zenon
      <4>3. pendingPath' = pendingPath
        BY <1>10, Zenon DEF HandleGuideClipPath
      <4> QED BY <3>5, <4>2, <4>3 DEF Own, Waits, GuideClipPath
    <3>8. ASSUME NEW c \in Caller, c # p PROVE Own(c)'
      <4>1. calls'[c] = calls[c]
        BY <3>2, <3>8 DEF LinkType
      <4>2. GuideClipPath(calls[c].track)' = GuideClipPath(calls[c].track)
        BY <4>1 DEF GuideClipPath
      <4>3. Own(c)
        BY Zenon DEF OwnInv
      <4> QED BY <2>1, <2>2, <4>1, <4>2, <4>3, Zenon DEF Own, Waits
    <3>9. pendingPath' = pendingPath
      BY <1>10, Zenon DEF HandleGuideClipPath
    <3> QED BY <3>7, <3>8, <3>9, Zenon DEF OwnInv
  <2>4. CASE ~(p # NoCaller /\ Waits(p))
    <3>1. calls' = calls
      BY <1>10, <2>4, Zenon DEF HandleGuideClipPath
    <3> QED BY <2>1, <2>2, <3>1, OwnKept, SameGoesOn, Zenon
  <2> QED BY <2>3, <2>4
<1>11. CASE LiveAnswers
  <2> DEFINE request == Head(toLive)
  <2>1. calls' = calls /\ Carried(toLive) = Carried(toLive') \cup {request} /\ request \in ToLive
    BY <1>11, CarriedTail, Zenon DEF LiveAnswers, LinkType, callVars
  <2>2. livePlaying \in BOOLEAN /\ livePlaying' \in BOOLEAN
    BY <1>11, LinkTypeStep, Zenon DEF LinkType
  <2>3. CASE request.kind = "path"
    <3> DEFINE answer == Datagram("path", GuideClipPath(request.what))
    <3>1. toBridge' = Append(toBridge, answer)
      BY <1>11, <2>3 DEF LiveAnswers
    <3>2. answer \in ToBridge
      <4>1. request.what \in Track \cup {NoClip}
        BY <2>1 DEF ToLive
      <4> QED BY <4>1, PathType DEF Datagram, ToBridge
    <3>3. Carried(toBridge') = Carried(toBridge) \cup {answer}
      <4> HIDE DEF answer
      <4>1. toBridge \in Seq(ToBridge)
        BY DEF LinkType
      <4>2. Carried(Append(toBridge, answer)) = Carried(toBridge) \cup {answer}
        BY <3>2, <4>1, CarriedAppend
      <4> QED BY <3>1, <4>2
    <3>4. answer.what = GuideClipPath(request.what)
      BY DEF Datagram
    <3> SUFFICES ASSUME NEW c \in Caller PROVE Own(c)'
      BY Zenon DEF OwnInv
    <3>5. GuideClipPath(calls[c].track)' = GuideClipPath(calls[c].track)
      BY <2>1 DEF GuideClipPath
    <3>6. Waits(c) /\ calls[c].alone => request.what = calls[c].track
      BY <2>1, <2>3, Zenon DEF OwnInv, Own
    <3>7. Waits(c) /\ calls[c].alone =>
            \A d \in Carried(toBridge') : d.kind = "path" => d.what = GuideClipPath(calls[c].track)
      BY <3>3, <3>4, <3>6, Zenon DEF OwnInv, Own
    <3> QED BY <2>1, <3>5, <3>7, Zenon DEF OwnInv, Own, Waits
  <2>4. CASE request.kind # "path"
    <3>1. \/ toBridge' = Append(toBridge, Datagram("is_playing", livePlaying))
          \/ toBridge' = toBridge
          \/ toBridge' = toBridge \o Tells(livePlaying')
      BY <1>11, <2>4, Zenon DEF LiveAnswers
    <3>2. Datagram("is_playing", livePlaying) \in ToBridge
          /\ Datagram("is_playing", livePlaying).kind # "path"
      BY <2>2 DEF Datagram, ToBridge
    <3>3. Carried(Append(toBridge, Datagram("is_playing", livePlaying)))
            = Carried(toBridge) \cup {Datagram("is_playing", livePlaying)}
      <4>1. toBridge \in Seq(ToBridge)
        BY Zenon DEF LinkType
      <4> QED BY <3>2, <4>1, CarriedAppend
    <3>4. \A d \in Carried(toBridge') : d.kind = "path" => d \in Carried(toBridge)
      <4>1. CASE toBridge' = Append(toBridge, Datagram("is_playing", livePlaying))
        BY <3>2, <3>3, <4>1, Zenon
      <4>2. CASE toBridge' = toBridge \o Tells(livePlaying')
        BY <2>2, <4>2, TellsNoPath, Zenon
      <4> QED BY <3>1, <4>1, <4>2, Zenon
    <3> QED BY <2>1, <3>4, OwnKept, SameGoesOn, Zenon
  <2> QED BY <2>3, <2>4
<1>12. CASE PlaysOrStops
  <2>1. calls' = calls /\ toLive' = toLive /\ toBridge' = toBridge \o Tells(livePlaying')
    BY <1>12, Zenon DEF PlaysOrStops, callVars
  <2>2. livePlaying' \in BOOLEAN
    BY <1>12, LinkTypeStep, Zenon DEF LinkType
  <2>3. \A d \in Carried(toBridge') : d.kind = "path" => d \in Carried(toBridge)
    BY <2>1, <2>2, TellsNoPath, Zenon
  <2> QED BY <2>1, <2>3, OwnKept, SameGoesOn, Zenon
<1>13. CASE LiveQuits
  <2>1. calls' = calls /\ toLive' = <<>> /\ toBridge' = toBridge
    BY <1>13, Zenon DEF LiveQuits, callVars
  <2>2. Carried(toLive') = {}
    BY <2>1 DEF Carried
  <2> QED BY <2>1, <2>2, OwnKept, SameGoesOn, Zenon
<1>14. CASE Loses
  <2>1. calls' = calls
    BY <1>14, Zenon DEF Loses, callVars
  <2>2. Carried(toLive') \subseteq Carried(toLive) /\ Carried(toBridge') \subseteq Carried(toBridge)
    <3>1. toLive # <<>> => Carried(Tail(toLive)) \subseteq Carried(toLive)
      BY CarriedTail, Zenon DEF LinkType
    <3>2. toBridge # <<>> => Carried(Tail(toBridge)) \subseteq Carried(toBridge)
      BY CarriedTail, Zenon DEF LinkType
    <3> QED BY <1>14, <3>1, <3>2, Zenon DEF Loses
  <2> QED BY <2>1, <2>2, OwnKept, SameGoesOn, Zenon
<1>15. CASE Restart
  <2>1. \A c \in Caller : calls'[c] = NoCall
    BY <1>15, Zenon DEF Restart
  <2>2. \A c \in Caller : Own(c)'
    BY <2>1 DEF Own, Waits, NoCall
  <2> QED BY <2>2, Zenon DEF OwnInv
<1> QED BY <1>3, <1>4, <1>5, <1>6, <1>7, <1>8, <1>9, <1>10, <1>11, <1>12, <1>13, <1>14, <1>15,
           Zenon DEF Next

\* A caller of guide_clip_path or analyze_guide_track that asked while nobody else did
\* gets the path of the track it asked for, whatever is lost or comes late.
THEOREM AnswersAreOwn == Spec => []AnswerIsOwn
<1> DEFINE IInv == LinkType /\ OwnInv
<1>1. Init => IInv
  <2>1. Init => \A c \in Caller : calls[c] = NoCall
    BY Zenon DEF Init
  <2>2. Init => OwnInv
    BY <2>1 DEF OwnInv, Own, Waits, NoCall
  <2> QED BY <2>2, LinkTypeInit, Zenon
<1>2. IInv /\ [Next]_vars => IInv'
  BY LinkTypeStep, OwnStep, Zenon
<1>3. IInv => AnswerIsOwn
  BY DEF OwnInv, Own, AnswerIsOwn, GuideClipPath
<1> QED BY <1>1, <1>2, <1>3, PTL DEF Spec

-----------------------------------------------------------------------------
(* The type invariant *)

\* Requests wait only at a Live that runs, which is then all that it may be.
OffInv == ~running => toLive = <<>> /\ ~livePlaying /\ ~busy /\ ~listening
\* A future belongs to a call that has not returned.
PendingInv == pendingPath \in Caller => calls[pendingPath] # NoCall
Flags == busy \in BOOLEAN /\ listening \in BOOLEAN /\ connected \in BOOLEAN

\* Switches are on or off.
LEMMA FlagsStep == ASSUME Flags, [Next]_vars PROVE Flags'
<1>1. ASSUME NEW kind, Transport(kind) PROVE Flags'
  BY <1>1, Zenon DEF Transport, Flags, liveVars, stateVars
<1>2. ASSUME NEW c, NEW t, AskClipPath(c, t) PROVE Flags'
  BY <1>2, Zenon DEF AskClipPath, Flags, liveVars, stateVars
<1>3. ASSUME NEW c, Finish(c) \/ TimesOut(c) PROVE Flags'
  BY <1>3, Zenon DEF Finish, TimesOut, Flags, liveVars, stateVars
<1>4. CASE Watchdog
  <2>1. (~Silent) \in BOOLEAN
    BY Zenon
  <2> QED BY <1>4, <2>1, Zenon DEF Watchdog, Flags, liveVars
<1>5. CASE Poll \/ Second \/ HandleIsPlaying \/ HandleGuideClipPath
  BY <1>5, Zenon DEF Poll, Second, HandleIsPlaying, HandleGuideClipPath, Flags, liveVars, stateVars
<1>6. CASE LiveAnswers \/ PlaysOrStops
  BY <1>6, Zenon DEF LiveAnswers, PlaysOrStops, Flags, stateVars
<1>7. CASE LiveQuits \/ LiveStarts \/ LiveStalls \/ LiveResumes
  BY <1>7, Zenon DEF LiveQuits, LiveStarts, LiveStalls, LiveResumes, Flags, stateVars
<1>8. CASE Loses \/ Restart
  BY <1>8, Zenon DEF Loses, Restart, Flags, liveVars, stateVars
<1>9. CASE UNCHANGED vars
  BY <1>9, Zenon DEF vars, Flags, liveVars, stateVars
<1> QED BY <1>1, <1>2, <1>3, <1>4, <1>5, <1>6, <1>7, <1>8, <1>9, Zenon DEF Next

\* A Live that is down has nothing, and what is sent to it is gone.
LEMMA OffStep == ASSUME OffInv, [Next]_vars PROVE OffInv'
<1>1. ASSUME NEW requests, Ask(requests), UNCHANGED liveVars PROVE OffInv'
  BY <1>1, Zenon DEF Ask, OffInv, liveVars
<1>2. ASSUME UNCHANGED <<liveVars, toLive>> PROVE OffInv'
  BY <1>2, Zenon DEF OffInv, liveVars
<1>3. CASE Poll \/ Restart
  BY <1>1, <1>3, Zenon DEF Poll, Restart
<1>4. ASSUME NEW kind, Transport(kind) PROVE OffInv'
  BY <1>1, <1>4, Zenon DEF Transport
<1>5. ASSUME NEW c, NEW t, AskClipPath(c, t) PROVE OffInv'
  BY <1>1, <1>5, Zenon DEF AskClipPath
<1>6. ASSUME NEW c, Finish(c) \/ TimesOut(c) PROVE OffInv'
  BY <1>2, <1>6, Zenon DEF Finish, TimesOut, netVars
<1>7. CASE Watchdog \/ Second \/ HandleIsPlaying \/ HandleGuideClipPath
  BY <1>2, <1>7, Zenon DEF Watchdog, Second, HandleIsPlaying, HandleGuideClipPath, netVars
<1>8. CASE LiveAnswers \/ PlaysOrStops \/ LiveStarts \/ LiveStalls
  <2>1. CASE LiveAnswers \/ PlaysOrStops \/ LiveStalls
    <3>1. running /\ running' = running
      BY <2>1, Zenon DEF LiveAnswers, PlaysOrStops, LiveStalls
    <3> QED BY <3>1, Zenon DEF OffInv
  <2>2. CASE LiveStarts
    BY <2>2, Zenon DEF LiveStarts, OffInv
  <2> QED BY <1>8, <2>1, <2>2
<1>9. CASE LiveQuits
  <2>1. toLive' = <<>> /\ ~livePlaying' /\ ~busy' /\ ~listening'
    BY <1>9, Zenon DEF LiveQuits
  <2> QED BY <2>1, Zenon DEF OffInv
<1>10. CASE LiveResumes
  <2>1. running /\ running' = running
    BY <1>10, Zenon DEF LiveResumes, OffInv
  <2> QED BY <2>1, Zenon DEF OffInv
<1>11. CASE Loses
  <2>1. CASE running
    BY <1>11, <2>1, Zenon DEF Loses, OffInv, liveVars
  <2>2. CASE ~running
    <3>1. toLive = <<>>
      BY <2>2, Zenon DEF OffInv
    <3> QED BY <1>2, <1>11, <3>1, Zenon DEF Loses
  <2> QED BY <2>1, <2>2
<1>12. CASE UNCHANGED vars
  BY <1>2, <1>12, Zenon DEF vars, netVars
<1> QED BY <1>3, <1>4, <1>5, <1>6, <1>7, <1>8, <1>9, <1>10, <1>11, <1>12, Zenon DEF Next

\* A future is dropped with its call, if not before.
LEMMA PendingStep == ASSUME LinkType, PendingInv, [Next]_vars PROVE PendingInv'
<1> USE LinkAssumption
<1>1. ASSUME UNCHANGED <<calls, pendingPath>> PROVE PendingInv'
  BY <1>1, Zenon DEF PendingInv
<1>2. ASSUME pendingPath' = NoCaller PROVE PendingInv'
  BY <1>2, Zenon DEF PendingInv
<1>3. CASE Poll \/ Watchdog \/ HandleIsPlaying
  BY <1>1, <1>3, Zenon DEF Poll, Watchdog, HandleIsPlaying, callVars
<1>4. CASE LiveAnswers \/ PlaysOrStops \/ LiveQuits \/ LiveStarts \/ LiveStalls \/ LiveResumes
           \/ Loses \/ UNCHANGED vars
  BY <1>1, <1>4, Zenon DEF LiveAnswers, PlaysOrStops, LiveQuits, LiveStarts, LiveStalls,
                           LiveResumes, Loses, vars, callVars
<1>5. CASE Restart
  BY <1>2, <1>5, Zenon DEF Restart
<1>6. ASSUME NEW c, Finish(c) \/ TimesOut(c) PROVE PendingInv'
  BY <1>2, <1>6, Zenon DEF Finish, TimesOut
<1>7. ASSUME NEW kind, Transport(kind) PROVE PendingInv'
  BY <1>1, <1>7, Zenon DEF Transport, callVars
<1>8. ASSUME NEW c \in Caller, NEW t \in Track, AskClipPath(c, t) PROVE PendingInv'
  <2>1. pendingPath' = c /\ calls'[c] = NewCall(t)
    BY <1>8, Zenon DEF AskClipPath
  <2>2. NewCall(t) # NoCall
    BY NewCallType DEF NoCall
  <2> QED BY <2>1, <2>2, Zenon DEF PendingInv
<1>9. CASE Second
  <2>1. SUFFICES ASSUME pendingPath \in Caller PROVE calls'[pendingPath] # NoCall
    BY <1>9, Zenon DEF Second, PendingInv
  <2> DEFINE p == pendingPath
  <2>2. calls[p] # NoCall /\ Waits(p)
    BY <1>9, <2>1, Zenon DEF Second, PendingInv
  <2>3. calls'[p] = [calls[p] EXCEPT !.left = @ - 1]
    BY <1>9, <2>1, <2>2, Zenon DEF Second
  <2>4. calls[p] \in [stage : {"waits", "answered"}, track : Track, left : 0..CallTimeout,
                      got : Track \cup {NoClip}, alone : BOOLEAN]
    BY <2>1, <2>2 DEF LinkType, Calls, NoCalls, Waits
  <2>5. calls'[p].stage = "waits"
    BY <2>2, <2>3, <2>4 DEF Waits
  <2> QED BY <2>5 DEF NoCall
<1>10. CASE HandleGuideClipPath
  <2>1. pendingPath' = pendingPath
    BY <1>10, Zenon DEF HandleGuideClipPath
  <2>2. CASE pendingPath # NoCaller /\ Waits(pendingPath)
    <3> DEFINE p == pendingPath
    <3>1. p \in Caller
      BY <2>2 DEF LinkType
    <3>2. calls' = [calls EXCEPT ![p] = [calls[p] EXCEPT !.stage = "answered", !.got = Head(toBridge).what]]
      BY <1>10, <2>2, <3>1 DEF HandleGuideClipPath, LinkType
    <3>3. calls[p] \in [stage : {"waits", "answered"}, track : Track, left : 0..CallTimeout,
                        got : Track \cup {NoClip}, alone : BOOLEAN]
      BY <2>2, <3>1 DEF LinkType, Calls, NoCalls, Waits
    <3>4. calls'[p].stage = "answered"
      <4>1. calls'[p] = [calls[p] EXCEPT !.stage = "answered", !.got = Head(toBridge).what]
        BY <3>1, <3>2 DEF LinkType
      <4> QED BY <3>3, <4>1
    <3>5. calls'[p] # NoCall
      BY <3>4 DEF NoCall
    <3> QED BY <2>1, <3>5, Zenon DEF PendingInv
  <2>3. CASE ~(pendingPath # NoCaller /\ Waits(pendingPath))
    <3>1. calls' = calls
      BY <1>10, <2>3, Zenon DEF HandleGuideClipPath
    <3> QED BY <1>1, <2>1, <3>1
  <2> QED BY <2>2, <2>3
<1> QED BY <1>3, <1>4, <1>5, <1>6, <1>7, <1>8, <1>9, <1>10, Zenon DEF Next

\* The state of the link keeps to its types, a future belongs to a call that has not
\* returned, and nothing is kept by a Live that is down.
THEOREM WellTyped == Spec => []TypeOK
<1> DEFINE IInv == LinkType /\ Flags /\ OffInv /\ PendingInv
<1>1. Init => IInv
  <2>1. Init => Flags
    BY Zenon DEF Init, Flags
  <2>2. Init => OffInv
    BY Zenon DEF Init, OffInv
  <2>3. Init => PendingInv
    BY LinkAssumption, Zenon DEF Init, PendingInv
  <2> QED BY <2>1, <2>2, <2>3, LinkTypeInit, Zenon
<1>2. IInv /\ [Next]_vars => IInv'
  BY LinkTypeStep, FlagsStep, OffStep, PendingStep, Zenon
<1>3. IInv => TypeOK
  <2> SUFFICES ASSUME IInv PROVE TypeOK
    OBVIOUS
  <2>1. {running, busy, livePlaying, listening, connected, isPlaying} \subseteq BOOLEAN
    BY Zenon DEF LinkType, Flags
  <2>2. silence \in 0..AbletonTimeout /\ (pendingPath # NoCaller => calls[pendingPath] # NoCall)
    BY Zenon DEF LinkType, PendingInv
  <2>3. \A c \in Caller : Waits(c) => calls[c].left \in 0..CallTimeout /\ calls[c].track \in Track
    BY CallTypes, Zenon
  <2> QED BY <2>1, <2>2, <2>3, Zenon DEF TypeOK, OffInv
<1> QED BY <1>1, <1>2, <1>3, PTL DEF Spec

=============================================================================
