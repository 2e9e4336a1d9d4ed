----------------------------- MODULE BridgeLink -----------------------------
(***************************************************************************)
(* The link between bridge/ableton.py and Ableton Live, which is UDP: it   *)
(* has no notion of a connection, and Live may quit, be busy for a while,  *)
(* or lose a datagram.  The watchdog turns silence into a lost connection, *)
(* the poll brings back what listeners would have told, and a caller that  *)
(* asks for the path of the guide clip waits for it on a future, with a    *)
(* timeout.  Of Live's state only whether it plays is followed.            *)
(*                                                                         *)
(* Time goes by in seconds.  In each one the poll and the watchdog run     *)
(* once, in either order, and Live answers unless it is down or busy.      *)
(***************************************************************************)
EXTENDS Integers, Sequences, FiniteSets

CONSTANTS
    Caller,          \* who waits for a clip path: the route, and analyze_guide tasks
    NoCaller,
    Track,           \* names of guide tracks
    TrackWithClip,   \* those with a clip that has a file
    NoClip,          \* the empty path
    AbletonTimeout,  \* ABLETON_TIMEOUT, seconds
    CallTimeout,     \* how long a caller waits, seconds
    MaxLost,         \* bound: datagrams lost
    MaxOutages,      \* bound: times Live quits or is busy, and the bridge is restarted
    MaxEvents        \* bound: calls, and times playback is started or stopped

ASSUME LinkAssumption ==
    /\ TrackWithClip \subseteq Track /\ NoClip \notin Track /\ NoCaller \notin Caller
    /\ AbletonTimeout \in Nat \ {0} /\ CallTimeout \in Nat \ {0}

VARIABLES
    \* Live with the remote script
    running, busy,
    livePlaying,
    listening,       \* the remote script tells of is_playing by itself
    \* the bridge
    connected,       \* ableton_connected
    isPlaying,       \* is_playing
    silence,         \* seconds since _last_received
    polled, watched, \* the two tasks have run in this second
    pendingPath,     \* _pending_clip_path: the caller whose future it is
    calls,           \* the calls that wait for a clip path
    \* the datagrams on their way
    toLive, toBridge,
    \* history and bounds
    trouble,         \* Live has been down or busy
    lost, outages, events

liveVars == <<running, busy, livePlaying, listening>>
stateVars == <<connected, isPlaying, silence>>
taskVars == <<polled, watched>>
callVars == <<pendingPath, calls>>
netVars == <<toLive, toBridge>>
boundVars == <<trouble, lost, outages, events>>
vars == <<liveVars, stateVars, taskVars, callVars, netVars, boundVars>>

NoCall == [stage |-> "none"]
Waits(c) == calls[c].stage = "waits"

Datagram(kind, what) == [kind |-> kind, what |-> what]
Request(kind) == Datagram(kind, NoClip)

\* A datagram to a port nobody listens on is gone.
Ask(requests) == toLive' = IF running THEN toLive \o requests ELSE toLive
OnItsWay(queue, kind) == \E i \in DOMAIN queue : queue[i].kind = kind

Init ==
    /\ running \in BOOLEAN /\ busy = FALSE /\ livePlaying = FALSE /\ listening = FALSE
    /\ connected = TRUE /\ isPlaying = FALSE /\ silence = 0
    /\ polled = FALSE /\ watched = FALSE
    /\ pendingPath = NoCaller /\ calls = [c \in Caller |-> NoCall]
    /\ toLive = (IF running THEN <<Request("listen"), Request("is_playing")>> ELSE <<>>)
    /\ toBridge = <<>>
    /\ trouble = ~running /\ lost = 0 /\ outages = 0 /\ events = 0

-----------------------------------------------------------------------------
(* The bridge's tasks *)

\* Variant: the bridge relies on its listeners.
Poll_AsksNothing ==
    /\ ~polled /\ polled' = TRUE
    /\ UNCHANGED <<liveVars, stateVars, watched, callVars, netVars, boundVars>>

\* _poll_cue_points; a busy Live has one poll's requests waiting at most.
Poll ==
    /\ ~polled /\ polled' = TRUE
    /\ Ask(IF OnItsWay(toLive, "is_playing") THEN <<>> ELSE <<Request("is_playing")>>)
    /\ UNCHANGED <<liveVars, stateVars, watched, callVars, toBridge, boundVars>>

\* Variant: a second too soon.
Silent_TooSoon == silence + 1 >= AbletonTimeout
Silent == silence >= AbletonTimeout

\* Variants: playback is left as it was; a connection once lost stays lost.
Watchdog_KeepsPlaying ==
    /\ ~watched /\ watched' = TRUE
    /\ connected' = ~Silent
    /\ UNCHANGED <<isPlaying, silence, polled, liveVars, callVars, netVars, boundVars>>

Watchdog_OneWay ==
    /\ ~watched /\ watched' = TRUE
    /\ connected' = (connected /\ ~Silent)
    /\ isPlaying' = (isPlaying /\ ~Silent)
    /\ UNCHANGED <<silence, polled, liveVars, callVars, netVars, boundVars>>

\* _watchdog: playback does not survive the loss of the connection.
Watchdog ==
    /\ ~watched /\ watched' = TRUE
    /\ connected' = ~Silent
    /\ isPlaying' = (isPlaying /\ ~(connected /\ Silent))
    /\ UNCHANGED <<silence, polled, liveVars, callVars, netVars, boundVars>>

\* play and stop_playback, at a device's request.
Transport(kind) ==
    /\ events < MaxEvents /\ events' = events + 1
    /\ Ask(<<Request(kind)>>)
    /\ UNCHANGED <<liveVars, stateVars, taskVars, callVars, toBridge, trouble, lost, outages>>

\* The bridge is stopped and started again: _AbletonBridge and AppState are new, and
\* start subscribes and refreshes.  Live keeps its listener.
Restart ==
    /\ outages < MaxOutages /\ outages' = outages + 1
    /\ connected' = TRUE /\ isPlaying' = FALSE /\ silence' = 0
    /\ polled' = FALSE /\ watched' = FALSE
    /\ pendingPath' = NoCaller /\ calls' = [c \in Caller |-> NoCall]
    /\ Ask(<<Request("listen"), Request("is_playing")>>)
    /\ toBridge' = <<>>
    /\ UNCHANGED <<liveVars, trouble, lost, events>>

-----------------------------------------------------------------------------
(* The path of the guide clip *)

\* What the call asks for; whether nobody else waits or is still to be answered.
NewCall(track) ==
    [stage |-> "waits", track |-> track, left |-> CallTimeout, got |-> NoClip,
     alone |-> ~OnItsWay(toLive, "path") /\ ~OnItsWay(toBridge, "path")
               /\ \A c \in Caller : calls[c] = NoCall]

\* The first half of guide_clip_path and of analyze_guide_track.
AskClipPath(c, track) ==
    /\ events < MaxEvents /\ events' = events + 1
    /\ calls[c] = NoCall
    /\ pendingPath' = c
    /\ calls' = [d \in Caller |->
                    IF d = c THEN NewCall(track)
                    ELSE IF Waits(d) THEN [calls[d] EXCEPT !.alone = FALSE] ELSE calls[d]]
    /\ Ask(<<Datagram("path", track)>>)
    /\ UNCHANGED <<liveVars, stateVars, taskVars, toBridge, trouble, lost, outages>>

\* The second half, once the future has a result: the finally clause drops the future,
\* whosever it is by now.
Finish(c) ==
    /\ calls[c].stage = "answered"
    /\ pendingPath' = NoCaller
    /\ calls' = [calls EXCEPT ![c] = NoCall]
    /\ UNCHANGED <<liveVars, stateVars, taskVars, netVars, boundVars>>

\* Variant: asks again.
TimesOut_Retries(c) ==
    /\ Waits(c) /\ calls[c].left = 0
    /\ calls' = [calls EXCEPT ![c].left = CallTimeout]
    /\ Ask(<<Datagram("path", calls[c].track)>>)
    /\ UNCHANGED <<liveVars, stateVars, taskVars, pendingPath, toBridge, boundVars>>

TimesOut(c) ==
    /\ Waits(c) /\ calls[c].left = 0
    /\ pendingPath' = NoCaller
    /\ calls' = [calls EXCEPT ![c] = NoCall]
    /\ UNCHANGED <<liveVars, stateVars, taskVars, netVars, boundVars>>

-----------------------------------------------------------------------------
(* Datagrams from Live: any of them counts as a sign of life *)

Received(kind) ==
    /\ toBridge # <<>> /\ Head(toBridge).kind = kind /\ toBridge' = Tail(toBridge)
    /\ silence' = 0

HandleIsPlaying ==
    /\ Received("is_playing")
    /\ isPlaying' = Head(toBridge).what
    /\ UNCHANGED <<connected, liveVars, taskVars, callVars, toLive, boundVars>>

\* An answer that comes when nobody waits, or a second one, is dropped.
HandleGuideClipPath ==
    /\ Received("path")
    /\ calls' = IF pendingPath # NoCaller /\ Waits(pendingPath)
                THEN [calls EXCEPT ![pendingPath].stage = "answered",
                                   ![pendingPath].got = Head(toBridge).what]
                ELSE calls
    /\ UNCHANGED <<connected, isPlaying, liveVars, taskVars, pendingPath, toLive, boundVars>>

-----------------------------------------------------------------------------
(* Live *)

\* Variant: the first track with a clip will do.
GuideClipPath_AnyTrack(track) == CHOOSE t \in TrackWithClip : TRUE

GuideClipPath(track) == IF track \in TrackWithClip THEN track ELSE NoClip

\* The remote script tells of is_playing by itself once it was asked to.
Tells(playing) == IF listening THEN <<Datagram("is_playing", playing)>> ELSE <<>>

LiveAnswers ==
    /\ running /\ ~busy /\ toLive # <<>>
    /\ toLive' = Tail(toLive)
    /\ LET request == Head(toLive) IN
       \/ /\ request.kind = "listen"
          /\ listening' = TRUE
          /\ toBridge' = Append(toBridge, Datagram("is_playing", livePlaying))
          /\ UNCHANGED livePlaying
       \/ /\ request.kind = "is_playing"
          /\ toBridge' = Append(toBridge, Datagram("is_playing", livePlaying))
          /\ UNCHANGED <<listening, livePlaying>>
       \/ /\ request.kind = "path"
          /\ toBridge' = Append(toBridge, Datagram("path", GuideClipPath(request.what)))
          /\ UNCHANGED <<listening, livePlaying>>
       \/ /\ request.kind \in {"play", "stop"}
          /\ livePlaying' = (request.kind = "play")
          /\ toBridge' = IF livePlaying' = livePlaying THEN toBridge ELSE toBridge \o Tells(livePlaying')
          /\ UNCHANGED listening
    /\ UNCHANGED <<running, busy, stateVars, taskVars, callVars, boundVars>>

\* Somebody at the computer starts or stops playback.
PlaysOrStops ==
    /\ events < MaxEvents /\ events' = events + 1
    /\ running /\ ~busy
    /\ livePlaying' = ~livePlaying
    /\ toBridge' = toBridge \o Tells(livePlaying')
    /\ UNCHANGED <<running, busy, listening, stateVars, taskVars, callVars, toLive, trouble, lost, outages>>

LiveQuits ==
    /\ outages < MaxOutages /\ outages' = outages + 1 /\ trouble' = TRUE
    /\ running
    /\ running' = FALSE /\ busy' = FALSE /\ livePlaying' = FALSE /\ listening' = FALSE
    /\ toLive' = <<>>
    /\ UNCHANGED <<stateVars, taskVars, callVars, toBridge, lost, events>>

LiveStarts ==
    /\ ~running /\ running' = TRUE
    /\ UNCHANGED <<busy, livePlaying, listening, stateVars, taskVars, callVars, netVars, boundVars>>

\* Live loads a set or shows a dialog; what it is sent meanwhile waits.
LiveStalls ==
    /\ outages < MaxOutages /\ outages' = outages + 1 /\ trouble' = TRUE
    /\ running /\ ~busy /\ busy' = TRUE
    /\ UNCHANGED <<running, livePlaying, listening, stateVars, taskVars, callVars, netVars, lost, events>>

LiveResumes ==
    /\ busy /\ busy' = FALSE
    /\ UNCHANGED <<running, livePlaying, listening, stateVars, taskVars, callVars, netVars, boundVars>>

Loses ==
    /\ lost < MaxLost /\ lost' = lost + 1
    /\ \/ toLive # <<>> /\ toLive' = Tail(toLive) /\ UNCHANGED toBridge
       \/ toBridge # <<>> /\ toBridge' = Tail(toBridge) /\ UNCHANGED toLive
    /\ UNCHANGED <<liveVars, stateVars, taskVars, callVars, trouble, outages, events>>

\* A second is long enough for everything that was to happen in it.
Second ==
    /\ polled /\ watched /\ polled' = FALSE /\ watched' = FALSE
    /\ toBridge = <<>> /\ (toLive # <<>> => busy)
    /\ \A c \in Caller : calls[c] = NoCall \/ (Waits(c) /\ calls[c].left > 0)
    /\ silence' = IF silence < AbletonTimeout THEN silence + 1 ELSE silence
    /\ calls' = [c \in Caller |-> IF Waits(c) THEN [calls[c] EXCEPT !.left = @ - 1] ELSE calls[c]]
    /\ UNCHANGED <<liveVars, connected, isPlaying, pendingPath, netVars, boundVars>>

-----------------------------------------------------------------------------
Next ==
    \/ Poll \/ Watchdog \/ Second
    \/ \E kind \in {"play", "stop"} : Transport(kind)
    \/ \E c \in Caller, t \in Track : AskClipPath(c, t)
    \/ \E c \in Caller : Finish(c) \/ TimesOut(c)
    \/ HandleIsPlaying \/ HandleGuideClipPath
    \/ LiveAnswers \/ PlaysOrStops \/ LiveQuits \/ LiveStarts \/ LiveStalls \/ LiveResumes
    \/ Loses \/ Restart

Spec == Init /\ [][Next]_vars

\* The bridge's tasks and event loop go on, time passes, and a Live that runs is not
\* busy for ever.  Nobody has to start it.
Fairness ==
    /\ WF_vars(Poll) /\ WF_vars(Watchdog) /\ WF_vars(Second)
    /\ WF_vars(HandleIsPlaying) /\ WF_vars(HandleGuideClipPath)
    /\ WF_vars(LiveAnswers) /\ WF_vars(LiveResumes)
    /\ \A c \in Caller : WF_vars(Finish(c)) /\ WF_vars(TimesOut(c))

FairSpec == Spec /\ Fairness

-----------------------------------------------------------------------------
(* Properties *)

\* The future there is belongs to a call that still waits for it or is about to
\* return; Live's requests wait only while it runs.
TypeOK ==
    /\ {running, busy, livePlaying, listening, connected, isPlaying} \subseteq BOOLEAN
    /\ silence \in 0..AbletonTimeout
    /\ pendingPath # NoCaller => calls[pendingPath] # NoCall
    /\ \A c \in Caller : Waits(c) => calls[c].left \in 0..CallTimeout /\ calls[c].track \in Track
    /\ ~running => toLive = <<>> /\ ~livePlaying /\ ~busy /\ ~listening

\* The alarm is given in time, and then nothing plays: "Don't let a stale 'playing'
\* survive Ableton disappearing" (_watchdog).
GoneIsTold == silence = AbletonTimeout /\ watched => ~connected /\ ~isPlaying

\* Neither one lost datagram nor a restart of the bridge raises an alarm: the poll is
\* often enough "to avoid false positives from jitter" (ABLETON_TIMEOUT).
NoFalseAlarm == ~connected => trouble \/ lost > 1

\* A caller that asked while nobody else did gets the path of the track it asked for,
\* or is told that there is none (guide_clip_path, _handle_guide_clip_path).
AnswerIsOwn ==
    \A c \in Caller :
        calls[c].stage = "answered" /\ calls[c].alone =>
            calls[c].got = (IF calls[c].track \in TrackWithClip THEN calls[c].track ELSE NoClip)

\* However Live comes and goes, the devices end up being told whether it is there
\* (_watchdog: "Self-heals the same way: as soon as datagrams resume").
ConnectedSettles == <>[](connected = running)

\* ... and whether it plays, though a restart of either side and a lost datagram leave
\* no listener: the poll makes changes "survive project reloads or AbletonOSC restarts".
PlayingSettles == <>[](isPlaying = livePlaying)

\* Nobody waits for a clip path for ever, whoever else asks and clears the future.
CallsSettle == \A c \in Caller : Waits(c) ~> calls[c] = NoCall
=============================================================================
