# AbletonTracks bridge: TLA+ models, model checking and proofs

The repository is a stage remote control for Ableton Live. iPads and phones
("devices") talk over WebSockets to a *bridge* (`src/bridge`, Python, asyncio);
the bridge talks OSC over UDP to *AbletonOSC* (`src/AbletonOSC`), a remote
script inside Live. These modules model the part of it in which order matters:
who is in control, who is told what, how a tap on a section becomes a jump, how
markers are made and read, how the bridge keeps up with Live's tracks, and what
happens on the OSC socket between the two, byte by byte.

- [1. The system](#1-the-system)
- [2. The modules and how they map to the code](#2-the-modules-and-how-they-map-to-the-code)
- [3. What the runs check](#3-what-the-runs-check)
- [4. What is proved](#4-what-is-proved)
- [5. Where code and documentation disagree](#5-where-code-and-documentation-disagree)
- [6. What is not modelled, and the plan](#6-what-is-not-modelled-and-the-plan)
- [7. Running it](#7-running-it)

## 1. The system

| part | state it keeps | operations | what has to hold |
|---|---|---|---|
| Connection manager (`_ConnectionManager`, server.py 139-435) | `_clients`, `_primary`, `_reserved_for`, `_request`, two timer tasks | connect, disconnect, request/cancel/respond, release, hold expiry, request expiry | one primary; a dropped primary's slot is kept for it; a request is answered, granted, withdrawn or expires; nobody is promoted silently |
| Announcements (server.py 438-541) | coroutines waiting in a send; what each device was last told | announce, broadcast, broadcast_handoff, broadcast_full_state, send | once nothing is left to send, every device knows its role, the pending request, the roster and the songs |
| Endpoint and routes (server.py 575-740) | none of its own | one handler per socket; `/guide_clip_path`, `/apply_analysis` | only the primary's transport messages count |
| Jump and transport (server.py 671-700, 743-799) | queued song, section and launch beat | jump, play, stop | the newest tap wins; a stop cancels; a queued jump is over in the end |
| Ableton bridge: cue points and position (ableton.py) | cue cache, current section, retarget | replies, beats, polling | songs and current section follow Live |
| Ableton bridge: tracks (ableton.py 544-636) | track list, mute states, Cue Clips index and clip names, meters | fetch, mute, poll meters, four handlers | switches, meters and clip names come to be those of Live |
| Ableton bridge: link (ableton.py 187-231, 256-271, 343-384) | `_last_received`, connected, playing, the pending clip path | poll, watchdog, clip path request with a timeout | a Live that has gone is noticed in time, one that has not is never missed; nobody waits for ever |
| Marker parser (parser.py) | none | parse_markers, find_current_indices | jump indices are Live's; sections tile the timeline |
| Making markers (song.py 241-438, analyzer.py, analyze_guide.command) | Live's cue points and tempo | replace_all_cues, generate_cues_from_track, transcribe_sections | the markers asked for, and no others; markers elsewhere untouched |
| Shared state (state.py) | songs, positions, tracks, meters | snapshots | consistent fields in every snapshot |
| AbletonOSC: listeners (handler.py, track.py, device.py, manager.py) | listener tables, callbacks on Live's objects, the handler table | start/stop_listen, reload, restart | a listener kept is one that reports; a reload leaves a script that answers |
| AbletonOSC: server (osc_server.py) | socket, default reply address | process, dispatch, wildcards, reply | every datagram is read, once and in order; a failure stops nothing for good |
| python-osc (vendored) | none | build and parse messages and bundles | what is read is what was sent |
| Start-up, installer, other AbletonOSC handlers, developer clients | - | - | wiring, packaging, property access |

**How the parts interact.** Devices send JSON messages; the socket's handler
calls the manager or `_handle_jump`, which write `AppState` and call the Ableton
bridge, which sends OSC. AbletonOSC reads its socket ten times a second in
Live's own thread and answers by datagram; its listeners send on their own when
something in Live changes. Datagrams from Live are handled synchronously on the
bridge's event loop; the handlers write `AppState` and start broadcast tasks.
Everything in the bridge runs on one asyncio loop, so state only changes between
awaits, but *any* await (each send to each device, a closing handshake, a sleep,
a future) lets other handlers, timers and datagrams in.

**Where it is hard.** Timers racing answers (hold 15 s, request 20 s); a device
that reconnects before its old socket is known to be dead; sends that wait for a
device whose Wi-Fi stalls, so that texts composed earlier go out later; a jump
handler that waits for its broadcast between changing the state and telling
Live; OSC replies that were composed before a change; a forced cache miss
meeting a reply; the tap that follows another before the bar line; listeners
that are kept by index while tracks trade places; a cue switch that is a toggle;
silence that may mean a late poll, a lost datagram or a Live that has quit; one
future for two callers; a handler that raises with datagrams waiting behind it.
`PROJECT.json` lists each of these under `hazards`, at its line, with the
properties that watch it or the reason why none does.

## 2. The modules and how they map to the code

| module | what it is |
|---|---|
| `ControlSlot` | abstract specification: who has control, as seen from outside |
| `ConnectionManager` | `_ConnectionManager` in full, one action per method or timer body; refines `ControlSlot` |
| `Announcements` | extends it with the coroutines that send, and what each device believes |
| `Markers` | parser.py as operators |
| `CueMarkers` | extends it with the ways cue points come to be made, and are read |
| `Transport` | extends `Markers` with `_handle_jump`, stop, the Ableton bridge's handlers, and Live |
| `Listeners` | the listener tables of AbletonOSC, as steps on them |
| `Tracks` | extends it with the bridge's track list, mutes, meters and clip names, and the messages between |
| `BridgeLink` | poll, watchdog and clip path future, with a Live that comes and goes and datagrams that are lost |
| `Inbox` | abstract specification: requests are carried out as they were meant, once and in their turn |
| `OscCodec` | messages and bundles as bytes, both ways |
| `OscServer` | extends it with the socket, `process()` and its dispatch; refines `Inbox` |
| `MC*` | small instances for TLC (`BridgeLink` needs none) |
| `*_proofs` | theorems about `ConnectionManager` (and its refinement of `ControlSlot`), `Announcements` (`HandoffTexts_proofs` for the handoff texts), `Transport`, `Tracks` with `Listeners` (`Listeners_proofs`, `Mutes_proofs`), `BridgeLink`, and `Markers` with `CueMarkers` |

`PROJECT.json` ("map") names the source lines of every definition. Definitions
named `Operator_Something`, marked "Variant", are plausible mistakes in the
operator of that name; no behaviour uses them (section 3 lists them).

### ControlSlot and ConnectionManager

Every public method of `_ConnectionManager` changes its state before its first
await, so each is one action: `Connect`, `Disconnect`, `RequestControl`,
`CancelRequest`, `Respond`, `Release`, `ReservationExpiry`, `RequestExpiry`
(`Grant` is `Respond` with an accept, `grant` and `_transfer` included). `client`,
`older` (the dictionary's insertion order), `primary`, `reservedFor` and
`request` are the object's attributes. Timers are a *set* of sleeping tasks,
not a deadline field, because that is what the code has: tasks that are started,
cancelled or forgotten. `Tick` lets time pass for all of them; the delays are
abstracted to `RECLAIM_GRACE < REQUEST_TIMEOUT`. `released` holds sockets whose
handler has run `release()` and returned from its loop, but not yet reached
`disconnect()`. `filedInHold` is a history variable.

`ControlSlot` knows *parties* (an install, with however many sockets, or a device
without a client id) and says control only moves by arrival, leaving, taking,
asking, passing and lapse. `Slot` in `ConnectionManager` is the refinement
mapping; the run checks `SlotSpec == Slot!Spec`, and `ConnectionManager_proofs` proves it.

### Announcements

A coroutine is a record of what is left for it to do and runs alone until a
send has to wait, because its socket is *stalled* (write buffer full) or being
closed. `Expand` turns `broadcast...` into sends, fixing targets and text at
that moment, as the code does; `Send` composes personal snapshots at the moment
of sending, as `_snapshot_for` does; `Abandon` is the `KeyError` path of
`broadcast_full_state`. `view` records the last role, prompt, roster and song
version sent to each socket. `Stalls`, `Drains` and `Drops` are the network's.

Assumed of the WebSocket library: coroutines waiting for one socket go on in
the order they came; when a connection is lost, they resume (and their sends
fail) before the handler learns of the loss in a later turn of the loop; once
`close()` has been called other sends fail at once. Position, track and meter
broadcasts are left out: they carry no role, prompt, roster or song state.

### Markers and CueMarkers

Cue names are abstract values; what counts is whether they match the header
pattern, a start keyword or the loop keyword. `ParseMarkers` applies `AddCue` to
the cues one by one (`SongsAfter`) in sorted order (stable, headers first), gives
each section the index of its cue in Live's own order, and annotates lengths across
song borders. Loops here and in `CueMarkers` are recursive functions of the number
of rounds done, a form the proofs can use.
`FindCurrentIndices` keeps Python's counting from 0, with -1 for none. Titles
and the numbering of unnamed songs are left out.

`CueMarkers` follows a marker from where it comes from to the list the parser
gets. `SetOrDeleteCue` is Live's switch, which makes or deletes. `GenerateCues`
is the handler that makes markers from the clips of a track; `ReplaceAllCues`
is the one that takes an analysis, as a flat list of words and numbers
(`Analysis`, `Flat`, `Pairs`), deletes all and places each section at its time,
rounded as Python rounds (`NearestBeat`). `Transcribe` is the part of the
analyzer that decides which spoken words are sections; what is said, and the
tempo, are inputs. `GuideCues` is what a device's analyze_guide message leads
to. `CuesReply` and `ReadCues` are the answer to the bridge and its reading.
Each handler runs in one go inside Live, so each is one action. Positions are
half beats, so that a time can fall halfway between two beats.

### Transport

`Jump` is `_handle_jump` up to its broadcast, `SendJump` the rest: between the
two the handler waits, and anything else may happen. `Play`, `Stop`,
`HandleCuePoints`, `HandleBeat`, `PollCuePoints` (the poll and `refresh`) and
`CuesReplaced` (the three coroutines that replace markers and force a cache
miss) are the other actions of the bridge. Python's negative list indices are
modelled (`Indices`, `At`). A position is a whole beat; Live reports several
times a beat, so `LivePlays` waits until the bridge has heard of a beat. The
broadcasts a jump and the position handler send are left out.

Live is external except for AbletonOSC's cue jump: it takes messages in order,
holds a cue jump until the next bar line while it plays (the bridge's comments
rely on that), replaces a held jump by a newer one, drops it on stop, and keeps
within the Arrangement Loop. `LiveEdited` is somebody at the computer. The end of
the timeline repeats its last bar, so that playing never ends.

`lastTap` and `cancelled` are history variables; `taps` and `edits` count
against bounds.

### Listeners and Tracks

AbletonOSC attaches a callback to Live's track *object* and keeps it in tables
whose key holds the track's *index*. `functions` and `objects` are the two
tables (`listener_functions`, `listener_objects`; the latter has no entry for
listeners on the value of a parameter, a mixer's or a device's), `attached` counts
the callbacks of each key on each track. The track handler and the device handler
each have such tables; their keys differ (`TrackKey`, `DeviceKey`), so one function
stands for both. A track's devices are abstracted to one with one parameter, which
lives as long as its track.

`StartListen`, `StopListen`, `StartValueListen`, `StopValueListen` and
`ClearListeners` are the methods of handler.py, track.py and device.py with their
exceptions: an exception that the code catches goes on (`Without`), one it does not
catch ends the request (`GoesOn`) or the reload (`AllHaveObjects`). The manager clears
the track handler before the device handler: an exception in the first leaves the
second's listeners, one in the second comes when the first's are gone. The other
seven handlers make their listeners with handler.py's `_start_listen` alone, which
keeps the object (the song's beat listener is in no table, and is removed under a
`try`): clearing them raises nothing, and they are left out. `TracksEdited` is Live's side:
tracks that are added, deleted and moved.

`Tracks` adds the bridge (`names`, `mutes`, `cueIndex`, `clipMap`, `meters`) and
the two queues of datagrams. `FetchTracks` is the poll, `HandleTrackNames` the
listing with everything it sets off: mute states carried over by index, clip
names asked for when the Cue Clips track has another index than before, a mute
listener for each track, readings of tracks that have gone dropped. `Reload` and
`Restart` are the remote script's; after a reload that raised, `NotUnderstood` drops
what arrives. `OtherClient` is another OSC client of the script. Datagrams on the
loopback interface stay in order. `hasty` and `listed` are history variables.

### BridgeLink

Time passes in seconds (`Second`), in each of which the poll and the watchdog
run once, in either order, and Live answers unless it is down or busy.
`silence` is the time since `_last_received`. `Init` is the bridge just started,
with or without Live; `Restart` starts it anew. `AskClipPath` and `Finish` are
the two halves of the coroutines that wait for a clip path, around the future
that `pendingPath` names: a second caller takes the name away from the first, and
each one's `finally` drops it, whosever it is. `alone` is a history field: nobody
else waited or had an answer on its way. `LiveQuits`, `LiveStalls`, `Loses` and
`Restart` are the fault model.

### OscCodec, OscServer and Inbox

A datagram is a sequence of bytes. `BuildMessage`, `Args`, `WriteArg` are the
builder, `ParseMessage`, `Get...` the parser, for every type tag the package
knows, arrays included; `BuildBundle` and `ParseBundle` for bundles in bundles.
A byte of a number is a digit to the base `Radix`, 256 in the code. Floats and
time tags are taken as the bytes they are packed into. Results carry the
exception raised, since it matters which: `process()` catches the package's own
`ParseError` (`Caught`), and others end its loop for this tick.

`OscServer` has the socket, `Tick` (every tenth of a second) and `ProcessOne` for
each turn of the loop: it takes the datagram, makes its sender the default reply
address, and carries out the calls until one raises. What handlers do is left
open except that they may raise. `Targets` is the dispatch, `MatchesFrom` its
wildcards (a pattern that matches the *start* of an address is taken, as
`re.match` does). `Inbox` is the promise: `AsMeant` maps each waiting datagram to
the calls its sender meant, so that `InboxSpec` says at once that building,
parsing and dispatch preserve the meaning, and that the loop keeps order and
loses nothing.

## 3. What the runs check

| run | states | properties | what they say |
|---|---|---|---|
| `manager` | 82 k | `TypeOK`, `RolesConsistent`, `HoldOwnerAbsent`, `TimersMatchPromises`, `HeldRequestOutlivesHold`, `SlotSpec`, `NoSilentPromotion`, `SlotHeldForOwner`, `HeldRequestHonoured`, `RequestSettled`, `ControlReturns` | roles, hold, request and timers agree; control moves only as `ControlSlot` says; a hold is the owner's; a request made in a hold never just expires; a request is settled, and control never stays with a device that has gone |
| `announcements` | 597 k (symmetry) | `RolesTold`, `PromptsTold`, `PendingRequestIsAnswerable` | when nothing is left to send, every device knows its role and the pending request; somebody can settle it |
| `markers` | 25 k | `CueIndexLands`, `NothingLost`, `SectionsTile`, `CurrentIsLatest`, `SectionsMarked`, `OthersUntouched` | the parser against reference definitions that do not follow its algorithm; an analysis leaves exactly its markers; generating leaves the others alone |
| `transport` | 253 k | `SongsAreOfCache`, `IndicesCurrent`, `RetargetIsLastTaps`, `SongsCatchUp`, `QueueSettles` | cache and songs, section and position, retarget and tap stay together through every interleaving; marker changes arrive; a queued jump ends |
| `tracks` | 1.16 M | `TablesAgree`, `DeafOverValuesOnly`, `MutesTrue`, `MutesSettle`, `ClipMapSettles`, `MetersSettle` | listener tables agree with Live; when all is quiet and listened to switches are right, and they, the meters and the clip names come right in the end |
| `script` | 84 k | `InboxSpec`, `AllRead`, `ReportsReturn` | every datagram is carried out as meant, once and in its turn; none is left; the bridge gets the reports back |
| `link` | 541 k | `GoneIsTold`, `NoFalseAlarm`, `AnswerIsOwn`, `ConnectedSettles`, `PlayingSettles`, `CallsSettle` | the alarm comes in time and not without reason; display and Live agree again; a lone caller gets its own path, and none waits for ever |
| `announce_roster`, `announce_songs`, `transport_landing`, `tracks_mute_reports`, `markers_collide` | - | one each, violated | section 5 |

**Bounds, and why they are enough.**

- `manager`: three sockets, two installs, two request ids, every kind of query
  parameters. Three sockets give a primary, a requester and a sibling or
  bystander; two ids let an old id meet a new request. A socket that has left may
  connect again, so there is no bound on the length of a run. Delays of 1 and 2
  let the timers of hold and request be due in either order of starting. No
  symmetry, as liveness is checked.
- `announcements`: at most six outside events (connecting, asking, stalling,
  ...) and three sockets, one of a legacy device. Six is what it takes for two
  devices to connect, ask, stall and have control move; both disagreements of section 5 show within it.
  One socket is stalled at a time (`MaxStalled = 1`): with two stalled in turn
  and seven events `PromptsTold` fails (section 5); with one it holds for any number of
  events, and `RolesTold` for any number of either (section 4).
- `markers`: every list of up to three cues out of four kinds (header, start, loop,
  plain) and three positions, in any order, and every playback position in half
  beats: all patterns of neighbours, ties and borders that the pairwise rules can
  tell apart. From each of those lists of fewer than three cues, clips over old markers and beside them,
  and three speeches (sections apart, repeated, and one right at the start) at two
  tempos and two offsets, one of them between two beats.
- `transport`: four markers (two songs, one Loop section, one Cue Clip section) in
  bars of two beats, or another set of markers; two events in all, taps or changes
  by hand; two messages on their way to Live. A retarget, a loop and a
  queued jump are each left over by at most one earlier tap. One handler waits at
  a time (`Controllers = 1`): jumps come from the primary, whose handler takes one
  message after another. Two handlers wait when the primary's device reconnects meanwhile and
  its new socket supersedes the old one (section 5). `SongsAreOfCache` and
  `IndicesCurrent` hold for any number (section 4).
  Indices are 0 to 2; -1 is the hazard at server.py:745.
- `tracks`: two tracks, one of them Cue Clips, starting from every list of them,
  and two events (an edit of the list to any other, a mute on either side, a
  restart, a request of another client): enough for tracks to trade places and
  the moved one to be muted, or a listener of any kind to be met by a reload. A mixer's
  and a device's listener met by one reload take three; the proof covers them.
- `script`: fourteen requests that together use every type tag, texts and blobs of
  every length modulo four, nested arrays and bundles, wildcards, and six
  datagrams that are no OSC; any three of them in a row with the bridge's polls
  in between, and room for three in the socket, so that one can be lost. `Radix`
  is 4, so that numbers need 1 to 8 bytes.
- `link`: two callers, a guide track with a clip and one without, an alarm after
  three seconds of silence and calls that time out after two, one datagram lost,
  one outage (Live quits or is busy, or the bridge restarts), two events. The code's
  `ABLETON_TIMEOUT` is 6 and its calls wait 5 seconds; what matters is that the alarm takes
  more than two polls, which `AlarmHasReason` (section 4) proves to be enough.

**Fairness, and why the code justifies it.**

- `manager`: time passes and asyncio runs tasks that are due (`Tick`, both
  expiries); a handler that has returned from its loop reaches its `disconnect()`.
  Nothing is assumed of devices: they need never answer, ask or leave.
- `transport`: the poll task, the event loop's handling of datagrams, Live's
  handling of messages and its playing go on, and a broadcast ends (its sends
  complete or fail). Nothing is assumed of the people. Datagrams between bridge
  and Live on the same machine are not lost. `TakeReply` stands for
  `HandleCuePoints` in the fairness condition, as its only taker.
- `tracks`: both poll tasks, the event loop and the remote script's tick go on.
- `script`: Live's timer ticks, `process()` does not stop halfway, the bridge
  polls. `ReportsReturn` needs the other clients to fall silent, which their bound does.
- `link`: both tasks and the event loop of the bridge go on, time passes, a Live
  that runs answers, and is not busy for ever. Nobody has to start Live.

`PendingRequestIsAnswerable` holds for devices that follow the documented
protocol (handoff devices send a client id). `QueueSettles` is about Live playing
and nobody editing at the computer. `MutesTrue` is about a
time when nothing is on its way, the tracks were listed since they last moved,
each is listened to, and none reports under an old index; finding 4 is what happens otherwise. `MutesSettle`,
`MetersSettle` and `ClipMapSettles` are about a script that still answers
(`DeafOverValuesOnly` says over which listeners a reload may silence it), and the last one about tracks that
do not move between a listing and the answer it leads to.

**What each property notices.** For every property there is a mistake in the
code's place that breaks it:

| property | variant |
|---|---|
| `TypeOK` | `Unregister_KeepsOrder`: a socket that leaves keeps its place in the order |
| `RolesConsistent` | `Withdraw_Never`: a request outlives its requester |
| `HoldOwnerAbsent` | `Siblings_Overlooked`: a hold for an install that is still there |
| `TimersMatchPromises` | `ClearRequest_KeepsTimer`: the expiry task is left running |
| `HeldRequestOutlivesHold` | `StartRequest_ShortTimer`: the request gets the hold's delay |
| `SlotSpec`, `SlotHeldForOwner` | `TakesEmptySlot_IgnoresHold`: a held slot looks empty |
| `NoSilentPromotion` | `FirstSibling_AnyDevice`: the first device left takes over |
| `HeldRequestHonoured` | `ReservationExpiry_ForgetsRequester`: the end of the hold just frees the slot |
| `RequestSettled`, `ControlReturns` | `StartRequest_NoTimer`, `StartReservation_NoTimer`: the task is never created |
| `PendingRequestIsAnswerable` | `RequestControl_AsksLegacy`: a legacy primary is asked |
| `RolesTold`, `PromptsTold` | `Announce_FirstOnly`, `Announce_IfChanged`: only one device is told; only a change of role is |
| `CueIndexLands` | `OriginalIndex_InDisplayOrder` |
| `NothingLost` | `AddCue_HeadersOnly`: only headers start a song |
| `SectionsTile` | `NextPosition_WithinSong`: the last section of a song has no end |
| `CurrentIsLatest` | `FindCurrentIndices_FirstSong` |
| `SectionsMarked` | `DeleteAll_EveryOther`: deleting while walking the list |
| `OthersUntouched` | `GenerateCue_Always`: the switch is pressed at every clip |
| `SongsAreOfCache`, `SongsCatchUp` | `TakeCues_SameLength`, `CuesUnchanged_SameLength`: lists are compared by length |
| `IndicesCurrent` | `TakeCues_LeavesIndices` |
| `RetargetIsLastTaps` | `SendJump_KeepsRetarget` |
| `QueueSettles` | `LoopCommand_NeverReleases`: a tap elsewhere leaves the Arrangement Loop on |
| `TablesAgree` | `StartListen_StopsOld`: a second start only stops the first |
| `DeafOverValuesOnly` | `StartListen_NoObject`: only the callback is kept |
| `MutesTrue` | `AnswerListen_Silent`: the present value is not reported |
| `MutesSettle` | `Listens_OnlyNew`: only new tracks are listened to |
| `ClipMapSettles` | `ClipNamesRequest_OnlyOnce` |
| `MetersSettle` | `KeptMeters_None` |
| `InboxSpec` | `Padded_Short`: no extra zeros after a string of four bytes |
| `AllRead` | `ProcessOne_Peeks`: a datagram is taken from the socket once it is understood |
| `ReportsReturn` | `ProcessOne_FirstClient`: the first other client stays the reply address |
| `GoneIsTold` | `Watchdog_KeepsPlaying` |
| `NoFalseAlarm` | `Silent_TooSoon` |
| `AnswerIsOwn` | `GuideClipPath_AnyTrack` |
| `ConnectedSettles` | `Watchdog_OneWay`: a connection once lost stays lost |
| `PlayingSettles` | `Poll_AsksNothing`: the bridge relies on its listeners |
| `CallsSettle` | `TimesOut_Retries` |

## 4. What is proved

`ConnectionManager_proofs`, for any sets of sockets, installs and request ids, any
query parameters and any delays:

| theorem | says |
|---|---|
| `TypeCorrect` | `[]TypeOK` |
| `RolesAgree`, `OwnerIsAbsent`, `TimersAgree`, `HoldEndsFirst` | `RolesConsistent`, `HoldOwnerAbsent`, `TimersMatchPromises`, `HeldRequestOutlivesHold` always hold |
| `HeldSlotIsTheOwners` | `SlotHeldForOwner` |
| `HeldRequestNeverLost` | `HeldRequestHonoured` |
| `PromotionsAreAskedFor` | `NoSilentPromotion` |
| `RequestsAnswerable` | `[]PendingRequestIsAnswerable`, if every handoff device sends a client id |
| `ImplementsControlSlot` | `Spec => SlotSpec`, if an install id is never taken for a socket, and neither is "none" (`PartiesDistinct`) |

From the assumptions `NullAssumption` (the null values are none of the others),
`HelloAssumption` (query parameters have their types) and `DelayAssumption`
(`0 < RECLAIM_GRACE < REQUEST_TIMEOUT`). The inductive invariant is
`Consistent`: the four safety invariants and `TypeOK` together. None is
inductive alone: that a hold's owner is absent needs the hold's slot to be empty,
that a request outlives its hold needs exactly one timer for each, and that
exactly one timer exists needs a request's id to belong to the pending request.
`HeldRequestNeverLost` follows because the due request timer would have to be no
longer than the hold's. There is one lemma for each part and, in it, one step
for each action.

For `ImplementsControlSlot`, each action maps to one step of `ControlSlot` or to a stutter; a lemma per
abstract step says which changes of holder, reservation and requester make it,
and `Consistent` supplies what the abstract guards need (`FreeIsFree`: a slot
that looks free to the manager is).

`Announcements_proofs`, for any devices, number of events and number of stalled sockets:

| theorem | says |
|---|---|
| `AddsToManager` | `LoopSpec => Spec`: the sends read the manager's state and never write it, so its theorems hold here too |
| `RolesAlwaysTold` | `[]RolesTold` |

Its invariant is `Informed`. The core is `RoleInv`: a device whose last message does
not say its role has a coroutine ahead that will tell it. That an event which
moves control starts such a coroutine for both devices is `WorldRoles`, and takes
`Consistent` (a slot that is reclaimed had no primary to tell). That the event loop
loses none is `EventLoopRoles`, and takes `LoopType`: coroutines that tell roles
(`RoleOp`) are never cut short, those that are (`broadcast_full_state`'s, by a
`KeyError`; a handler's, when it ends) tell none (`SongOp`), and a first snapshot
(`Greets`) is sent before anything can happen to its socket. `OrderInv` makes
`InOrder`, a CHOOSE, well defined: the insertion order of `_clients` is total.

`HandoffTexts_proofs`, for any devices and number of events, but at most one stalled
socket at a time (`MaxStalled \in {0, 1}`; sockets that wait to be closed do not count):

| theorem | says |
|---|---|
| `PromptsAlwaysTold` | `[]PromptsTold` |

A handoff text, unlike a role, is composed when its broadcast starts, so a text can be
outdated by the time it goes out. The invariant is `Informed` with `PromptInv`: a device
that does not show the pending request has a coroutine ahead that will send it, or will
compose it anew (`NotLost`), and an outdated text on its way to the device is followed by
such a coroutine in the same queue (`ReadyInv`, `ParkedInv`). What makes that hold is the
order of connection: a broadcast goes through the devices in that order, so what waits
at the stalled socket is for devices that connected after it (`BehindInv`), and every newer
text comes by that socket before it gets to them (`TellsBoth`) and waits in its place.
With a second stalled socket the newer text can get stuck elsewhere, and the older one
goes out last: that is the counterexample of section 5. `ShapesInv`, `WaitsInv`,
`LeavingInv` and `FreshInv` say what coroutines look like, who waits where, that a handler
leaves last, and that while a socket is stalled only the last event's coroutine runs. One
lemma per step (`FinishPrompts`, `ExpandPrompts`, `SendingPrompts`, `ParkPrompts`,
`ClosePrompts`, `LeavePrompts`, `StallPrompts`, `WakePrompts`, `ConnectPrompts`, ...).

`Transport_proofs`, for any markers, clip names, bars and bounds:

| theorem | says |
|---|---|
| `CacheIsTrue` | `[]SongsAreOfCache`: inductive as it stands, since every step but `HandleCuePoints` keeps the songs and at most empties the cache |
| `CurrentIsTrue` | `[]IndicesCurrent`: both handlers that change songs or position look the section up anew |
| `RetargetIsTrue` | `[]RetargetIsLastTaps`, if one handler waits at a time |

`RetargetIsTrue` needs more than the property: `WaitingIsLastTap` says that the
jump waiting for its broadcast is the last tap's and was not cancelled, without
which its second half could install an old retarget.

`Listeners_proofs`, for any finite set of tracks and any number of edits, restarts
and other clients' requests:

| theorem | says |
|---|---|
| `ListenersReport` | `[]TablesAgree` |
| `OnlyValuesDeafen` | `[]DeafOverValuesOnly` |
| `WellTyped` | `[]TypeOK` of `Tracks` |

The invariant is `ListenersInv /\ MessagesType`: `TablesAgree` needs the counts of
callbacks to be numbers and the messages on their way to carry indices;
`DeafOverValuesOnly` needs `OthersHaveObjects`, that only a listener for a mixer's or a
device parameter's value can lack its entry in `listener_objects`, in whatever order
listeners are started, stopped and cleared.

`Mutes_proofs`, for the same: `SwitchesAreTrue`, `[]MutesTrue`. The property speaks of
empty queues; the invariant `MutesInv` says what it takes for full ones. `ListInv`: once
the tracks are listed, the last listing on its way, or without one the bridge's own
list, is Live's. `SwitchInv`: with no listing on its way, each track either has a listen request
ahead of it, or, if it is listened to and no other track reports under its index, the
last report on its way under that index (without one, the switch) is its mute.

`Markers_proofs`, for any names, number of cue points, positions and tempos:

| theorem | says |
|---|---|
| `CuePointsHavePlaces` | `[]TypeOK` of `MCMarkers` |
| `AnalysisMarksSections` | `[]SectionsMarked` |
| `GeneratingSparesOthers` | `OthersUntouched` |
| `JumpsLand`, `NoCueIsLost`, `LengthsReachTheNext`, `TheLatestIsShown` | `CueIndexLands`, `NothingLost`, `SectionsTile`, `CurrentIsLatest` always hold |

From `NameAssumption` (headers, start keywords and the loop keyword exclude each
other), `CueAssumption` (the name Live gives a new cue point is a name, tempos are
numbers) and `MarkersAssumption` (the instance's own names). The clips and speeches are
those of `MCMarkers`, but the lemmas about the handlers hold for any: `DeletesAll`,
`PlacesAll` and `PairsOfAnalysis` for any sections that are more than a beat apart,
`ReadsLivesList` for any list of cue points. So the results of the parser do not
depend on where the list came from. Each is proved along the loop that the code
runs: `Rounds` is induction over its rounds (from `LeastNatural`, that a set of numbers has
a least one, which follows from the well-foundedness of finite sets under inclusion),
`LoopRuns` says that a loop whose rounds keep a kind of value runs to its end. `DeletesAll`
needs that the switch hits the *first* cue point left while a copy is walked; the parser's
`LoopInv` says that the songs built so far hold the cue points read so far, in order and
each with its index.

`BridgeLink_proofs`, for any callers, guide tracks, numbers of losses and outages:

| theorem | says |
|---|---|
| `AlarmInTime` | `[]GoneIsTold`, if the timeout is more than one second |
| `AlarmHasReason` | `[]NoFalseAlarm`, if it is more than two |
| `AnswersAreOwn` | `[]AnswerIsOwn` |
| `WellTyped` | `[]TypeOK` of `BridgeLink` |

Each takes an invariant of its own beside the types `LinkType`. `AlarmInv`: what
is heard after the alarm may turn the display to playing, but only for the
second until the watchdog finds Live back. `CalmInv`: without trouble the silence
is at most a second longer than the datagrams lost, because a poll that was made
is on its way, answered, or lost. `OwnInv`: every path on its way while a caller
waits alone is the one it asked for. The 6 seconds of the code satisfy both conditions.

**Only model-checked.** Liveness (`RequestSettled`, `ControlReturns`,
`SongsCatchUp`, `QueueSettles`, `MutesSettle`, `ClipMapSettles`, `MetersSettle`,
`AllRead`, `ReportsReturn`, `ConnectedSettles`, `PlayingSettles`, `CallsSettle`):
TLAPS does not prove it under fairness. `InboxSpec`: building and parsing of messages
recurse over nested arrays and bundles (`OscCodec` has RECURSIVE operators, which tlapm
does not support).

## 5. Where code and documentation disagree

Each is a run that TLC ends with the counterexample (`PROJECT.json`, "findings").

1. `announce_roster`: a roster composed before a wait goes out after a newer one,
   because the new primary is served first. Its list stays wrong.
2. `announce_songs`: a device leaves while `broadcast_full_state` waits; the
   `KeyError` ends the task and the remaining devices miss the new songs.
3. `transport_landing`: a tap on a marker, then on a section with a Cue Clip in
   the same bar. Nothing withdraws the cue jump that Live holds, so playback lands on
   the first tap, and the retarget fires when playback next passes the old launch
   beat. (That Live keeps the held jump is an assumption about Live.)
4. `tracks_mute_reports`: after tracks have traded places, starting a listener
   anew cannot remove the old callback (it is on another track, and the error is
   taken for benign), so it goes on reporting the moved track under its old index.
   The switch of another track then shows that mute until the next listing.
5. `markers_collide`: two sections that round to one beat press the cue switch
   twice there. The second press deletes the first one's marker, and both are gone.

Met on the way, and without a run of their own:

- A handoff text composed before a wait is overtaken by a newer one when two sockets
  stall in turn, and a device goes on showing a request that is over (server.py:466;
  `PromptsTold` with `MaxStalled = 2`, `MaxEvents = 7`).
- A primary taps a section with a Cue Clip, its device reconnects while the tap's
  broadcast waits (the new socket supersedes the old one), and stops playback. The stop
  clears no retarget, as there is none yet; the old handler then schedules one
  (server.py:790; `RetargetIsLastTaps` with `Controllers = 2`).
- An install with two sockets, one primary and one asking: when the primary's
  socket closes, the sibling is promoted with its own request still pending and
  waits for itself until the request expires (server.py:268).
- A handoff primary without a client id leaves with a request pending; a legacy
  device takes the slot, and cannot answer (server.py:281).
- After the cue cache was cleared, a reply without cue points equals the empty
  cache, and the old set's songs stay (ableton.py:474).
- What a device's analyze_guide sends starts with a word where replace_all_cues
  wants the tempo: nothing is created, and the device is told "done"
  (song.py:362, server.py:725).
- A reload while another client listens to a mixer's volume or to a device's parameter
  raises after the handlers were dropped; the script stays deaf until it is restarted
  (handler.py:114; track.py:259 and device.py:114 keep no object).
- Two callers that wait for a clip path at once can get each other's
  (ableton.py:364). Cue clip names are not asked for again if tracks move between
  listing and answer (ableton.py:580).
- Integers of exactly 32 bits are tagged as 32-bit signed and cannot be packed
  (osc_message_builder.py:115). A jump with an index of -1 counts in for nothing
  (server.py:745).

## 6. What is not modelled, and the plan

Not modelled, and why:

- *AbletonOSC's clip, clip slot, scene, view, MIDI map and application handlers:* the
  bridge uses one method of theirs. Their listeners are made by handler.py's
  `_start_listen` alone, with an object each, so that no reload fails over one; they keep
  no state that the bridge depends on. Of the device handler, which the bridge does not
  use, only the listeners for parameters are modelled, because a reload fails over them.
- *Smaller simplifications:* a second track listing is not asked for while one is on its
  way (`FetchTracks`; the bridge's poll, refresh and mute may overlap). The resync of a
  repeated request and the "busy" and "unavailable" results are not sent in
  `Announcements`: they change nothing but what the asking device shows of its own tap. A
  callback under a wildcard whose ValueError or AttributeError is swallowed
  (osc_server.py:103-116) counts as carried out in `ProcessOne`. `MatchesFrom` takes the
  characters of a pattern other than `*` literally, which holds for the addresses in use,
  where `re.match` would interpret them.
- *python-osc's dispatcher, packet and server modules:* only the developer client
  uses them. Building and parsing, which both ends use, are in `OscCodec`.
- *Analyzer:* tempo estimate and speech recognition are signal processing; what
  is done with their results is in `CueMarkers`.
- *Start-up and Bonjour, logging, installer and shell scripts, developer clients:*
  wiring, I/O and packaging.
- In the bridge: tempo and time signature, which are copied through; position and
  meter broadcasts; `/health`.

What is left, most important first:

1. `Transport` composed with the manager's role changes: `Controllers` says how many
   handlers may wait, and the composition would say whose they are.
2. `Transport` and `BridgeLink` together: a queued jump and a retarget that survive
   silence.
3. `Tracks` and `Transport` together: `ClipName` of the latter as the `clipMap` of
   the former.

## 7. Running it

    tlc -workers 2 -config Manager.cfg MCConnectionManager
    tlc -workers 2 -config Announcements.cfg MCAnnouncements
    tlc -workers 2 -config Markers.cfg MCMarkers
    tlc -workers 2 -config Transport.cfg MCTransport
    tlc -workers 2 -config Tracks.cfg MCTracks
    tlc -workers 2 -config OscServer.cfg MCOscServer
    tlc -workers 2 -config BridgeLink.cfg BridgeLink
    tlapm ConnectionManager_proofs.tla
    tlapm Announcements_proofs.tla
    tlapm HandoffTexts_proofs.tla
    tlapm Transport_proofs.tla
    tlapm Listeners_proofs.tla
    tlapm Mutes_proofs.tla
    tlapm BridgeLink_proofs.tla
    tlapm Markers_proofs.tla

and likewise for the configurations of section 5. Deadlock is checked for
`manager` and `link`, where time can always pass, and for `tracks`, whose polls
never end. It is not for the others: `Announcements` and `Markers` stop at their
bounds, Transport's people may stop tapping, and `process()` may have nothing to read.
