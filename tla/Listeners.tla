----------------------------- MODULE Listeners -----------------------------
(***************************************************************************)
(* Listening for a property of a track or of its device, as AbletonOSC's   *)
(* handlers do it (handler.py, track.py, device.py): callbacks are         *)
(* attached to Live's objects, but kept in tables whose keys name a track  *)
(* by its index.  The track handler and the device handler have a table    *)
(* each; no key is in both, and they are one function here.  A device      *)
(* stands for its track: it has one parameter, and goes when the track     *)
(* goes.  The operators here are steps on the tables; the modules that     *)
(* extend this one say when they happen and what is sent.                  *)
(***************************************************************************)
EXTENDS Integers, Sequences, FiniteSets

CONSTANTS
    Track,            \* Live's track objects
    NoTrack,
    GoneTrack,        \* any track object that Live has deleted
    Property,         \* what is listened for
    ValueProperty,    \* of a mixer's or a device's parameter: its value is listened to
    DeviceProperty    \* those whose listeners the device handler keeps

ASSUME ListenerAssumption ==
    /\ IsFiniteSet(Track) /\ NoTrack \notin Track /\ GoneTrack \notin Track
    /\ NoTrack # GoneTrack
    /\ ValueProperty \subseteq Property /\ DeviceProperty \subseteq Property

VARIABLES
    tracks,      \* song.tracks
    attached,    \* how many callbacks of each key are attached to each track
    functions,   \* listener_functions: the track its callback was made for
    objects      \* listener_objects

liveTracks == <<tracks, attached>>
tables == <<functions, objects>>

Index == 0..Cardinality(Track) - 1
Key == Property \X Index
NoListeners == [k \in Key |-> NoTrack]

TrackList == UNION {[1..n -> Track] : n \in 0..Cardinality(Track)}
Distinct(list) == \A i, j \in DOMAIN list : list[i] = list[j] => i = j
InList(t, list) == \E i \in DOMAIN list : list[i] = t

ListenersInit ==
    /\ tracks \in {list \in TrackList : list # <<>> /\ Distinct(list)}
    /\ attached = [t \in Track |-> [k \in Key |-> 0]]
    /\ functions = NoListeners /\ objects = NoListeners

-----------------------------------------------------------------------------
\* The track a request names; an index beyond the list raises IndexError.
HasIndex(i) == i + 1 \in DOMAIN tracks
TrackAt(i) == tracks[i + 1]

\* Whether the callback kept under k is one that track t can remove.
Removes(t, k) == functions[k] = t /\ attached[t][k] > 0

\* Removing the callback kept under k from track t: when it is attached to another
\* track Live raises, and _stop_listen goes on.
Without(t, k) == IF Removes(t, k) THEN [attached EXCEPT ![t][k] = @ - 1] ELSE attached

\* Variant: a listener that is there already is stopped, and not started again.
StartListen_StopsOld(prop, i) ==
    LET k == <<prop, i>>
        t == TrackAt(i)
    IN  /\ attached' = IF functions[k] # NoTrack THEN Without(t, k) ELSE [attached EXCEPT ![t][k] = @ + 1]
        /\ functions' = [functions EXCEPT ![k] = t]
        /\ objects' = [objects EXCEPT ![k] = t]

\* Variant: only the callback is kept, as for a parameter's value.
StartListen_NoObject(prop, i) ==
    LET k == <<prop, i>>
        t == TrackAt(i)
    IN  /\ attached' = [Without(t, k) EXCEPT ![t][k] = @ + 1]
        /\ functions' = [functions EXCEPT ![k] = t]
        /\ UNCHANGED objects

\* _start_listen.
StartListen(prop, i) ==
    LET k == <<prop, i>>
        t == TrackAt(i)
    IN  /\ attached' = [Without(t, k) EXCEPT ![t][k] = @ + 1]
        /\ functions' = [functions EXCEPT ![k] = t]
        /\ objects' = [objects EXCEPT ![k] = t]

\* _stop_listen.
StopListen(prop, i) ==
    LET k == <<prop, i>>
    IN  /\ attached' = Without(TrackAt(i), k)
        /\ functions' = [functions EXCEPT ![k] = NoTrack]
        /\ objects' = [objects EXCEPT ![k] = NoTrack]

\* Whether listening for a parameter's value, and stopping it, get past removing the
\* callback kept under the key: Live's exception is not caught there.
GoesOn(prop, i) ==
    LET k == <<prop, i>> IN functions[k] # NoTrack => Removes(TrackAt(i), k)

\* _start_mixer_listen and device_get_parameter_value_listener, which make no entry in
\* listener_objects.
StartValueListen(prop, i) ==
    LET k == <<prop, i>>
        t == TrackAt(i)
    IN  /\ GoesOn(prop, i)
        /\ attached' = [Without(t, k) EXCEPT ![t][k] = @ + 1]
        /\ functions' = [functions EXCEPT ![k] = t]
        /\ UNCHANGED objects

\* _stop_mixer_listen and device_get_parameter_remove_value_listener.
StopValueListen(prop, i) ==
    LET k == <<prop, i>>
    IN  /\ GoesOn(prop, i)
        /\ attached' = Without(TrackAt(i), k)
        /\ functions' = [functions EXCEPT ![k] = NoTrack]
        /\ UNCHANGED objects

\* A handler's _clear_listeners looks up the object of every listener it keeps; a
\* parameter's value has none in listener_objects, and the KeyError leaves the rest.
AllHaveObjects(keys) == \A k \in keys : functions[k] # NoTrack => objects[k] # NoTrack
Stopped(table, done) == [k \in Key |-> IF k \in done THEN NoTrack ELSE table[k]]

\* The handlers are cleared one after the other, the track handler before the device
\* handler: an exception in the first leaves the second as it is.
DeviceKey == DeviceProperty \X Index
TrackKey == Key \ DeviceKey
ClearsAll(keys, done) == \A k \in keys : functions[k] # NoTrack => k \in done

ClearListeners ==
    \E done \in SUBSET {k \in Key : objects[k] # NoTrack} :
        /\ IF AllHaveObjects(TrackKey) THEN ClearsAll(TrackKey, done) ELSE done \subseteq TrackKey
        /\ AllHaveObjects(Key) => ClearsAll(Key, done)
        /\ attached' = [t \in Track |-> [k \in Key |->
                IF k \in done /\ Removes(t, k) THEN attached[t][k] - 1 ELSE attached[t][k]]]
        /\ functions' = Stopped(functions, done) /\ objects' = Stopped(objects, done)

\* The indices under which a track's callbacks report a change of a property.
ReportedAs(t, prop) == {i \in Index : attached[t][<<prop, i>>] > 0}

-----------------------------------------------------------------------------
(* Live *)

\* A track that is deleted takes the callbacks attached to it along; the table goes
\* on naming an object that is none of the tracks'.
Survives(list) == [t \in Track |-> IF InList(t, list) THEN attached[t] ELSE [k \in Key |-> 0]]
Refers(table, list) ==
    [k \in Key |-> IF table[k] = NoTrack \/ InList(table[k], list) THEN table[k] ELSE GoneTrack]

\* Somebody adds, deletes or moves tracks.
TracksEdited(list) ==
    /\ list \in TrackList /\ list # <<>> /\ Distinct(list) /\ list # tracks
    /\ tracks' = list
    /\ attached' = Survives(list)
    /\ functions' = Refers(functions, list) /\ objects' = Refers(objects, list)

\* The remote script starts again, with empty tables; Live drops its callbacks.
ScriptRestarts ==
    /\ attached' = [t \in Track |-> [k \in Key |-> 0]]
    /\ functions' = NoListeners /\ objects' = NoListeners
    /\ UNCHANGED tracks

-----------------------------------------------------------------------------
ListenersTypeOK ==
    /\ tracks \in TrackList
    /\ attached \in [Track -> [Key -> Nat]]
    /\ functions \in [Key -> Track \cup {NoTrack, GoneTrack}]
    /\ objects \in [Key -> Track \cup {NoTrack, GoneTrack}]

\* A listener that can be stopped is one that reports: the callback kept under a key
\* is attached to the track it was made for (_start_listen, _stop_listen).
TablesAgree == \A k \in Key : functions[k] \in Track => attached[functions[k]][k] > 0
=============================================================================
