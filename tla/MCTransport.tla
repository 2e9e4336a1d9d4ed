---------------------------- MODULE MCTransport ----------------------------
(* Small instances of Transport for TLC: bars of two beats. *)
EXTENDS Transport, TLC

CONSTANTS header, start, loops, verse, pickup

Cue(n, p) == [name |-> n, position |-> p]

\* Two songs, the second with a Loop section, not in the order of the timeline.
Set == <<Cue(header, 0), Cue(pickup, 6), Cue(start, 4), Cue(loops, 2)>>
\* As many markers elsewhere.
OtherSet == <<Cue(start, 0), Cue(verse, 2), Cue(loops, 4), Cue(verse, 6)>>

TwoSets == {Set, OtherSet}
OneSet == {Set}
=============================================================================
