------------------------------ MODULE MCTracks ------------------------------
(* Small instances of Tracks for TLC. *)
EXTENDS Tracks, TLC

CONSTANTS cueClips, drums

BothTracks == {cueClips, drums}
=============================================================================
