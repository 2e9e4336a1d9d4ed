-------------------------- MODULE MCAnnouncements --------------------------
(* Small instances of Announcements for TLC. *)
EXTENDS Announcements, TLC

CONSTANTS s1, s2, s3, x, y, r1, r2

HelloOf(p, c, prev) == [protocol |-> p, client_id |-> c, prev_role |-> prev]

HandoffHello == {HelloOf(2, x, "none"), HelloOf(2, y, "observer")}
MixedHello == HandoffHello \cup {HelloOf(1, NoClientId, "none")}

Symmetry == Permutations({s1, s2, s3}) \cup Permutations({r1, r2})
=============================================================================
