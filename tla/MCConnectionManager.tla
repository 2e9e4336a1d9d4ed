------------------------ MODULE MCConnectionManager ------------------------
(* Small instances of ConnectionManager for TLC. *)
EXTENDS ConnectionManager, TLC

CONSTANTS s1, s2, s3, x, y, r1, r2

HelloOf(p, c, prev) == [protocol |-> p, client_id |-> c, prev_role |-> prev]

\* A legacy device, and handoff devices of two installs, new or coming back as
\* an observer.
DocumentedHello ==
    {HelloOf(1, NoClientId, "none")}
        \cup {HelloOf(2, c, prev) : c \in {x, y}, prev \in {"primary", "observer"}}

\* As well: handoff devices that send no client id.
AnyHello == DocumentedHello \cup {HelloOf(2, NoClientId, "none")}

Symmetry == Permutations({s1, s2, s3}) \cup Permutations({x, y}) \cup Permutations({r1, r2})
=============================================================================
