--------------------------- MODULE MCLeaderHandover ---------------------------
(* Two replicas, two claims and two devices.                               *)
EXTENDS LeaderHandover, TLC

CONSTANTS r1, r2, c1, c2, d1, d2

\* Claims and devices are interchangeable; so are the replicas.
Symmetry == Permutations({r1, r2}) \union Permutations({c1, c2})
            \union Permutations({d1, d2})
=============================================================================
