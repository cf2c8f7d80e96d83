------------------------------ MODULE MCApply -------------------------------
(* Instances of Apply for TLC. *)
EXTENDS Apply, TLC

CONSTANTS k1, k2, v1, v2

\* A put, a bulk put over it, and a delete.
Commands == {k1 :> v1, k1 :> v2 @@ k2 :> v2, k1 :> None}

\* No guard and no other variable depends on store or late, and the properties
\* look at store only while mirror holds: two states that differ in nothing
\* else are one.
Seen == <<raft, loop, request, mirror, crashes,
          IF mirror THEN store ELSE late # {}>>
=============================================================================
