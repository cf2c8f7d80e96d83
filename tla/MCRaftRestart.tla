---------------------------- MODULE MCRaftRestart ----------------------------
(* Instances of RaftRestart for TLC: two nodes, of which s1 campaigns, for  *)
(* terms 1 and 2, and s2 votes and follows.  Each may die once.             *)
EXTENDS RaftRestart, TLC

CONSTANTS s1, s2

Pair     == {s1, s2}
Campaign == (s1 :> 2) @@ (s2 :> 0)

\* Bounds on crashes and on deliveries.
EachOnce == (s1 :> 1) @@ (s2 :> 1)
Never    == (s1 :> 0) @@ (s2 :> 0)
=============================================================================
