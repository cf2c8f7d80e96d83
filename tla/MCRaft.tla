------------------------------- MODULE MCRaft -------------------------------
(* Instances of Raft for TLC: three nodes of which s3 only votes and follows. *)
EXTENDS Raft, TLC

CONSTANTS s1, s2, s3

Cluster == {s1, s2, s3}

\* Two rivals that may each campaign for terms 1 and 2.
Rivals    == (s1 :> 2) @@ (s2 :> 2) @@ (s3 :> 0)
RivalsSym == Permutations({s1, s2})

\* s1 may lead term 1, and s2 depose it in term 2 (or fail in term 1 first);
\* also the length up to which each proposes.
Growing == (s1 :> 1) @@ (s2 :> 2) @@ (s3 :> 0)

\* No behaviour is followed beyond a request to s3, which only votes here, a
\* delivery, which changes nothing that the properties are about, or the point
\* where a leader's log was rewritten, of which the properties say no more.
InScope ==
    /\ \A m \in appendRPCs : m.to # s3
    /\ \A s \in Server : applied[s] = <<>>
    /\ "Leader" \notin overrun

\* Bounds on proposals and on deliveries.
None      == [s \in Server |-> 0]
FirstOnce == (s1 :> 1) @@ (s2 :> 0) @@ (s3 :> 0)
EachTwice == [s \in Server |-> 2]

\* A single leader for one term, and its two interchangeable followers.
OneLeader    == (s1 :> 1) @@ (s2 :> 0) @@ (s3 :> 0)
OneLeaderSym == Permutations({s2, s3})

\* Two nodes: s1 leads; s2 can depose it but, its log being shorter, is not
\* elected while s1 has entries that it lacks.
Pair      == {s1, s2}
PairRetry == (s1 :> 3) @@ (s2 :> 2)
=============================================================================
