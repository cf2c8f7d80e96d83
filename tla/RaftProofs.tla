----------------------------- MODULE RaftProofs -----------------------------
(***************************************************************************)
(* Theorems about Raft, for any cluster, any bounds and both values of     *)
(* Durable.                                                                *)
(***************************************************************************)
EXTENDS Raft, FiniteSetTheorems, TLAPS

-----------------------------------------------------------------------------
(* Facts about the operators *)

LEMMA LastTermType ==
    ASSUME NEW l \in Seq(Entry)
    PROVE  LastTerm(l) \in Nat
<1>1. CASE l = <<>>
  BY <1>1 DEF LastTerm
<1>2. CASE l # <<>>
  <2>1. Len(l) \in 1..Len(l)
    BY <1>2
  <2>2. l[Len(l)] \in Entry
    BY <2>1
  <2> QED BY <1>2, <2>2 DEF LastTerm, Entry
<1> QED BY <1>1, <1>2

\* The merge of HandleAppendEntries yields a log when prev is inside the log.
LEMMA MergeType ==
    ASSUME NEW l \in Seq(Entry), NEW es \in Seq(Entry),
           NEW prev \in Nat, prev <= Len(l)
    PROVE  MergeEntries(l, prev, es) \in Seq(Entry)
<1> DEFINE agrees(i) == prev + i <= Len(l) /\ l[prev + i].term = es[i].term
<1> DEFINE keep(k) == k <= prev \/ \A i \in 1..(k - prev) : agrees(i)
<1> DEFINE n == prev + Len(es)
<1>1. n \in Nat
  OBVIOUS
<1>2. \A k \in 1..n : (IF keep(k) THEN l[k] ELSE es[k - prev]) \in Entry
  <2> SUFFICES ASSUME NEW k \in 1..n
               PROVE  (IF keep(k) THEN l[k] ELSE es[k - prev]) \in Entry
    OBVIOUS
  <2>1. CASE k <= prev
    BY <2>1
  <2>2. CASE k > prev
    <3>1. k - prev \in 1..Len(es)
      BY <2>2
    <3>2. keep(k) => agrees(k - prev)
      BY <2>2, <3>1
    <3>3. keep(k) => k \in 1..Len(l)
      BY <3>1, <3>2
    <3>4. es[k - prev] \in Entry
      BY <3>1
    <3>5. keep(k) => l[k] \in Entry
      BY <3>3
    <3> HIDE DEF keep, agrees
    <3> QED BY <3>4, <3>5
  <2> QED BY <2>1, <2>2
<1>3. [k \in 1..n |-> IF keep(k) THEN l[k] ELSE es[k - prev]] \in Seq(Entry)
  <2> DEFINE f == [k \in 1..n |-> IF keep(k) THEN l[k] ELSE es[k - prev]]
  <2> HIDE DEF keep, n
  <2>1. f \in [1..n -> Entry]
    BY <1>2
  <2> HIDE DEF f
  <2>2. f \in Seq(Entry)
    BY <1>1, <2>1
  <2> QED BY <2>2 DEF f
<1> QED BY <1>3 DEF MergeEntries

\* What a handler writes into an RPC record keeps it one.
LEMMA VoteUpdate ==
    ASSUME NEW m \in VoteRPC, NEW st \in Stage, NEW t \in Nat, NEW b \in BOOLEAN
    PROVE  /\ [m EXCEPT !.stage = st] \in VoteRPC
           /\ [m EXCEPT !.stage = st, !.ok = b, !.rterm = t] \in VoteRPC
           /\ [m EXCEPT !.stage = st, !.rterm = t, !.ok = b] \in VoteRPC
BY DEF VoteRPC

LEMMA AppendUpdate ==
    ASSUME NEW m \in AppendRPC, NEW st \in Stage, NEW t \in Nat, NEW b \in BOOLEAN
    PROVE  /\ [m EXCEPT !.stage = st] \in AppendRPC
           /\ [m EXCEPT !.stage = st, !.ok = b, !.rterm = t] \in AppendRPC
           /\ [m EXCEPT !.stage = st, !.rterm = t, !.ok = b] \in AppendRPC
BY DEF AppendRPC

\* The entries of an AppendEntries request are a log.
LEMMA SuffixType ==
    ASSUME NEW l \in Seq(Entry), NEW i \in Nat \ {0}
    PROVE  SubSeq(l, i, Len(l)) \in Seq(Entry)
<1>1. \A k \in i..Len(l) : l[k] \in Entry
  OBVIOUS
<1> QED BY <1>1

-----------------------------------------------------------------------------
(* Type correctness *)

LEMMA InitType == Init => TypeOK
BY DEF Init, TypeOK, Role, Loop

\* Steps of a node's own goroutines keep the types.
LEMMA NodeType ==
    ASSUME TypeOK, NEW s \in Server, NodeStep(s)
    PROVE  TypeOK'
<1> USE DEF TypeOK
<1>1. CASE Run(s)
  BY <1>1 DEF Run, Role, Loop, electionVars, logVars, leaderVars
<1>2. CASE runFollower(s)
  BY <1>2 DEF runFollower, Role, Loop, logVars, leaderVars
<1>3. CASE runCandidate(s)
  <2>1. LastTerm(log[s]) \in Nat
    BY LastTermType
  <2>2. Len(log[s]) \in Nat
    OBVIOUS
  <2>3. currentTerm[s] + 1 \in Nat
    OBVIOUS
  <2>4. voteRPCs' \subseteq VoteRPC
    <3>1. \A p \in peers(s), st \in Stage :
             [from |-> s, to |-> p, term |-> currentTerm[s] + 1,
              lastIndex |-> Len(log[s]), lastTerm |-> LastTerm(log[s]),
              stage |-> st, rterm |-> 0, ok |-> FALSE] \in VoteRPC
      BY <2>1, <2>2, <2>3 DEF VoteRPC, peers
    <3>2. (IF Durable THEN "held" ELSE "sent") \in Stage
      BY DEF Stage
    <3> QED BY <1>3, <3>1, <3>2 DEF runCandidate
  <2>5. /\ currentTerm' \in [Server -> Nat]
        /\ votedFor' \in [Server -> Server \cup {Nil}]
        /\ leaderID' \in [Server -> Server \cup {Nil}]
        /\ term' \in [Server -> Nat]
        /\ votes' \in [Server -> SUBSET Server]
        /\ loop' \in [Server -> Loop]
    BY <1>3, <2>3 DEF runCandidate, Loop
  <2> QED BY <1>3, <2>4, <2>5 DEF runCandidate, logVars, leaderVars
<1>4. CASE CampaignPersisted(s)
  <2>1. voteRPCs' \subseteq VoteRPC
    <3>1. \A m \in voteRPCs : [m EXCEPT !.stage = "sent"] \in VoteRPC
      BY VoteUpdate DEF Stage
    <3> QED BY <1>4, <3>1 DEF CampaignPersisted
  <2> QED BY <1>4, <2>1
          DEF CampaignPersisted, Loop, electionVars, logVars, leaderVars
<1>5. CASE ElectionWon(s)
  BY <1>5 DEF ElectionWon, Role, Loop, logVars, leaderVars
<1>6. CASE ElectionEnds(s)
  BY <1>6 DEF ElectionEnds, Loop, electionVars, logVars, leaderVars
<1>7. CASE runLeader(s)
  <2>1. nextIndex' \in [Server -> [Server -> Nat \ {0}]]
    <3>1. Len(log[s]) + 1 \in Nat \ {0}
      OBVIOUS
    <3>2. [p \in Server |-> Len(log[s]) + 1] \in [Server -> Nat \ {0}]
      BY <3>1
    <3> QED BY <1>7, <3>2 DEF runLeader, nextAfter
  <2>2. matchIndex' \in [Server -> [Server -> Nat]]
    BY <1>7 DEF runLeader
  <2> QED BY <1>7, <2>1, <2>2 DEF runLeader, Loop, logVars
<1>8. CASE LeaderReturns(s)
  BY <1>8 DEF LeaderReturns, Loop, electionVars, logVars
<1>9. CASE \E p \in peers(s) : sendAppendEntries(s, p)
  <2> PICK p \in peers(s) : sendAppendEntries(s, p)
    BY <1>9
  <2> DEFINE prev == nextIndex[s][p] - 1
  <2>1. p \in Server /\ prev \in Nat
    <3>1. nextIndex[s] \in [Server -> Nat \ {0}] /\ p \in Server
      BY DEF peers
    <3> HIDE DEF TypeOK
    <3>2. nextIndex[s][p] \in Nat \ {0}
      BY <3>1
    <3> QED BY <3>1, <3>2
  <2>2. SubSeq(log[s], prev + 1, Len(log[s])) \in Seq(Entry)
    <3> HIDE DEF prev, TypeOK
    <3>1. prev + 1 \in Nat \ {0}
      BY <2>1
    <3>2. log[s] \in Seq(Entry)
      BY DEF TypeOK
    <3> QED BY <3>1, <3>2, SuffixType
  <2>3. (IF prev \in 1..Len(log[s]) THEN log[s][prev].term ELSE 0) \in Nat
    <3>0. log[s] \in Seq(Entry)
      OBVIOUS
    <3>1. prev \in 1..Len(log[s]) => log[s][prev] \in Entry
      <4> HIDE DEF prev, TypeOK
      <4> QED BY <3>0
    <3> QED BY <3>1 DEF Entry
  <2>4. appendRPCs' \subseteq AppendRPC
    <3>1. [from |-> s, to |-> p, term |-> term[s], prevIndex |-> prev,
           prevTerm  |-> IF prev \in 1..Len(log[s])
                         THEN log[s][prev].term ELSE 0,
           entries   |-> SubSeq(log[s], prev + 1, Len(log[s])),
           commit    |-> commitIndex[s],
           stage |-> "sent", rterm |-> 0, ok |-> FALSE] \in AppendRPC
      <4> HIDE DEF prev
      <4> QED BY <2>1, <2>2, <2>3 DEF AppendRPC, Stage
    <3> QED BY <3>1 DEF sendAppendEntries
  <2> QED BY <2>4
          DEF sendAppendEntries, electionVars, logVars, leaderVars, runVars
<1>10. CASE \E d \in Data : ProposeCommand(s, d)
  <2> PICK d \in Data : ProposeCommand(s, d)
    BY <1>10
  <2>1. [term |-> currentTerm[s], data |-> d] \in Entry
    BY DEF Entry
  <2>2. log' \in [Server -> Seq(Entry)]
    BY <2>1 DEF ProposeCommand
  <2> QED BY <2>2 DEF ProposeCommand, electionVars, leaderVars, runVars
<1>11. CASE runDelivery(s)
  <2> DEFINE i == Len(applied[s]) + 1
  <2>1. i \in 1..Len(log[s])
    BY <1>11 DEF runDelivery
  <2>2. log[s][i] \in Entry
    BY <2>1
  <2>3. applied' \in [Server -> Seq(Entry)]
    BY <1>11, <2>2 DEF runDelivery
  <2> QED BY <1>11, <2>3
          DEF runDelivery, electionVars, logVars, leaderVars, runVars
<1> QED BY <1>1, <1>2, <1>3, <1>4, <1>5, <1>6, <1>7, <1>8, <1>9, <1>10, <1>11
        DEF NodeStep

LEMMA VoteType ==
    ASSUME TypeOK, NEW m \in voteRPCs, VoteStep(m)
    PROVE  TypeOK'
<1> USE DEF TypeOK
<1>0. m \in VoteRPC /\ m.from \in Server /\ m.to \in Server
  BY DEF VoteRPC
<1>1. CASE RejectVote(m)
  <2>1. voteRPCs' \subseteq VoteRPC
    <3>1. [m EXCEPT !.stage = "replied", !.ok = FALSE,
                    !.rterm = currentTerm[m.to]] \in VoteRPC
      BY <1>0, VoteUpdate DEF Stage
    <3> QED BY <1>1, <3>1 DEF RejectVote, ReplaceVote
  <2> QED BY <1>1, <2>1
          DEF RejectVote, electionVars, logVars, leaderVars, runVars
<1>2. CASE StepDownForVote(m)
  <2>1. voteRPCs' \subseteq VoteRPC
    <3>1. [m EXCEPT !.stage = "stepping"] \in VoteRPC
      BY <1>0, VoteUpdate DEF Stage
    <3> QED BY <1>2, <3>1 DEF StepDownForVote, ReplaceVote
  <2>2. m.term \in Nat
    BY <1>0 DEF VoteRPC
  <2> QED BY <1>0, <1>2, <2>1, <2>2
          DEF StepDownForVote, stepDown, Role, logVars, leaderVars, runVars
<1>3. CASE CastVote(m)
  <2>1. m.term \in Nat
    BY <1>0 DEF VoteRPC
  <2>2. currentTerm' \in [Server -> Nat]
    BY <1>0, <1>3, <2>1 DEF CastVote
  <2>3. /\ votedFor' \in [Server -> Server \cup {Nil}]
        /\ state' \in [Server -> Role]
        /\ leaderID' \in [Server -> Server \cup {Nil}]
    BY <1>0, <1>3 DEF CastVote, mayVote, Role
  <2>4. voteRPCs' \subseteq VoteRPC
    <3>1. PICK st \in Stage, t \in Nat, b \in BOOLEAN :
             ReplaceVote(m, [m EXCEPT !.stage = st, !.rterm = t, !.ok = b])
      BY <1>0, <1>3, <2>1 DEF CastVote, mayVote, Stage
    <3>2. [m EXCEPT !.stage = st, !.rterm = t, !.ok = b] \in VoteRPC
      BY <1>0, VoteUpdate
    <3> QED BY <3>1, <3>2 DEF ReplaceVote
  <2> QED BY <1>3, <2>2, <2>3, <2>4
          DEF CastVote, logVars, leaderVars, runVars
<1>4. CASE VoteReply(m)
  <2>1. voteRPCs' \subseteq VoteRPC
    <3>1. [m EXCEPT !.stage = "yielding"] \in VoteRPC
      BY <1>0, VoteUpdate DEF Stage
    <3> QED BY <1>4, <3>1 DEF VoteReply, ReplaceVote
  <2>2. m.rterm \in Nat
    BY <1>0 DEF VoteRPC
  <2>3. votes' \in [Server -> SUBSET Server]
    <3>1. votes[m.from] \cup {m.to} \in SUBSET Server
      BY <1>0
    <3> QED BY <1>0, <1>4, <3>1 DEF VoteReply
  <2>4. /\ currentTerm' \in [Server -> Nat]
        /\ votedFor' \in [Server -> Server \cup {Nil}]
        /\ state' \in [Server -> Role]
        /\ leaderID' \in [Server -> Server \cup {Nil}]
    <3>1. CASE stepDown(m.from, m.rterm)
      BY <1>0, <2>2, <3>1 DEF stepDown, Role
    <3>2. CASE UNCHANGED electionVars
      BY <3>2 DEF electionVars
    <3> QED BY <1>4, <3>1, <3>2 DEF VoteReply
  <2> QED BY <1>4, <2>1, <2>3, <2>4 DEF VoteReply, logVars, leaderVars
<1>5. CASE VoteMetaPersisted(m)
  <2>1. voteRPCs' \subseteq VoteRPC
    <3>1. /\ [m EXCEPT !.stage = "stepped"] \in VoteRPC
          /\ [m EXCEPT !.stage = "replied"] \in VoteRPC
      BY <1>0, VoteUpdate DEF Stage
    <3> QED BY <1>5, <3>1 DEF VoteMetaPersisted, ReplaceVote
  <2>2. votes' \in [Server -> SUBSET Server]
    <3>1. votes[m.from] \cup {m.to} \in SUBSET Server
      BY <1>0
    <3> QED BY <1>0, <1>5, <3>1 DEF VoteMetaPersisted
  <2> QED BY <1>5, <2>1, <2>2
          DEF VoteMetaPersisted, electionVars, logVars, leaderVars
<1>6. CASE VoteError(m)
  BY <1>6 DEF VoteError, electionVars, logVars, leaderVars, runVars
<1> QED BY <1>1, <1>2, <1>3, <1>4, <1>5, <1>6 DEF VoteStep

LEMMA AppendType ==
    ASSUME TypeOK, NEW m \in appendRPCs, AppendStep(m)
    PROVE  TypeOK'
<1> USE DEF TypeOK
<1>0. /\ m \in AppendRPC /\ m.from \in Server /\ m.to \in Server
      /\ m.term \in Nat /\ m.prevIndex \in Nat /\ m.commit \in Nat
      /\ m.rterm \in Nat /\ m.entries \in Seq(Entry)
  BY DEF AppendRPC
<1>1. CASE RejectAppend(m)
  <2>1. appendRPCs' \subseteq AppendRPC
    <3>1. [m EXCEPT !.stage = "replied", !.ok = FALSE,
                    !.rterm = currentTerm[m.to]] \in AppendRPC
      BY <1>0, AppendUpdate DEF Stage
    <3> QED BY <1>1, <3>1 DEF RejectAppend, ReplaceAppend
  <2> QED BY <1>1, <2>1
          DEF RejectAppend, electionVars, logVars, leaderVars, runVars
<1>2. CASE StepDownForAppend(m)
  <2>1. appendRPCs' \subseteq AppendRPC
    <3>1. [m EXCEPT !.stage = "stepping"] \in AppendRPC
      BY <1>0, AppendUpdate DEF Stage
    <3> QED BY <1>2, <3>1 DEF StepDownForAppend, ReplaceAppend
  <2> QED BY <1>0, <1>2, <2>1
          DEF StepDownForAppend, stepDown, Role, logVars, leaderVars, runVars
<1>3. CASE ReceiveEntries(m)
  <2> DEFINE s == m.to
  <2> DEFINE matches == m.prevIndex > 0 =>
                           /\ m.prevIndex <= Len(log[s])
                           /\ log[s][m.prevIndex].term = m.prevTerm
  <2> DEFINE merged == MergeEntries(log[s], m.prevIndex, m.entries)
  <2>1. matches => m.prevIndex <= Len(log[s])
    BY <1>0
  <2>2. matches => merged \in Seq(Entry)
    BY <1>0, <2>1, MergeType
  <2>3. matches => Len(merged) \in Nat
    BY <2>2
  <2>4. log' \in [Server -> Seq(Entry)]
    <3> HIDE DEF merged
    <3> QED BY <1>0, <1>3, <2>2 DEF ReceiveEntries, merged
  <2>5. commitIndex' \in [Server -> Nat]
    BY <1>0, <1>3, <2>3 DEF ReceiveEntries
  <2>6. /\ currentTerm' \in [Server -> Nat]
        /\ votedFor' \in [Server -> Server \cup {Nil}]
        /\ state' \in [Server -> Role]
        /\ leaderID' \in [Server -> Server \cup {Nil}]
    BY <1>0, <1>3 DEF ReceiveEntries, roleAfter, Role
  <2>7. appendRPCs' \subseteq AppendRPC
    <3>1. PICK t \in Nat, b \in BOOLEAN :
             ReplaceAppend(m, [m EXCEPT !.stage = "replied", !.rterm = t,
                                        !.ok = b])
      BY <1>0, <1>3 DEF ReceiveEntries
    <3>2. [m EXCEPT !.stage = "replied", !.rterm = t, !.ok = b] \in AppendRPC
      BY <1>0, AppendUpdate DEF Stage
    <3> QED BY <3>1, <3>2 DEF ReplaceAppend
  <2>8. overrun' \subseteq Role
    BY <1>0, <1>3 DEF ReceiveEntries
  <2> QED BY <1>3, <2>4, <2>5, <2>6, <2>7, <2>8
          DEF ReceiveEntries, leaderVars, runVars
<1>4. CASE AppendReply(m)
  <2>1. CASE ReplyDeposes(m)
    <3>1. [m EXCEPT !.stage = "yielding"] \in AppendRPC
      BY <1>0, AppendUpdate DEF Stage
    <3>2. appendRPCs' \subseteq AppendRPC
      BY <2>1, <3>1 DEF ReplyDeposes, ReplaceAppend
    <3> QED BY <1>0, <2>1, <3>2
            DEF ReplyDeposes, stepDown, Role, logVars, leaderVars, runVars
  <2>2. CASE ReplyIgnored(m)
    BY <2>2 DEF ReplyIgnored, electionVars, logVars, leaderVars, runVars
  <2>3. CASE ReplySuccess(m)
    <3>1. /\ matchIndex[m.from] \in [Server -> Nat]
          /\ nextIndex[m.from] \in [Server -> Nat \ {0}]
          /\ Len(log[m.from]) \in Nat
          /\ Len(log[m.from]) + 1 \in Nat \ {0}
      <4>1. nextIndex[m.from] \in [Server -> Nat \ {0}]
        BY <1>0
      <4>2. log[m.from] \in Seq(Entry)
        BY <1>0
      <4>3. Len(log[m.from]) \in Nat
        BY <4>2
      <4>4. Len(log[m.from]) + 1 \in Nat \ {0}
        BY <4>3
      <4> QED BY <1>0, <4>1, <4>3, <4>4
    <3>2. matchIndex' \in [Server -> [Server -> Nat]]
      BY <1>0, <2>3, <3>1 DEF ReplySuccess
    <3>3. nextIndex' \in [Server -> [Server -> Nat \ {0}]]
      BY <1>0, <2>3, <3>1 DEF ReplySuccess, nextAfter
    <3>4. commitIndex' \in [Server -> Nat]
      <4>1. PICK k \in commitIndex[m.from]..(commitIndex[m.from] + Len(log[m.from])) :
              commitIndex' = [commitIndex EXCEPT ![m.from] = k]
        BY <2>3 DEF ReplySuccess
      <4>2. commitIndex[m.from] \in Nat
        BY <1>0
      <4>3. k \in Nat
        BY <3>1, <4>2
      <4> QED BY <1>0, <4>1, <4>3
    <3> QED BY <2>3, <3>2, <3>3, <3>4 DEF ReplySuccess, electionVars, runVars
  <2>4. CASE ReplyConflict(m)
    <3>1. backUp(nextIndex[m.from][m.to]) \in Nat \ {0}
      <4>1. nextIndex[m.from] \in [Server -> Nat \ {0}]
        BY <1>0
      <4>2. nextIndex[m.from][m.to] \in Nat \ {0}
        BY <1>0, <4>1
      <4> HIDE DEF TypeOK
      <4> QED BY <4>2 DEF backUp
    <3>2. nextIndex' \in [Server -> [Server -> Nat \ {0}]]
      BY <1>0, <2>4, <3>1 DEF ReplyConflict
    <3> QED BY <2>4, <3>2 DEF ReplyConflict, electionVars, logVars, runVars
  <2> QED BY <1>4, <2>1, <2>2, <2>3, <2>4 DEF AppendReply
<1>5. CASE AppendMetaPersisted(m)
  <2>1. appendRPCs' \subseteq AppendRPC
    <3>1. [m EXCEPT !.stage = "stepped"] \in AppendRPC
      BY <1>0, AppendUpdate DEF Stage
    <3> QED BY <1>5, <3>1 DEF AppendMetaPersisted, ReplaceAppend
  <2> QED BY <1>5, <2>1
          DEF AppendMetaPersisted, electionVars, logVars, leaderVars, runVars
<1>6. CASE AppendError(m)
  BY <1>6 DEF AppendError, electionVars, logVars, leaderVars, runVars
<1> QED BY <1>1, <1>2, <1>3, <1>4, <1>5, <1>6 DEF AppendStep

\* Every reachable state is well typed; in particular nextIndex never drops
\* to 0, so the slice n.log[n.nextIndex[peer]:] of sendAppendEntries always
\* starts inside or just after some log position.
THEOREM TypeCorrect == Spec => []TypeOK
<1>1. TypeOK /\ [Next]_vars => TypeOK'
  <2> SUFFICES ASSUME TypeOK, [Next]_vars PROVE TypeOK'
    OBVIOUS
  <2>1. CASE Next
    BY <2>1, NodeType, VoteType, AppendType DEF Next
  <2>2. CASE UNCHANGED vars
    BY <2>2 DEF TypeOK, vars, electionVars, logVars, leaderVars, runVars
  <2> QED BY <2>1, <2>2
<1> QED BY InitType, <1>1, PTL DEF Spec

-----------------------------------------------------------------------------
(* Election safety.                                                         *)
(*                                                                         *)
(* A leader's majority is what it has counted in votes, but a voter moves   *)
(* on to later terms and forgets whom it voted for.  The invariant is thus  *)
(* about evidence of a vote - a tally that still matters, or a positive     *)
(* reply of the right term on its way - and says that evidence is backed by *)
(* the voter (it voted so, or left that term) and that all evidence of a    *)
(* voter's vote in a term names one candidate.                              *)

HasVoted(v, t, c) ==
    currentTerm[v] > t \/ (currentTerm[v] = t /\ votedFor[v] = c)

\* v's vote is counted by c, whose campaign of term t may still win or won.
Tally(v, t, c) == v \in votes[c] /\ term[c] = t /\ currentTerm[c] = t

\* v's positive answer to c for term t, given in that term.
Ballot(v, t, c) == \E m \in voteRPCs :
    m.to = v /\ m.from = c /\ m.ok /\ m.term = t /\ m.rterm = t

Evidence(v, t, c) == Tally(v, t, c) \/ Ballot(v, t, c)

EvidenceBacked == \A v, c \in Server, t \in Nat :
    Evidence(v, t, c) => HasVoted(v, t, c)

EvidenceUnique == \A v, c, d \in Server, t \in Nat :
    Evidence(v, t, c) /\ Evidence(v, t, d) => c = d

LeaderElected == \A s \in Server : state[s] = "Leader" =>
    /\ loop[s] \in {"top", "runLeader", "leading"}
    /\ term[s] = currentTerm[s]
    /\ Cardinality(votes[s]) >= majority

TermPast == \A s \in Server : term[s] <= currentTerm[s]

ReplySane == \A m \in voteRPCs :
    /\ m.ok => m.rterm >= m.term
    /\ m.stage = "yielding" => m.rterm <= currentTerm[m.from]
    /\ m.stage \in {"stepping", "stepped"} => m.term <= currentTerm[m.to]

ElectionInv ==
    /\ EvidenceBacked /\ EvidenceUnique /\ LeaderElected /\ TermPast
    /\ ReplySane

\* Two majorities of the cluster share a member.
LEMMA MajoritiesMeet ==
    ASSUME NEW A \in SUBSET Server, NEW B \in SUBSET Server,
           Cardinality(A) >= majority, Cardinality(B) >= majority
    PROVE  A \cap B # {}
<1>1. /\ IsFiniteSet(A) /\ IsFiniteSet(B)
      /\ Cardinality(A \cup B) <= Cardinality(Server)
  BY ServerFinite, FS_Subset
<1>2. /\ Cardinality(Server) \in Nat /\ Cardinality(A) \in Nat
      /\ Cardinality(B) \in Nat
  BY <1>1, ServerFinite, FS_CardinalityType
<1>3. Cardinality(A \cup B) =
          Cardinality(A) + Cardinality(B) - Cardinality(A \cap B)
  BY <1>1, FS_Union
<1>4. A \cap B = {} => Cardinality(A \cap B) = 0
  BY FS_EmptySet
<1>5. 2 * majority > Cardinality(Server)
  BY <1>2 DEF majority
<1>6. majority \in Nat
  BY <1>2 DEF majority
<1> QED BY <1>1, <1>2, <1>3, <1>4, <1>5, <1>6

\* The invariant yields the property.
LEMMA ElectionInvSuffices == TypeOK /\ ElectionInv => ElectionSafety
<1> SUFFICES ASSUME TypeOK, ElectionInv, NEW i \in Server, NEW j \in Server,
                    state[i] = "Leader", state[j] = "Leader",
                    currentTerm[i] = currentTerm[j]
             PROVE  i = j
  BY DEF ElectionSafety
<1>1. /\ votes[i] \in SUBSET Server /\ votes[j] \in SUBSET Server
      /\ currentTerm[i] \in Nat
  BY DEF TypeOK
<1>2. PICK v \in Server : v \in votes[i] /\ v \in votes[j]
  BY <1>1, MajoritiesMeet DEF ElectionInv, LeaderElected
<1>3. Tally(v, currentTerm[i], i) /\ Tally(v, currentTerm[i], j)
  BY <1>2 DEF Tally, ElectionInv, LeaderElected
<1> QED BY <1>1, <1>3 DEF Evidence, ElectionInv, EvidenceUnique

\* No step of a running node takes its term back or changes a vote given.
LEMMA VoteKeptStep == TypeOK /\ Next => VoteKept
<1> SUFFICES ASSUME TypeOK, Next PROVE VoteKept
  OBVIOUS
<1>0. /\ currentTerm \in [Server -> Nat]
      /\ votedFor \in [Server -> Server \cup {Nil}]
  BY DEF TypeOK
<1>1. ASSUME NEW s \in Server, NodeStep(s) PROVE VoteKept
  <2>1. CASE runCandidate(s)
    BY <1>0, <2>1 DEF runCandidate, VoteKept
  <2>2. CASE UNCHANGED <<currentTerm, votedFor>>
    BY <1>0, <2>2 DEF VoteKept
  <2>3. runCandidate(s) \/ UNCHANGED <<currentTerm, votedFor>>
    BY <1>1 DEF NodeStep, Run, runFollower, CampaignPersisted, ElectionWon,
                ElectionEnds, runLeader, LeaderReturns, sendAppendEntries,
                ProposeCommand, runDelivery, electionVars
  <2> QED BY <2>1, <2>2, <2>3
<1>2. ASSUME NEW m \in voteRPCs, VoteStep(m) PROVE VoteKept
  <2>0. m.from \in Server /\ m.to \in Server /\ m.term \in Nat /\ m.rterm \in Nat
    BY DEF TypeOK, VoteRPC
  <2>1. CASE StepDownForVote(m)
    BY <1>0, <2>0, <2>1 DEF StepDownForVote, stepDown, VoteKept
  <2>2. CASE CastVote(m)
    BY <1>0, <2>0, <2>2 DEF CastVote, mayVote, VoteKept
  <2>3. CASE VoteReply(m)
    BY <1>0, <2>0, <2>3 DEF VoteReply, stepDown, electionVars, VoteKept
  <2>4. CASE UNCHANGED electionVars
    BY <1>0, <2>4 DEF VoteKept, electionVars
  <2> QED BY <1>2, <2>1, <2>2, <2>3, <2>4
          DEF VoteStep, RejectVote, VoteMetaPersisted, VoteError
<1>3. ASSUME NEW m \in appendRPCs, AppendStep(m) PROVE VoteKept
  <2>0. m.from \in Server /\ m.to \in Server /\ m.term \in Nat /\ m.rterm \in Nat
    BY DEF TypeOK, AppendRPC
  <2>1. CASE StepDownForAppend(m)
    BY <1>0, <2>0, <2>1 DEF StepDownForAppend, stepDown, VoteKept
  <2>2. CASE ReceiveEntries(m)
    BY <1>0, <2>0, <2>2 DEF ReceiveEntries, roleAfter, VoteKept
  <2>3. CASE ReplyDeposes(m)
    BY <1>0, <2>0, <2>3 DEF ReplyDeposes, stepDown, VoteKept
  <2>4. CASE UNCHANGED electionVars
    BY <1>0, <2>4 DEF VoteKept, electionVars
  <2> QED BY <1>3, <2>1, <2>2, <2>3, <2>4
          DEF AppendStep, RejectAppend, AppendReply, ReplyIgnored,
              ReplySuccess, ReplyConflict, AppendMetaPersisted, AppendError
<1> QED BY <1>1, <1>2, <1>3 DEF Next

\* Evidence that appears with a step is of a vote given in that step, by a
\* voter that had not voted for anyone else in that term.
Fresh(v, t, c) ==
    /\ currentTerm'[v] = t /\ votedFor'[v] = c
    /\ currentTerm[v] < t \/ (currentTerm[v] = t /\ votedFor[v] \in {Nil, c})

EvidenceFromVotes == \A v, c \in Server, t \in Nat :
    Evidence(v, t, c)' => Evidence(v, t, c) \/ Fresh(v, t, c)

\* A step that adds nothing to votes and no positive reply adds no evidence.
LEMMA QuietStep ==
    ASSUME TypeOK, TypeOK', TermPast, VoteKept,
           \A c \in Server : votes'[c] = {} \/
                             (votes'[c] \subseteq votes[c] /\ term'[c] = term[c]),
           \A m \in voteRPCs' : m.ok => \E n \in voteRPCs :
               /\ n.to = m.to /\ n.from = m.from /\ n.ok
               /\ n.term = m.term /\ n.rterm = m.rterm
    PROVE  EvidenceFromVotes
<1> SUFFICES ASSUME NEW v \in Server, NEW c \in Server, NEW t \in Nat,
                    Evidence(v, t, c)'
             PROVE  Evidence(v, t, c)
  BY DEF EvidenceFromVotes
<1>1. CASE Tally(v, t, c)'
  <2>1. v \in votes[c] /\ term[c] = t /\ currentTerm'[c] = t
    BY <1>1 DEF Tally
  <2>2. currentTerm[c] \in Nat /\ currentTerm'[c] \in Nat
    BY DEF TypeOK
  <2>3. currentTerm[c] = t
    BY <2>1, <2>2 DEF TermPast, VoteKept
  <2> QED BY <2>1, <2>3 DEF Tally, Evidence
<1>2. CASE Ballot(v, t, c)'
  BY <1>2 DEF Ballot, Evidence
<1> QED BY <1>1, <1>2 DEF Evidence

\* A campaign's first vote is the candidate's own, in a term it never was in.
LEMMA CampaignEvidence ==
    ASSUME TypeOK, TypeOK', TermPast, VoteKept,
           NEW s \in Server, runCandidate(s)
    PROVE  EvidenceFromVotes
<1> SUFFICES ASSUME NEW v \in Server, NEW c \in Server, NEW t \in Nat,
                    Evidence(v, t, c)'
             PROVE  Evidence(v, t, c) \/ Fresh(v, t, c)
  BY DEF EvidenceFromVotes
<1>0. /\ currentTerm \in [Server -> Nat] /\ term \in [Server -> Nat]
      /\ votedFor \in [Server -> Server \cup {Nil}]
      /\ votes \in [Server -> SUBSET Server]
  BY DEF TypeOK
<1>1. CASE Tally(v, t, c)'
  <2>1. CASE c = s
    BY <1>0, <1>1, <2>1 DEF Tally, Fresh, runCandidate
  <2>2. CASE c # s
    BY <1>0, <1>1, <2>2 DEF Tally, Evidence, runCandidate
  <2> QED BY <2>1, <2>2
<1>2. CASE Ballot(v, t, c)'
  <2>1. PICK m \in voteRPCs' : m.to = v /\ m.from = c /\ m.ok
                                 /\ m.term = t /\ m.rterm = t
    BY <1>2 DEF Ballot
  <2>2. m \in voteRPCs
    BY <2>1 DEF runCandidate
  <2> QED BY <2>1, <2>2 DEF Ballot, Evidence
<1> QED BY <1>1, <1>2 DEF Evidence

\* A vote granted becomes evidence only when given in the term asked for.
LEMMA CastVoteEvidence ==
    ASSUME TypeOK, TypeOK', TermPast, VoteKept,
           NEW m \in voteRPCs, CastVote(m)
    PROVE  EvidenceFromVotes
<1> SUFFICES ASSUME NEW v \in Server, NEW c \in Server, NEW t \in Nat,
                    Evidence(v, t, c)'
             PROVE  Evidence(v, t, c) \/ Fresh(v, t, c)
  BY DEF EvidenceFromVotes
<1>0. /\ currentTerm \in [Server -> Nat] /\ currentTerm' \in [Server -> Nat]
      /\ votedFor \in [Server -> Server \cup {Nil}]
      /\ m.to \in Server /\ m.from \in Server /\ m.term \in Nat
      /\ m \in VoteRPC
  BY DEF TypeOK, VoteRPC
<1>1. CASE Tally(v, t, c)'
  <2>1. v \in votes[c] /\ term[c] = t /\ currentTerm'[c] = t
    BY <1>1 DEF Tally, CastVote, runVars
  <2>2. currentTerm[c] = t
    BY <1>0, <2>1 DEF TermPast, VoteKept
  <2> QED BY <2>1, <2>2 DEF Tally, Evidence
<1>2. CASE Ballot(v, t, c)'
  <2>1. PICK n \in voteRPCs' : n.to = v /\ n.from = c /\ n.ok
                                 /\ n.term = t /\ n.rterm = t
    BY <1>2 DEF Ballot
  <2>2. CASE n \in voteRPCs
    BY <2>1, <2>2 DEF Ballot, Evidence
  <2>3. CASE n \notin voteRPCs
    <3>1. n = [m EXCEPT
                 !.stage = IF n.ok /\ Durable THEN "granting" ELSE "replied",
                 !.rterm = currentTerm'[m.to], !.ok = n.ok]
      BY <1>0, <2>1, <2>3 DEF CastVote, ReplaceVote, VoteRPC
    <3>2. /\ votedFor'[m.to] = m.from
          /\ \/ currentTerm[m.to] < currentTerm'[m.to]
             \/ /\ currentTerm[m.to] = currentTerm'[m.to]
                /\ votedFor[m.to] \in {Nil, m.from}
      BY <1>0, <2>1, <2>3 DEF CastVote, ReplaceVote, VoteRPC, mayVote
    <3>3. n.to = m.to /\ n.from = m.from /\ n.rterm = currentTerm'[m.to]
      BY <1>0, <3>1 DEF VoteRPC
    <3> QED BY <2>1, <3>2, <3>3 DEF Fresh
  <2> QED BY <2>2, <2>3
<1> QED BY <1>1, <1>2 DEF Evidence

\* Counting a reply turns a ballot into a tally.
LEMMA CountEvidence ==
    ASSUME TypeOK, TypeOK', TermPast, ReplySane, VoteKept,
           NEW m \in voteRPCs, VoteReply(m) \/ VoteMetaPersisted(m)
    PROVE  EvidenceFromVotes
<1> SUFFICES ASSUME NEW v \in Server, NEW c \in Server, NEW t \in Nat,
                    Evidence(v, t, c)'
             PROVE  Evidence(v, t, c)
  BY DEF EvidenceFromVotes
<1>0. /\ currentTerm \in [Server -> Nat] /\ currentTerm' \in [Server -> Nat]
      /\ votes \in [Server -> SUBSET Server]
      /\ m.to \in Server /\ m.from \in Server
      /\ m.term \in Nat /\ m.rterm \in Nat /\ m \in VoteRPC
  BY DEF TypeOK, VoteRPC
<1>1. CASE Tally(v, t, c)'
  <2>1. v \in votes'[c] /\ term[c] = t /\ currentTerm'[c] = t
    BY <1>1 DEF Tally, VoteReply, VoteMetaPersisted
  <2>2. currentTerm[c] = t
    BY <1>0, <2>1 DEF TermPast, VoteKept
  <2>3. CASE v \in votes[c]
    BY <2>1, <2>2, <2>3 DEF Tally, Evidence
  <2>4. CASE v \notin votes[c]
    <3>1. c = m.from /\ v = m.to /\ m.ok /\ term[c] = m.term
      BY <1>0, <2>1, <2>4 DEF VoteReply, VoteMetaPersisted
    <3>2. m.rterm <= currentTerm'[c]
      <4>1. CASE VoteReply(m)
        BY <1>0, <3>1, <4>1 DEF VoteReply, stepDown, electionVars
      <4>2. CASE VoteMetaPersisted(m)
        <5>1. m.stage = "yielding"
          BY <2>1, <2>4, <4>2 DEF VoteMetaPersisted
        <5> QED BY <3>1, <4>2, <5>1
                DEF VoteMetaPersisted, electionVars, ReplySane
      <4> QED BY <4>1, <4>2
    <3>3. m.rterm = t /\ m.term = t
      BY <1>0, <2>1, <3>1, <3>2 DEF ReplySane
    <3> QED BY <3>1, <3>3 DEF Ballot, Evidence
  <2> QED BY <2>3, <2>4
<1>2. CASE Ballot(v, t, c)'
  <2>1. PICK n \in voteRPCs' : n.to = v /\ n.from = c /\ n.ok
                                 /\ n.term = t /\ n.rterm = t
    BY <1>2 DEF Ballot
  <2>2. n \in voteRPCs \/ \E st : n = [m EXCEPT !.stage = st]
    BY <2>1 DEF VoteReply, VoteMetaPersisted, ReplaceVote
  <2>3. \E k \in voteRPCs : k.to = n.to /\ k.from = n.from /\ k.ok = n.ok
                              /\ k.term = n.term /\ k.rterm = n.rterm
    BY <1>0, <2>2 DEF VoteRPC
  <2> QED BY <2>1, <2>3 DEF Ballot, Evidence
<1> QED BY <1>1, <1>2 DEF Evidence

LEMMA EvidenceStep ==
    ASSUME TypeOK, TypeOK', ElectionInv, VoteKept, Next
    PROVE  EvidenceFromVotes
<1> USE DEF ElectionInv
<1>1. CASE UNCHANGED <<term, votes, voteRPCs>>
  <2>1. \A c \in Server : votes'[c] \subseteq votes[c] /\ term'[c] = term[c]
    BY <1>1
  <2>2. \A m \in voteRPCs' : m \in voteRPCs
    BY <1>1
  <2> QED BY <2>1, <2>2, QuietStep
<1>2. ASSUME NEW s \in Server, NodeStep(s) PROVE EvidenceFromVotes
  <2>1. CASE runCandidate(s)
    BY <2>1, CampaignEvidence
  <2>2. CASE CampaignPersisted(s)
    <3>1. \A c \in Server : votes'[c] \subseteq votes[c] /\ term'[c] = term[c]
      BY <2>2 DEF CampaignPersisted
    <3>2. \A m \in voteRPCs' : \E n \in voteRPCs :
             m = n \/ m = [n EXCEPT !.stage = "sent"]
      BY <2>2 DEF CampaignPersisted
    <3>3. \A m \in voteRPCs' : \E n \in voteRPCs :
             /\ n.to = m.to /\ n.from = m.from /\ n.ok = m.ok
             /\ n.term = m.term /\ n.rterm = m.rterm
      BY <3>2 DEF TypeOK, VoteRPC
    <3> QED BY <3>1, <3>3, QuietStep
  <2>3. CASE ElectionEnds(s) \/ LeaderReturns(s)
    <3>1. \A c \in Server : votes'[c] = {} \/
                    (votes'[c] \subseteq votes[c] /\ term'[c] = term[c])
      <4>1. votes \in [Server -> SUBSET Server] /\ term \in [Server -> Nat]
        BY DEF TypeOK
      <4> QED BY <2>3, <4>1 DEF ElectionEnds, LeaderReturns
    <3>2. \A m \in voteRPCs' : m \in voteRPCs
      BY <2>3 DEF ElectionEnds, LeaderReturns
    <3> QED BY <3>1, <3>2, QuietStep
  <2>4. \/ runCandidate(s) \/ CampaignPersisted(s)
        \/ ElectionEnds(s) \/ LeaderReturns(s)
        \/ UNCHANGED <<term, votes, voteRPCs>>
    BY <1>2 DEF NodeStep, Run, runFollower, ElectionWon, runLeader,
                sendAppendEntries, ProposeCommand, runDelivery, runVars
  <2> QED BY <1>1, <2>1, <2>2, <2>3, <2>4
<1>3. ASSUME NEW m \in voteRPCs, VoteStep(m) PROVE EvidenceFromVotes
  <2>0. m \in VoteRPC
    BY DEF TypeOK
  <2>1. CASE CastVote(m)
    BY <2>1, CastVoteEvidence
  <2>2. CASE VoteReply(m) \/ VoteMetaPersisted(m)
    BY <2>2, CountEvidence
  <2>3. CASE RejectVote(m) \/ StepDownForVote(m) \/ VoteError(m)
    <3>1. \A c \in Server : votes'[c] \subseteq votes[c] /\ term'[c] = term[c]
      BY <2>3 DEF RejectVote, StepDownForVote, VoteError, runVars
    <3>2. \A k \in voteRPCs' : \/ k \in voteRPCs
                               \/ k = [m EXCEPT !.stage = "stepping"]
                               \/ k = [m EXCEPT !.stage = "replied", !.ok = FALSE,
                                                !.rterm = currentTerm[m.to]]
      BY <2>3 DEF RejectVote, StepDownForVote, VoteError, ReplaceVote
    <3>3. \A k \in voteRPCs' : k.ok => \E n \in voteRPCs :
             /\ n.to = k.to /\ n.from = k.from /\ n.ok
             /\ n.term = k.term /\ n.rterm = k.rterm
      BY <2>0, <3>2 DEF VoteRPC
    <3> QED BY <3>1, <3>3, QuietStep
  <2> QED BY <1>3, <2>1, <2>2, <2>3 DEF VoteStep
<1>4. ASSUME NEW m \in appendRPCs, AppendStep(m) PROVE EvidenceFromVotes
  <2>1. UNCHANGED <<term, votes, voteRPCs>>
    BY <1>4 DEF AppendStep, RejectAppend, StepDownForAppend, ReceiveEntries,
                AppendReply, ReplyDeposes, ReplyIgnored, ReplySuccess,
                ReplyConflict, AppendMetaPersisted, AppendError, runVars
  <2> QED BY <1>1, <2>1
<1> QED BY <1>2, <1>3, <1>4 DEF Next

\* The parts of ElectionInv that are about evidence.
LEMMA EvidenceKept ==
    ASSUME TypeOK, TypeOK', ElectionInv, VoteKept, EvidenceFromVotes
    PROVE  EvidenceBacked' /\ EvidenceUnique'
<1>0. /\ currentTerm \in [Server -> Nat] /\ currentTerm' \in [Server -> Nat]
  BY DEF TypeOK
<1>1. ASSUME NEW v \in Server, NEW c \in Server, NEW t \in Nat,
             Evidence(v, t, c)'
      PROVE  HasVoted(v, t, c)'
  <2>1. CASE Evidence(v, t, c)
    <3>1. HasVoted(v, t, c)
      BY <2>1 DEF ElectionInv, EvidenceBacked
    <3> QED BY <1>0, <3>1, NilIsNoServer DEF HasVoted, VoteKept
  <2>2. CASE Fresh(v, t, c)
    BY <2>2 DEF Fresh, HasVoted
  <2> QED BY <1>1, <2>1, <2>2 DEF EvidenceFromVotes
<1>2. ASSUME NEW v \in Server, NEW c \in Server, NEW d \in Server, NEW t \in Nat,
             Evidence(v, t, c), Fresh(v, t, d)
      PROVE  c = d
  <2>1. HasVoted(v, t, c)
    BY <1>2 DEF ElectionInv, EvidenceBacked
  <2> QED BY <1>0, <1>2, <2>1, NilIsNoServer DEF Fresh, HasVoted
<1>3. ASSUME NEW v \in Server, NEW c \in Server, NEW d \in Server, NEW t \in Nat,
             Evidence(v, t, c)', Evidence(v, t, d)'
      PROVE  c = d
  <2>1. /\ Evidence(v, t, c) \/ Fresh(v, t, c)
        /\ Evidence(v, t, d) \/ Fresh(v, t, d)
    BY <1>3 DEF EvidenceFromVotes
  <2>2. CASE Evidence(v, t, c) /\ Evidence(v, t, d)
    BY <2>2 DEF ElectionInv, EvidenceUnique
  <2>3. CASE Fresh(v, t, c) /\ Fresh(v, t, d)
    BY <2>3 DEF Fresh
  <2> QED BY <1>2, <2>1, <2>2, <2>3
<1> QED BY <1>1, <1>3 DEF EvidenceBacked, EvidenceUnique

\* The parts of ElectionInv that are about the Run loop.
LEMMA LeaderKept ==
    ASSUME TypeOK, TypeOK', LeaderElected, TermPast, VoteKept, Next
    PROVE  LeaderElected' /\ TermPast'
<1>0. /\ currentTerm \in [Server -> Nat] /\ currentTerm' \in [Server -> Nat]
      /\ term \in [Server -> Nat] /\ votes \in [Server -> SUBSET Server]
      /\ loop \in [Server -> Loop] /\ state \in [Server -> Role]
  BY DEF TypeOK
<1>1. ASSUME UNCHANGED <<term, votes, loop>>,
             \A s \in Server : state'[s] = "Leader" =>
                 state[s] = "Leader" /\ currentTerm'[s] = currentTerm[s]
      PROVE  LeaderElected' /\ TermPast'
  BY <1>0, <1>1 DEF LeaderElected, TermPast, VoteKept
<1>2. ASSUME NEW s \in Server, NodeStep(s) PROVE LeaderElected' /\ TermPast'
  <2>1. CASE Run(s)
    BY <1>0, <2>1
       DEF Run, LeaderElected, TermPast, electionVars, Role
  <2>2. CASE runFollower(s)
    BY <1>0, <2>2 DEF runFollower, LeaderElected, TermPast
  <2>3. CASE runCandidate(s)
    BY <1>0, <2>3 DEF runCandidate, LeaderElected, TermPast
  <2>4. CASE CampaignPersisted(s)
    BY <1>0, <2>4
       DEF CampaignPersisted, LeaderElected, TermPast, electionVars
  <2>5. CASE ElectionWon(s)
    BY <1>0, <2>5 DEF ElectionWon, LeaderElected, TermPast
  <2>6. CASE ElectionEnds(s)
    BY <1>0, <2>6 DEF ElectionEnds, LeaderElected, TermPast, electionVars
  <2>7. CASE runLeader(s)
    BY <1>0, <2>7 DEF runLeader, LeaderElected, TermPast
  <2>8. CASE LeaderReturns(s)
    BY <1>0, <2>8
       DEF LeaderReturns, stillLeader, LeaderElected, TermPast, electionVars
  <2>9. CASE UNCHANGED <<electionVars, runVars>>
    BY <1>1, <2>9 DEF electionVars, runVars
  <2> QED BY <1>2, <2>1, <2>2, <2>3, <2>4, <2>5, <2>6, <2>7, <2>8, <2>9
          DEF NodeStep, sendAppendEntries, ProposeCommand, runDelivery
<1>3. ASSUME NEW m \in voteRPCs, VoteStep(m) PROVE LeaderElected' /\ TermPast'
  <2>0. m.from \in Server /\ m.to \in Server /\ m.term \in Nat /\ m.rterm \in Nat
    BY DEF TypeOK, VoteRPC
  <2>1. CASE StepDownForVote(m)
    BY <1>0, <1>1, <2>0, <2>1 DEF StepDownForVote, stepDown, runVars
  <2>2. CASE CastVote(m)
    BY <1>0, <1>1, <2>0, <2>2 DEF CastVote, runVars
  <2>3. CASE VoteReply(m) \/ VoteMetaPersisted(m)
    <3>1. \A s \in Server : state'[s] = "Leader" =>
              state[s] = "Leader" /\ currentTerm'[s] = currentTerm[s]
      BY <1>0, <2>0, <2>3
         DEF VoteReply, VoteMetaPersisted, stepDown, electionVars
    <3>2. /\ UNCHANGED <<term, loop>>
          /\ \A s \in Server : votes'[s] # votes[s] => loop[s] = "collecting"
      BY <1>0, <2>0, <2>3 DEF VoteReply, VoteMetaPersisted
    <3> QED BY <1>0, <3>1, <3>2 DEF LeaderElected, TermPast, VoteKept
  <2>4. CASE UNCHANGED <<electionVars, runVars>>
    BY <1>1, <2>4 DEF electionVars, runVars
  <2> QED BY <1>3, <2>1, <2>2, <2>3, <2>4 DEF VoteStep, RejectVote, VoteError
<1>4. ASSUME NEW m \in appendRPCs, AppendStep(m)
      PROVE  LeaderElected' /\ TermPast'
  <2>0. m.from \in Server /\ m.to \in Server /\ m.term \in Nat /\ m.rterm \in Nat
    BY DEF TypeOK, AppendRPC
  <2>1. CASE StepDownForAppend(m)
    BY <1>0, <1>1, <2>0, <2>1 DEF StepDownForAppend, stepDown, runVars
  <2>2. CASE ReceiveEntries(m)
    <3>1. /\ UNCHANGED <<term, votes, loop>>
          /\ \/ m.stage = "stepped" /\ state' = state
             \/ state' = [state EXCEPT ![m.to] = "Follower"]
          /\ currentTerm' = [currentTerm EXCEPT ![m.to] =
                IF m.stage = "sent" /\ m.term > currentTerm[m.to]
                THEN m.term ELSE currentTerm[m.to]]
      BY <1>0, <2>0, <2>2 DEF ReceiveEntries, roleAfter, runVars
    <3> QED BY <1>0, <1>1, <2>0, <3>1
  <2>3. CASE ReplyDeposes(m)
    BY <1>0, <1>1, <2>0, <2>3 DEF ReplyDeposes, stepDown, runVars
  <2>4. CASE UNCHANGED <<electionVars, runVars>>
    BY <1>1, <2>4 DEF electionVars, runVars
  <2> QED BY <1>4, <2>1, <2>2, <2>3, <2>4
          DEF AppendStep, RejectAppend, AppendReply, ReplyIgnored,
              ReplySuccess, ReplyConflict, AppendMetaPersisted, AppendError
<1> QED BY <1>2, <1>3, <1>4 DEF Next

\* The part of ElectionInv that is about replies.
LEMMA ReplySaneKept ==
    ASSUME TypeOK, TypeOK', ReplySane, VoteKept, Next
    PROVE  ReplySane'
<1>0. /\ currentTerm \in [Server -> Nat] /\ currentTerm' \in [Server -> Nat]
      /\ \A m \in voteRPCs : /\ m \in VoteRPC /\ m.from \in Server
                             /\ m.to \in Server /\ m.term \in Nat
                             /\ m.rterm \in Nat
  BY DEF TypeOK, VoteRPC
<1>1. ASSUME NEW m \in voteRPCs
      PROVE  /\ m.ok => m.rterm >= m.term
             /\ m.stage = "yielding" => m.rterm <= currentTerm'[m.from]
             /\ m.stage \in {"stepping", "stepped"}
                => m.term <= currentTerm'[m.to]
  BY <1>0 DEF ReplySane, VoteKept
<1>2. ASSUME voteRPCs' \subseteq voteRPCs PROVE ReplySane'
  BY <1>1, <1>2 DEF ReplySane
<1>3. ASSUME NEW s \in Server, NodeStep(s) PROVE ReplySane'
  <2>1. CASE runCandidate(s)
    <3>1. \A m \in voteRPCs' : m \in voteRPCs \/ (~m.ok /\ m.stage \in {"held", "sent"})
      BY <2>1 DEF runCandidate
    <3> QED BY <1>1, <3>1 DEF ReplySane
  <2>2. CASE CampaignPersisted(s)
    <3>1. \A m \in voteRPCs' : m \in voteRPCs \/
              \E n \in voteRPCs : m = [n EXCEPT !.stage = "sent"]
      BY <2>2 DEF CampaignPersisted
    <3>2. \A m \in voteRPCs' : m \in voteRPCs \/
              (m.stage = "sent" /\ (m.ok => m.rterm >= m.term))
      BY <1>0, <1>1, <3>1 DEF VoteRPC
    <3> QED BY <1>1, <3>2 DEF ReplySane
  <2>3. runCandidate(s) \/ CampaignPersisted(s) \/ UNCHANGED voteRPCs
    BY <1>3 DEF NodeStep, Run, runFollower, ElectionWon, ElectionEnds,
                runLeader, LeaderReturns, sendAppendEntries, ProposeCommand,
                runDelivery
  <2> QED BY <1>2, <2>1, <2>2, <2>3
<1>4. ASSUME NEW m \in voteRPCs, VoteStep(m) PROVE ReplySane'
  <2>1. CASE RejectVote(m)
    <3>1. \A k \in voteRPCs' : k \in voteRPCs \/
              k = [m EXCEPT !.stage = "replied", !.ok = FALSE,
                            !.rterm = currentTerm[m.to]]
      BY <2>1 DEF RejectVote, ReplaceVote
    <3>2. \A k \in voteRPCs' : k \in voteRPCs \/ (~k.ok /\ k.stage = "replied")
      BY <1>0, <3>1 DEF VoteRPC
    <3> QED BY <1>1, <3>2 DEF ReplySane
  <2>2. CASE CastVote(m)
    <3> DEFINE t == IF m.stage = "sent" /\ m.term > currentTerm[m.to]
                    THEN m.term ELSE currentTerm[m.to]
    <3>1. \A k \in voteRPCs' : k \in voteRPCs \/ \E b \in BOOLEAN :
              k = [m EXCEPT !.stage = IF b /\ Durable THEN "granting"
                                                      ELSE "replied",
                            !.rterm = t, !.ok = b]
      BY <2>2 DEF CastVote, ReplaceVote, mayVote
    <3>2. t >= m.term
      <4>1. m.stage = "stepped" \/ (m.stage = "sent" /\ m.term >= currentTerm[m.to])
        BY <2>2 DEF CastVote
      <4> QED BY <1>0, <4>1 DEF ReplySane
    <3>3. \A k \in voteRPCs' : k \in voteRPCs \/
              (k.stage \in {"granting", "replied"} /\ k.rterm >= k.term)
      <4> HIDE DEF t
      <4> QED BY <1>0, <3>1, <3>2 DEF VoteRPC
    <3> QED BY <1>1, <3>3 DEF ReplySane
  <2>3. CASE StepDownForVote(m) \/ VoteReply(m) \/ VoteMetaPersisted(m)
    <3>1. \A k \in voteRPCs' : k \in voteRPCs \/
              \E st \in Stage : /\ k = [m EXCEPT !.stage = st]
                                /\ st = "yielding" => VoteReply(m)
                                /\ st = "stepping" => StepDownForVote(m)
                                /\ st = "stepped" => m.stage = "stepping"
      BY <2>3 DEF StepDownForVote, VoteReply, VoteMetaPersisted, ReplaceVote,
                  Stage
    <3>2. VoteReply(m) => m.rterm <= currentTerm'[m.from]
      BY <1>0 DEF VoteReply, stepDown, electionVars
    <3>3. StepDownForVote(m) => m.term <= currentTerm'[m.to]
      BY <1>0 DEF StepDownForVote, stepDown
    <3>4. \A k \in voteRPCs' : k \in voteRPCs \/
              /\ k.ok => k.rterm >= k.term
              /\ k.stage = "yielding" => k.rterm <= currentTerm'[k.from]
              /\ k.stage \in {"stepping", "stepped"}
                 => k.term <= currentTerm'[k.to]
      BY <1>0, <1>1, <3>1, <3>2, <3>3 DEF VoteRPC
    <3> QED BY <1>1, <3>4 DEF ReplySane
  <2>4. CASE VoteError(m)
    BY <1>2, <2>4 DEF VoteError
  <2> QED BY <1>4, <2>1, <2>2, <2>3, <2>4 DEF VoteStep
<1>5. ASSUME NEW m \in appendRPCs, AppendStep(m) PROVE ReplySane'
  <2>1. UNCHANGED voteRPCs
    BY <1>5 DEF AppendStep, RejectAppend, StepDownForAppend, ReceiveEntries,
                AppendReply, ReplyDeposes, ReplyIgnored, ReplySuccess,
                ReplyConflict, AppendMetaPersisted, AppendError
  <2> QED BY <1>2, <2>1
<1> QED BY <1>3, <1>4, <1>5 DEF Next

\* A node's term never goes back and it votes once per term, for every
\* cluster size and schedule, with and without the persister's unlock.
THEOREM VotesOncePerTerm == Spec => OneVotePerTerm
<1>1. TypeOK /\ [Next]_vars => [VoteKept]_vars
  BY VoteKeptStep
<1> QED BY TypeCorrect, <1>1, PTL DEF Spec, OneVotePerTerm

LEMMA ElectionInvHolds == Spec => []ElectionInv
<1>1. Init => ElectionInv
  <2>1. Init => EvidenceBacked /\ EvidenceUnique
    BY DEF Init, EvidenceBacked, EvidenceUnique, Evidence, Tally, Ballot
  <2> QED BY <2>1 DEF Init, ElectionInv, LeaderElected, TermPast, ReplySane
<1>2. TypeOK /\ TypeOK' /\ ElectionInv /\ [Next]_vars => ElectionInv'
  <2> SUFFICES ASSUME TypeOK, TypeOK', ElectionInv, [Next]_vars
               PROVE  ElectionInv'
    OBVIOUS
  <2>1. CASE Next
    <3>1. VoteKept
      BY <2>1, VoteKeptStep
    <3>2. EvidenceBacked' /\ EvidenceUnique'
      BY <2>1, <3>1, EvidenceStep, EvidenceKept
    <3>3. LeaderElected' /\ TermPast'
      BY <2>1, <3>1, LeaderKept DEF ElectionInv
    <3>4. ReplySane'
      BY <2>1, <3>1, ReplySaneKept DEF ElectionInv
    <3> QED BY <3>2, <3>3, <3>4 DEF ElectionInv
  <2>2. CASE UNCHANGED vars
    <3>1. UNCHANGED <<currentTerm, votedFor, state, loop, term, votes, voteRPCs>>
      BY <2>2 DEF vars, electionVars, runVars
    <3> QED BY <3>1
            DEF ElectionInv, EvidenceBacked, EvidenceUnique, Evidence, Tally,
                Ballot, HasVoted, LeaderElected, TermPast, ReplySane
  <2> QED BY <2>1, <2>2
<1> QED BY TypeCorrect, <1>1, <1>2, PTL DEF Spec

\* No two nodes lead in the same term while no node loses its memory, for
\* every cluster size, any schedule and loss of calls, with and without the
\* persister's unlock.
THEOREM AtMostOneLeaderPerTerm == Spec => []ElectionSafety
BY TypeCorrect, ElectionInvHolds, ElectionInvSuffices, PTL
=============================================================================
