---------------------------- MODULE RaftLogProofs ----------------------------
(***************************************************************************)
(* LogMatching, NextInLog, LeaderAppendOnly and AcksHold of Raft, for any  *)
(* cluster and any bounds, with and without a persister.  With one, a      *)
(* handler that stepped down resumes after the unlock with a request of a  *)
(* term that its node may have left.  The first three hold until such a    *)
(* handler rewrites the log of a leader, AcksHold until it rewrites any.   *)
(***************************************************************************)
EXTENDS RaftProofs, DataLemmas

-----------------------------------------------------------------------------
(* A link is an entry, its position and the term of the entry before it, in *)
(* a log or in a request.  Logs match when links do: the terms agree at one *)
(* position, hence the links there, hence the terms at the one before.      *)

InLog(l, k, p, e) ==
    /\ k \in 1..Len(l) /\ l[k] = e
    /\ p = IF k = 1 THEN 0 ELSE l[k - 1].term

InCall(m, k, p, e) == \E j \in 1..Len(m.entries) :
    /\ k = m.prevIndex + j /\ m.entries[j] = e
    /\ p = IF j = 1 THEN m.prevTerm ELSE m.entries[j - 1].term

Link(k, p, e) ==
    \/ \E s \in Server : InLog(log[s], k, p, e)
    \/ \E m \in appendRPCs : InCall(m, k, p, e)

LinksMatch == \A k, p, q \in Nat, e, f \in Entry :
    Link(k, p, e) /\ Link(k, q, f) /\ e.term = f.term => e = f /\ p = q

\* A leader's log reaches as far as any entry of its term.
LeaderHolds == \A s \in Server, k, p \in Nat, e \in Entry :
    state[s] = "Leader" /\ Link(k, p, e) /\ e.term = currentTerm[s] => k <= Len(log[s])

\* c's campaign of term t is over.
Done(t, c) ==
    \/ currentTerm[c] > t
    \/ currentTerm[c] = t /\ loop[c] \notin {"collecting", "persisting"}

\* A majority voted for c in term t, and no trace is left of another vote.
Settled(t, c) == \E Q \in SUBSET Server :
    /\ Cardinality(Q) >= majority
    /\ \A v \in Q : /\ HasVoted(v, t, c)
                    /\ \A d \in Server : Evidence(v, t, d) => d = c

\* An entry's term had a leader that does not win it again.
TermsOwned == \A k, p \in Nat, e \in Entry :
    Link(k, p, e) => \E c \in Server : Done(e.term, c) /\ Settled(e.term, c)

\* The first entry has no predecessor, and a node that stepped down for a
\* request is in its term or in a later one.
CallsSane == \A m \in appendRPCs :
    /\ m.prevIndex = 0 => m.prevTerm = 0
    /\ m.stage \in {"stepping", "stepped"} => m.term <= currentTerm[m.to]

\* A request's term was won by its caller, that does not win it again.
CallsOwned == \A m \in appendRPCs :
    m.from # m.to /\ Done(m.term, m.from) /\ Settled(m.term, m.from)

\* No handler has rewritten the log of a leader.
LeadersSpared == "Leader" \notin overrun

LogInv ==
    /\ TermsOwned /\ CallsSane /\ CallsOwned
    /\ LeadersSpared => LinksMatch /\ LeaderHolds

-----------------------------------------------------------------------------
(* Links that match make logs that match *)

LEMMA MatchSuffices ==
    ASSUME TypeOK, LinksMatch
    PROVE  LogMatching
<1> SUFFICES ASSUME NEW i \in Server, NEW j \in Server, NEW k \in 1..Len(log[i]),
                    k <= Len(log[j]), log[i][k].term = log[j][k].term
             PROVE  SubSeq(log[i], 1, k) = SubSeq(log[j], 1, k)
  BY DEF LogMatching
<1> DEFINE a == log[i]
           b == log[j]
<1>1. /\ a \in Seq(Entry) /\ b \in Seq(Entry) /\ Len(a) \in Nat /\ Len(b) \in Nat
      /\ k \in Nat /\ k \in 1..Len(a) /\ k \in 1..Len(b)
  <2>1. a \in Seq(Entry) /\ b \in Seq(Entry)
    BY DEF TypeOK
  <2>2. Len(a) \in Nat /\ Len(b) \in Nat
    BY <2>1
  <2> QED BY <2>1, <2>2
<1>2. ASSUME NEW x \in 1..k, a[x].term = b[x].term
      PROVE  a[x] = b[x] /\ (x > 1 => a[x - 1].term = b[x - 1].term)
  <2>1. x \in 1..Len(a) /\ x \in 1..Len(b) /\ x \in Nat
    BY <1>1
  <2> DEFINE p == IF x = 1 THEN 0 ELSE a[x - 1].term
             q == IF x = 1 THEN 0 ELSE b[x - 1].term
  <2>2. a[x] \in Entry /\ b[x] \in Entry
    BY <1>1, <2>1
  <2>3. x > 1 => a[x - 1] \in Entry /\ b[x - 1] \in Entry
    BY <1>1, <2>1
  <2>4. p \in Nat /\ q \in Nat
    BY <2>1, <2>3 DEF Entry
  <2>5. Link(x, p, a[x]) /\ Link(x, q, b[x])
    BY <2>1 DEF Link, InLog
  <2>6. a[x] = b[x] /\ p = q
    BY <1>2, <2>1, <2>2, <2>4, <2>5 DEF LinksMatch
  <2> QED BY <2>1, <2>6
<1> DEFINE S == {d \in 0..(k - 1) : a[k - d].term # b[k - d].term}
<1>3. S = {}
  <2> SUFFICES ASSUME S # {} PROVE FALSE
    OBVIOUS
  <2>1. S \in SUBSET Nat
    BY <1>1
  <2>2. PICK d \in S : \A y \in S : d <= y
    <3> HIDE DEF S
    <3> QED BY <2>1, LeastNatural
  <2>3. d \in 0..(k - 1) /\ a[k - d].term # b[k - d].term /\ d # 0
    OBVIOUS
  <2>4. d - 1 \in 0..(k - 1) /\ ~ (d <= d - 1) /\ k - (d - 1) \in 1..k
        /\ (k - (d - 1)) - 1 = k - d /\ k - (d - 1) > 1
    BY <1>1, <2>3
  <2>5. a[k - (d - 1)].term = b[k - (d - 1)].term
    BY <2>2, <2>4
  <2>6. a[(k - (d - 1)) - 1].term = b[(k - (d - 1)) - 1].term
    <3> HIDE DEF a, b, S
    <3> QED BY <1>2, <2>4, <2>5
  <2> QED BY <2>3, <2>4, <2>6
<1>4. ASSUME NEW x \in 1..k PROVE a[x] = b[x]
  <2>0. k \in Nat /\ x \in Nat /\ 1 <= x /\ x <= k
    BY <1>1
  <2>1. k - x \in 0..(k - 1) /\ k - (k - x) = x
    <3> HIDE DEF a, b, S
    <3> QED BY <2>0
  <2>2. a[x].term = b[x].term
    BY <1>3, <2>1
  <2> QED BY <1>2, <2>2
<1> HIDE DEF a, b
<1>5. /\ SubSeq(a, 1, k) \in Seq(Entry) /\ SubSeq(b, 1, k) \in Seq(Entry)
      /\ Len(SubSeq(a, 1, k)) = k /\ Len(SubSeq(b, 1, k)) = k
      /\ \A x \in 1..k : SubSeq(a, 1, k)[x] = a[x] /\ SubSeq(b, 1, k)[x] = b[x]
  BY <1>1
<1>6. SubSeq(a, 1, k) = SubSeq(b, 1, k)
  BY <1>4, <1>5, SeqEqual
<1> QED BY <1>6 DEF a, b

-----------------------------------------------------------------------------
(* Won terms stay won *)

\* A majority's votes of a term bind it for good.
LEMMA SettledKept ==
    ASSUME TypeOK, TypeOK', VoteKept, EvidenceFromVotes,
           NEW t \in Nat, NEW c \in Server, Settled(t, c)
    PROVE  Settled(t, c)'
<1>0. currentTerm \in [Server -> Nat] /\ currentTerm' \in [Server -> Nat]
  BY DEF TypeOK
<1>1. PICK Q \in SUBSET Server :
        /\ Cardinality(Q) >= majority
        /\ \A v \in Q : /\ HasVoted(v, t, c)
                        /\ \A d \in Server : Evidence(v, t, d) => d = c
  BY DEF Settled
<1>2. ASSUME NEW v \in Q PROVE HasVoted(v, t, c)'
  <2>1. v \in Server /\ HasVoted(v, t, c)
    BY <1>1
  <2> QED BY <1>0, <2>1, NilIsNoServer DEF HasVoted, VoteKept
<1>3. ASSUME NEW v \in Q, NEW d \in Server, Evidence(v, t, d)' PROVE d = c
  <2>1. v \in Server /\ HasVoted(v, t, c)
    BY <1>1
  <2>2. CASE Evidence(v, t, d)
    BY <1>1, <2>2
  <2>3. CASE Fresh(v, t, d)
    BY <1>0, <2>1, <2>3, NilIsNoServer DEF Fresh, HasVoted
  <2> QED BY <1>3, <2>1, <2>2, <2>3 DEF EvidenceFromVotes
<1> QED BY <1>1, <1>2, <1>3 DEF Settled

\* A node campaigns again only in a later term.
LEMMA DoneKept ==
    ASSUME TypeOK, TypeOK', VoteKept, Next,
           NEW t \in Nat, NEW c \in Server, Done(t, c)
    PROVE  Done(t, c)'
<1>0. /\ currentTerm \in [Server -> Nat] /\ currentTerm' \in [Server -> Nat]
      /\ loop \in [Server -> Loop]
      /\ currentTerm'[c] >= currentTerm[c]
  BY DEF TypeOK, VoteKept
<1>1. CASE currentTerm[c] > t
  BY <1>0, <1>1 DEF Done
<1>2. CASE currentTerm[c] = t /\ loop[c] \notin {"collecting", "persisting"}
  <2>1. \/ loop'[c] \notin {"collecting", "persisting"}
        \/ currentTerm'[c] = currentTerm[c] + 1
    <3>1. CASE UNCHANGED loop
      BY <1>2, <3>1
    <3>2. ASSUME NEW s \in Server, NodeStep(s), loop' # loop
          PROVE  \/ loop'[c] \notin {"collecting", "persisting"}
                 \/ currentTerm'[c] = currentTerm[c] + 1
      <4>1. CASE runCandidate(s)
        BY <1>0, <1>2, <4>1 DEF runCandidate
      <4>2. CASE CampaignPersisted(s)
        BY <1>0, <1>2, <4>2 DEF CampaignPersisted
      <4>3. CASE Run(s)
        <5>1. loop' = [loop EXCEPT ![s] = "runFollower"]
              \/ loop' = [loop EXCEPT ![s] = "runCandidate"]
              \/ loop' = [loop EXCEPT ![s] = "runLeader"]
          <6>1. state[s] \in Role
            BY DEF TypeOK
          <6> QED BY <4>3, <6>1 DEF Run, Role
        <5> QED BY <1>0, <1>2, <5>1
      <4>4. CASE runFollower(s) \/ ElectionWon(s) \/ ElectionEnds(s)
                 \/ runLeader(s) \/ LeaderReturns(s)
        BY <1>0, <1>2, <4>4
           DEF runFollower, ElectionWon, ElectionEnds, runLeader, LeaderReturns
      <4> QED BY <3>2, <4>1, <4>2, <4>3, <4>4
              DEF NodeStep, sendAppendEntries, ProposeCommand, runDelivery,
                  runVars
    <3>3. ASSUME NEW m \in voteRPCs, VoteStep(m) PROVE UNCHANGED loop
      BY <3>3 DEF VoteStep, RejectVote, StepDownForVote, CastVote, VoteReply,
                  VoteMetaPersisted, VoteError, runVars
    <3>4. ASSUME NEW m \in appendRPCs, AppendStep(m) PROVE UNCHANGED loop
      BY <3>4 DEF AppendStep, RejectAppend, StepDownForAppend, ReceiveEntries,
                  AppendReply, ReplyDeposes, ReplyIgnored, ReplySuccess,
                  ReplyConflict, AppendMetaPersisted, AppendError, runVars
    <3> QED BY <3>1, <3>2, <3>3, <3>4 DEF Next
  <2> QED BY <1>0, <1>2, <2>1 DEF Done
<1> QED BY <1>1, <1>2 DEF Done

\* A leader has won its term.
LEMMA LeaderWon ==
    ASSUME TypeOK, ElectionInv, NEW s \in Server, state[s] = "Leader"
    PROVE  Done(currentTerm[s], s) /\ Settled(currentTerm[s], s)
<1>1. /\ loop[s] \in {"top", "runLeader", "leading"}
      /\ term[s] = currentTerm[s] /\ Cardinality(votes[s]) >= majority
  BY DEF ElectionInv, LeaderElected
<1>2. votes[s] \in SUBSET Server /\ currentTerm[s] \in Nat
  BY DEF TypeOK
<1>3. \A v \in votes[s] : Evidence(v, currentTerm[s], s)
  BY <1>1 DEF Evidence, Tally
<1>4. \A v \in votes[s] :
        /\ HasVoted(v, currentTerm[s], s)
        /\ \A d \in Server : Evidence(v, currentTerm[s], d) => d = s
  BY <1>2, <1>3 DEF ElectionInv, EvidenceBacked, EvidenceUnique
<1>5. Settled(currentTerm[s], s)
  BY <1>1, <1>2, <1>4 DEF Settled
<1> QED BY <1>1, <1>5 DEF Done

\* A campaign that has a majority is of a term that nobody won before.
LEMMA WinnerIsFirst ==
    ASSUME TypeOK, NEW s \in Server, NEW c \in Server,
           loop[s] = "collecting", currentTerm[s] = term[s],
           Cardinality(votes[s]) >= majority,
           Settled(currentTerm[s], c), Done(currentTerm[s], c)
    PROVE  FALSE
<1>0. votes[s] \in SUBSET Server /\ currentTerm[s] \in Nat
  BY DEF TypeOK
<1>1. PICK Q \in SUBSET Server :
        /\ Cardinality(Q) >= majority
        /\ \A v \in Q : \A d \in Server : Evidence(v, currentTerm[s], d) => d = c
  BY DEF Settled
<1>2. PICK v \in Server : v \in Q /\ v \in votes[s]
  BY <1>0, <1>1, MajoritiesMeet
<1>3. Evidence(v, currentTerm[s], s)
  BY <1>2 DEF Evidence, Tally
<1>4. s = c
  BY <1>1, <1>2, <1>3
<1> QED BY <1>0, <1>4 DEF Done

-----------------------------------------------------------------------------
(* Where links come from *)

\* A request carries links of the log it was cut from.
LEMMA CutLinks ==
    ASSUME NEW l \in Seq(Entry), NEW prev \in Nat, NEW m \in AppendRPC,
           m.prevIndex = prev,
           m.prevTerm = IF prev \in 1..Len(l) THEN l[prev].term ELSE 0,
           m.entries = SubSeq(l, prev + 1, Len(l)),
           NEW k, NEW p, NEW e, InCall(m, k, p, e)
    PROVE  InLog(l, k, p, e)
<1> DEFINE es == SubSeq(l, prev + 1, Len(l))
<1>0. Len(l) \in Nat
  OBVIOUS
<1>1. PICK j \in 1..Len(es) :
        /\ k = prev + j /\ es[j] = e
        /\ p = IF j = 1 THEN m.prevTerm ELSE es[j - 1].term
  BY DEF InCall
<1>2. prev < Len(l) /\ Len(es) = Len(l) - prev
  <2>1. prev + 1 > Len(l) => Len(es) = 0
    BY <1>0
  <2>2. Len(es) # 0
    BY <1>1
  <2>3. prev < Len(l)
    <3> HIDE DEF es
    <3> QED BY <1>0, <2>1, <2>2
  <2> QED BY <1>0, <2>3
<1>3. \A i \in 1..Len(es) : es[i] = l[prev + i]
  BY <1>0, <1>2
<1> HIDE DEF es
<1>4. j \in Nat /\ 1 <= j /\ j <= Len(l) - prev
  BY <1>0, <1>1, <1>2
<1>5. k \in 1..Len(l) /\ l[k] = e
  BY <1>0, <1>1, <1>3, <1>4
<1>6. CASE j = 1
  <2>1. k = prev + 1 /\ p = m.prevTerm
    BY <1>1, <1>6
  <2>2. CASE prev = 0
    BY <1>0, <1>5, <2>1, <2>2 DEF InLog
  <2>3. CASE prev # 0
    <3>1. prev \in 1..Len(l) /\ k # 1 /\ k - 1 = prev
      BY <1>0, <1>2, <2>1, <2>3
    <3> QED BY <1>5, <2>1, <3>1 DEF InLog
  <2> QED BY <2>2, <2>3
<1>7. CASE j # 1
  <2>1. j - 1 \in 1..Len(es) /\ k # 1 /\ k - 1 = prev + (j - 1)
    BY <1>0, <1>1, <1>2, <1>4, <1>7
  <2>2. p = l[k - 1].term
    BY <1>1, <1>3, <1>7, <2>1
  <2> QED BY <1>5, <2>1, <2>2 DEF InLog
<1> QED BY <1>6, <1>7

\* The merge of HandleAppendEntries, whose request matches the log at
\* prevIndex, yields links of the log and of the request only.
LEMMA MergeLinks ==
    ASSUME NEW l \in Seq(Entry), NEW m \in AppendRPC,
           m.prevIndex > 0 => /\ m.prevIndex <= Len(l)
                              /\ l[m.prevIndex].term = m.prevTerm,
           m.prevIndex = 0 => m.prevTerm = 0,
           NEW k, NEW p, NEW e,
           InLog(MergeEntries(l, m.prevIndex, m.entries), k, p, e)
    PROVE  InLog(l, k, p, e) \/ InCall(m, k, p, e)
<1> DEFINE prev == m.prevIndex
           es == m.entries
           agrees(i) == prev + i <= Len(l) /\ l[prev + i].term = es[i].term
           keep(x) == x <= prev \/ \A i \in 1..(x - prev) : agrees(i)
           n == prev + Len(es)
           r == [x \in 1..n |-> IF keep(x) THEN l[x] ELSE es[x - prev]]
<1>0. /\ prev \in Nat /\ es \in Seq(Entry) /\ Len(es) \in Nat /\ Len(l) \in Nat
      /\ n \in Nat
  BY DEF AppendRPC
<1>1. CASE \A i \in 1..Len(es) : agrees(i)
  <2>1. MergeEntries(l, m.prevIndex, m.entries) = l
    BY <1>1 DEF MergeEntries
  <2> QED BY <2>1
<1>2. CASE ~ \A i \in 1..Len(es) : agrees(i)
  <2>1. MergeEntries(l, m.prevIndex, m.entries) = r
    BY <1>2 DEF MergeEntries
  <2>2. InLog(r, k, p, e)
    BY <2>1
  <2>3. r \in [1..n -> {IF keep(x) THEN l[x] ELSE es[x - prev] : x \in 1..n}]
    <3> HIDE DEF keep, n
    <3> QED OBVIOUS
  <2>4. Len(r) = n
    <3> HIDE DEF keep, n
    <3> QED BY <1>0
  <2>5. /\ k \in 1..n /\ r[k] = e
        /\ p = IF k = 1 THEN 0 ELSE r[k - 1].term
    <3> HIDE DEF r, n
    <3> QED BY <2>2, <2>4 DEF InLog
  <2>6. \A x \in 1..n : r[x] = IF keep(x) THEN l[x] ELSE es[x - prev]
    <3> HIDE DEF keep, n
    <3> QED OBVIOUS
  <2>7. \A x \in 1..n : keep(x) => x \in 1..Len(l)
    <3> SUFFICES ASSUME NEW x \in 1..n, keep(x) PROVE x \in 1..Len(l)
      OBVIOUS
    <3>1. CASE x <= prev
      BY <1>0, <3>1
    <3>2. CASE x > prev
      <4>1. x - prev \in 1..(x - prev) /\ prev + (x - prev) = x
        BY <1>0, <3>2
      <4>0. x \in Nat /\ ~ (x <= prev) /\ 1 <= x
        BY <1>0, <3>2
      <4>2. agrees(x - prev)
        <5> HIDE DEF agrees, n, r
        <5>1. \A i \in 1..(x - prev) : agrees(i)
          BY <4>0
        <5> QED BY <4>1, <5>1
      <4> QED BY <1>0, <4>0, <4>1, <4>2
    <3> QED BY <1>0, <3>1, <3>2
  <2>8. \A x \in 1..n : keep(x) /\ x > 1 => keep(x - 1)
    <3> SUFFICES ASSUME NEW x \in 1..n, keep(x), x > 1 PROVE keep(x - 1)
      OBVIOUS
    <3>1. CASE x <= prev
      BY <1>0, <3>1
    <3>2. CASE x > prev
      <4>1. \A i \in 1..((x - 1) - prev) : i \in 1..(x - prev)
        BY <1>0, <3>2
      <4>2. \A i \in 1..(x - prev) : agrees(i)
        BY <1>0, <3>2
      <4> HIDE DEF agrees
      <4> QED BY <4>1, <4>2
    <3> QED BY <1>0, <3>1, <3>2
  <2>9. \A x \in 1..n : keep(x) /\ x > prev => l[x].term = es[x - prev].term
    <3> SUFFICES ASSUME NEW x \in 1..n, keep(x), x > prev
                 PROVE  l[x].term = es[x - prev].term
      OBVIOUS
    <3>0. x \in Nat /\ prev \in Nat
      BY <1>0
    <3>1. x - prev \in 1..(x - prev) /\ prev + (x - prev) = x /\ ~ (x <= prev)
      <4> HIDE DEF prev, keep
      <4> QED BY <3>0
    <3>2. agrees(x - prev)
      <4> HIDE DEF agrees
      <4>1. \A i \in 1..(x - prev) : agrees(i)
        BY <3>1
      <4> QED BY <3>1, <4>1
    <3> QED BY <3>1, <3>2
  <2>10. \A x \in 1..n : ~ keep(x) => x > prev
    BY <1>0
  <2> HIDE DEF r, keep, agrees
  <2>11. CASE keep(k)
    <3>1. k \in 1..Len(l) /\ l[k] = e
      BY <2>5, <2>6, <2>7, <2>11
    <3>2. CASE k = 1
      BY <2>5, <3>1, <3>2 DEF InLog
    <3>3. CASE k # 1
      <4>1. k - 1 \in 1..n /\ k > 1
        BY <1>0, <2>5, <3>3
      <4>2. r[k - 1] = l[k - 1]
        BY <2>5, <2>6, <2>8, <2>11, <4>1
      <4> QED BY <2>5, <3>1, <3>3, <4>2 DEF InLog
    <3> QED BY <3>2, <3>3
  <2>12. CASE ~ keep(k)
    <3>1. k > prev /\ e = es[k - prev]
      BY <2>5, <2>6, <2>10, <2>12
    <3> DEFINE j == k - prev
    <3>0. k \in Nat /\ 1 <= k /\ k <= prev + Len(es)
      BY <1>0, <2>5
    <3>2. j \in 1..Len(es) /\ k = prev + j /\ k \in Nat /\ prev \in Nat
      <4> HIDE DEF prev, es
      <4> QED BY <1>0, <3>0, <3>1
    <3>3. p = IF j = 1 THEN m.prevTerm ELSE es[j - 1].term
      <4>1. CASE k = 1
        <5>1. prev = 0 /\ j = 1
          <6>1. prev \in Nat /\ k > prev /\ j = k - prev
            BY <1>0, <3>1
          <6> HIDE DEF prev, es, j, n
          <6> QED BY <4>1, <6>1
        <5>2. p = 0
          BY <2>5, <4>1
        <5> QED BY <5>1, <5>2
      <4>2. CASE k # 1 /\ j = 1
        <5>1. k - 1 = prev /\ prev > 0 /\ prev \in 1..n
          <6>1. k = prev + 1 /\ k # 1 /\ n = prev + Len(es)
            BY <3>2, <4>2
          <6> HIDE DEF prev, es, j, n
          <6> QED BY <1>0, <6>1
        <5>2. keep(k - 1)
          BY <5>1 DEF keep
        <5>3. r[k - 1] = l[prev]
          BY <2>6, <5>1, <5>2
        <5> QED BY <2>5, <4>2, <5>1, <5>3
      <4>3. CASE j # 1
        <5>1. k - 1 \in 1..n /\ k - 1 > prev /\ (k - 1) - prev = j - 1 /\ k # 1
          <6>1. j \in Nat /\ 1 < j /\ n = prev + Len(es) /\ k <= n
            BY <1>0, <3>0, <3>2, <4>3
          <6> HIDE DEF prev, es, j, n
          <6> QED BY <1>0, <3>2, <6>1
        <5>2. r[k - 1].term = es[j - 1].term
          <6>1. CASE keep(k - 1)
            BY <2>6, <2>9, <5>1, <6>1
          <6>2. CASE ~ keep(k - 1)
            BY <2>6, <5>1, <6>2
          <6> QED BY <6>1, <6>2
        <5> QED BY <2>5, <4>3, <5>1, <5>2
      <4> QED BY <4>1, <4>2, <4>3
    <3> QED BY <3>1, <3>2, <3>3 DEF InCall
  <2> QED BY <2>11, <2>12
<1> QED BY <1>1, <1>2

\* A proposal adds one link, after the last.
LEMMA ProposedLinks ==
    ASSUME NEW l \in Seq(Entry), NEW x \in Entry,
           NEW k, NEW p, NEW e, InLog(Append(l, x), k, p, e)
    PROVE  \/ InLog(l, k, p, e)
           \/ k = Len(l) + 1 /\ e = x /\ p = LastTerm(l)
<1> DEFINE r == Append(l, x)
<1>1. /\ Len(l) \in Nat /\ Len(r) = Len(l) + 1 /\ r[Len(l) + 1] = x
      /\ \A i \in 1..Len(l) : r[i] = l[i]
  OBVIOUS
<1>2. Len(l) > 0 <=> l # <<>>
  OBVIOUS
<1>3. /\ k \in 1..Len(r) /\ r[k] = e
      /\ p = IF k = 1 THEN 0 ELSE r[k - 1].term
  BY DEF InLog
<1> HIDE DEF r
<1>4. CASE k <= Len(l)
  <2>1. k \in 1..Len(l) /\ (k # 1 => k - 1 \in 1..Len(l))
    BY <1>1, <1>3, <1>4
  <2> QED BY <1>1, <1>3, <2>1 DEF InLog
<1>5. CASE k > Len(l)
  <2>1. k = Len(l) + 1
    BY <1>1, <1>3, <1>5
  <2>2. CASE Len(l) = 0
    BY <1>1, <1>2, <1>3, <2>1, <2>2 DEF LastTerm
  <2>3. CASE Len(l) # 0
    <3>1. k # 1 /\ k - 1 = Len(l) /\ Len(l) \in 1..Len(l)
      BY <1>1, <2>1, <2>3
    <3> QED BY <1>1, <1>2, <1>3, <2>1, <2>3, <3>1 DEF LastTerm
  <2> QED BY <2>2, <2>3
<1> QED BY <1>1, <1>3, <1>4, <1>5

\* d's proposal puts e after the last entry of a leader's log.
Proposed(k, p, e) == \E s \in Server, d \in Data :
    /\ ProposeCommand(s, d)
    /\ k = Len(log[s]) + 1 /\ p = LastTerm(log[s])
    /\ e = [term |-> currentTerm[s], data |-> d]

SameCall(n, m) ==
    /\ n.from = m.from /\ n.to = m.to /\ n.term = m.term
    /\ n.prevIndex = m.prevIndex /\ n.prevTerm = m.prevTerm /\ n.entries = m.entries

\* m is cut from the log of s, a leader, from the position after prev on.
Cut(m, s, prev) ==
    /\ m.from = s /\ m.to \in peers(s) /\ m.term = currentTerm[s] /\ ~m.ok
    /\ state[s] = "Leader" /\ loop[s] = "leading" /\ prev = nextIndex[s][m.to] - 1
    /\ m.prevIndex = prev /\ m.entries = SubSeq(log[s], prev + 1, Len(log[s]))
    /\ m.prevTerm = IF prev \in 1..Len(log[s]) THEN log[s][prev].term ELSE 0

\* Requests are cut from logs and never rewritten; a node steps down into the
\* term of one.
LEMMA CallsFrom ==
    ASSUME TypeOK, Next, NEW m \in appendRPCs'
    PROVE  \/ \E n \in appendRPCs :
                /\ SameCall(n, m)
                /\ m.stage \in {"stepping", "stepped"} =>
                     n.stage \in {"stepping", "stepped"} \/ currentTerm'[m.to] = m.term
           \/ \E s \in Server, prev \in Nat : Cut(m, s, prev) /\ m.stage = "sent"
<1>0. \A n \in appendRPCs : n \in AppendRPC
  BY DEF TypeOK
<1>1. CASE m \in appendRPCs
  BY <1>1 DEF SameCall
<1>2. CASE m \notin appendRPCs
  <2>1. ASSUME NEW s \in Server, NodeStep(s)
        PROVE  \E x \in Server, prev \in Nat : Cut(m, x, prev) /\ m.stage = "sent"
    <3>1. PICK p \in peers(s) : sendAppendEntries(s, p)
      BY <1>2, <2>1
         DEF NodeStep, Run, runFollower, runCandidate, CampaignPersisted,
             ElectionWon, ElectionEnds, runLeader, LeaderReturns,
             ProposeCommand, runDelivery
    <3> DEFINE prev == nextIndex[s][p] - 1
    <3>2. prev \in Nat
      <4>1. nextIndex[s] \in [Server -> Nat \ {0}] /\ p \in Server
        BY DEF TypeOK, peers
      <4>2. nextIndex[s][p] \in Nat \ {0}
        BY <4>1
      <4> QED BY <4>2
    <3>3. m = [from |-> s, to |-> p, term |-> term[s], prevIndex |-> prev,
               prevTerm  |-> IF prev \in 1..Len(log[s])
                             THEN log[s][prev].term ELSE 0,
               entries   |-> SubSeq(log[s], prev + 1, Len(log[s])),
               commit    |-> commitIndex[s],
               stage |-> "sent", rterm |-> 0, ok |-> FALSE]
      BY <1>2, <3>1 DEF sendAppendEntries
    <3> HIDE DEF prev
    <3>4. Cut(m, s, prev) /\ m.stage = "sent"
      BY <3>1, <3>3 DEF Cut, sendAppendEntries, stillLeader, prev
    <3> QED BY <3>2, <3>4
  <2>2. ASSUME NEW n \in voteRPCs, VoteStep(n) PROVE FALSE
    BY <1>2, <2>2 DEF VoteStep, RejectVote, StepDownForVote, CastVote,
                      VoteReply, VoteMetaPersisted, VoteError
  <2>3. ASSUME NEW n \in appendRPCs, AppendStep(n)
        PROVE  /\ SameCall(n, m)
               /\ m.stage \in {"stepping", "stepped"} =>
                    n.stage \in {"stepping", "stepped"} \/ currentTerm'[m.to] = m.term
    <3>0. n \in AppendRPC /\ n.to \in Server
      BY <1>0 DEF AppendRPC
    <3>1. CASE RejectAppend(n)
      <4>1. m = [n EXCEPT !.stage = "replied", !.ok = FALSE,
                          !.rterm = currentTerm[n.to]]
        BY <1>2, <3>1 DEF RejectAppend, ReplaceAppend
      <4> QED BY <3>0, <4>1 DEF AppendRPC, SameCall
    <3>2. CASE StepDownForAppend(n)
      <4>1. m = [n EXCEPT !.stage = "stepping"]
        BY <1>2, <3>2 DEF StepDownForAppend, ReplaceAppend
      <4>2. currentTerm'[n.to] = n.term
        BY <3>0, <3>2 DEF StepDownForAppend, stepDown, TypeOK
      <4> QED BY <3>0, <4>1, <4>2 DEF AppendRPC, SameCall
    <3>3. CASE ReceiveEntries(n)
      <4>1. \E t, b : m = [n EXCEPT !.stage = "replied", !.rterm = t, !.ok = b]
        BY <1>2, <3>3 DEF ReceiveEntries, ReplaceAppend
      <4> QED BY <3>0, <4>1 DEF AppendRPC, SameCall
    <3>4. CASE AppendReply(n)
      <4>1. m = [n EXCEPT !.stage = "yielding"]
        BY <1>2, <3>4 DEF AppendReply, ReplyDeposes, ReplyIgnored,
                          ReplySuccess, ReplyConflict, ReplaceAppend
      <4> QED BY <3>0, <4>1 DEF AppendRPC, SameCall
    <3>5. CASE AppendMetaPersisted(n)
      <4>1. m = [n EXCEPT !.stage = "stepped"] /\ n.stage = "stepping"
        BY <1>2, <3>5 DEF AppendMetaPersisted, ReplaceAppend
      <4> QED BY <3>0, <4>1 DEF AppendRPC, SameCall
    <3>6. CASE AppendError(n)
      BY <1>2, <3>6 DEF AppendError
    <3> QED BY <2>3, <3>1, <3>2, <3>3, <3>4, <3>5, <3>6 DEF AppendStep
  <2> QED BY <2>1, <2>2, <2>3 DEF Next
<1> QED BY <1>1, <1>2

\* Logs change by proposals and by merges of matching requests only.
LEMMA LogsFrom ==
    ASSUME TypeOK, Next, NEW s \in Server
    PROVE  \/ log'[s] = log[s]
           \/ \E d \in Data : /\ ProposeCommand(s, d)
                              /\ log'[s] = Append(log[s], [term |-> currentTerm[s],
                                                           data |-> d])
           \/ \E m \in appendRPCs :
                /\ m.prevIndex > 0 => /\ m.prevIndex <= Len(log[s])
                                      /\ log[s][m.prevIndex].term = m.prevTerm
                /\ log'[s] = MergeEntries(log[s], m.prevIndex, m.entries)
                /\ m.to = s /\ ReceiveEntries(m) /\ log'[s] # log[s]
<1>0. /\ log \in [Server -> Seq(Entry)] /\ state \in [Server -> Role]
  BY DEF TypeOK
<1>1. ASSUME NEW x \in Server, NodeStep(x), log'[s] # log[s]
      PROVE  \E d \in Data : /\ ProposeCommand(s, d)
                             /\ log'[s] = Append(log[s], [term |-> currentTerm[s],
                                                          data |-> d])
  <2>1. PICK d \in Data : ProposeCommand(x, d)
    BY <1>1 DEF NodeStep, Run, runFollower, runCandidate, CampaignPersisted,
                ElectionWon, ElectionEnds, runLeader, LeaderReturns,
                sendAppendEntries, runDelivery, logVars
  <2>2. x = s
    BY <1>0, <1>1, <2>1 DEF ProposeCommand
  <2> QED BY <1>0, <2>1, <2>2 DEF ProposeCommand
<1>2. ASSUME NEW m \in voteRPCs, VoteStep(m) PROVE log' = log
  BY <1>2 DEF VoteStep, RejectVote, StepDownForVote, CastVote, VoteReply,
              VoteMetaPersisted, VoteError, logVars
<1>3. ASSUME NEW m \in appendRPCs, AppendStep(m), log'[s] # log[s]
      PROVE  /\ m.prevIndex > 0 => /\ m.prevIndex <= Len(log[s])
                                   /\ log[s][m.prevIndex].term = m.prevTerm
             /\ log'[s] = MergeEntries(log[s], m.prevIndex, m.entries)
             /\ m.to = s /\ ReceiveEntries(m)
  <2>1. ReceiveEntries(m)
    BY <1>3 DEF AppendStep, RejectAppend, StepDownForAppend, AppendReply,
                ReplyDeposes, ReplyIgnored, ReplySuccess, ReplyConflict,
                AppendMetaPersisted, AppendError, logVars
  <2> DEFINE merged == MergeEntries(log[m.to], m.prevIndex, m.entries)
  <2>2. \/ log' = log
        \/ /\ log' = [log EXCEPT ![m.to] = merged]
           /\ m.prevIndex > 0 => /\ m.prevIndex <= Len(log[m.to])
                                 /\ log[m.to][m.prevIndex].term = m.prevTerm
    BY <2>1 DEF ReceiveEntries
  <2> HIDE DEF merged
  <2>3. m.to = s
    BY <1>0, <1>3, <2>2
  <2> QED BY <1>0, <1>3, <2>1, <2>2, <2>3 DEF merged
<1> QED BY <1>1, <1>2, <1>3 DEF Next

\* So a step adds no link but the one of a proposal.
LEMMA LinksFrom ==
    ASSUME TypeOK, TypeOK', CallsSane, Next,
           NEW k, NEW p, NEW e, Link(k, p, e)'
    PROVE  Link(k, p, e) \/ Proposed(k, p, e)
<1>1. ASSUME NEW s \in Server, InLog(log'[s], k, p, e)
      PROVE  Link(k, p, e) \/ Proposed(k, p, e)
  <2>0. log[s] \in Seq(Entry) /\ currentTerm[s] \in Nat
    BY DEF TypeOK
  <2>1. CASE log'[s] = log[s]
    BY <1>1, <2>1 DEF Link
  <2>2. ASSUME NEW d \in Data, ProposeCommand(s, d),
               log'[s] = Append(log[s], [term |-> currentTerm[s], data |-> d])
        PROVE  Link(k, p, e) \/ Proposed(k, p, e)
    <3> DEFINE x == [term |-> currentTerm[s], data |-> d]
    <3>1. x \in Entry
      BY <2>0 DEF Entry
    <3>2. InLog(Append(log[s], x), k, p, e)
      BY <1>1, <2>2
    <3> HIDE DEF x
    <3>3. InLog(log[s], k, p, e) \/ (k = Len(log[s]) + 1 /\ e = x /\ p = LastTerm(log[s]))
      BY <2>0, <3>1, <3>2, ProposedLinks
    <3> QED BY <2>2, <3>3 DEF Link, Proposed, x
  <2>3. ASSUME NEW m \in appendRPCs,
               m.prevIndex > 0 => /\ m.prevIndex <= Len(log[s])
                                  /\ log[s][m.prevIndex].term = m.prevTerm,
               log'[s] = MergeEntries(log[s], m.prevIndex, m.entries)
        PROVE  Link(k, p, e)
    <3>1. m \in AppendRPC /\ (m.prevIndex = 0 => m.prevTerm = 0)
      BY DEF TypeOK, CallsSane
    <3>2. InLog(MergeEntries(log[s], m.prevIndex, m.entries), k, p, e)
      BY <1>1, <2>3
    <3>3. InLog(log[s], k, p, e) \/ InCall(m, k, p, e)
      BY <2>0, <2>3, <3>1, <3>2, MergeLinks
    <3> QED BY <3>3 DEF Link
  <2> QED BY <2>1, <2>2, <2>3, LogsFrom
<1>2. ASSUME NEW m \in appendRPCs', InCall(m, k, p, e)
      PROVE  Link(k, p, e)
  <2>1. CASE \E n \in appendRPCs : SameCall(n, m)
    <3>1. PICK n \in appendRPCs : SameCall(n, m)
      BY <2>1
    <3>2. InCall(n, k, p, e)
      BY <1>2, <3>1 DEF SameCall, InCall
    <3> QED BY <3>2 DEF Link
  <2>2. ASSUME NEW s \in Server, NEW prev \in Nat, Cut(m, s, prev)
        PROVE  Link(k, p, e)
    <3>1. log[s] \in Seq(Entry) /\ m \in AppendRPC
      BY DEF TypeOK
    <3>2. InLog(log[s], k, p, e)
      BY <1>2, <2>2, <3>1, CutLinks DEF Cut
    <3> QED BY <3>2 DEF Link
  <2> QED BY <2>1, <2>2, CallsFrom
<1>3. \/ \E s \in Server : InLog(log'[s], k, p, e)
      \/ \E m \in appendRPCs' : InCall(m, k, p, e)
  BY DEF Link, InLog, InCall
<1> QED BY <1>1, <1>2, <1>3

-----------------------------------------------------------------------------
(* The invariant is kept *)

LEMMA CallsSaneKept ==
    ASSUME TypeOK, TypeOK', CallsSane, Next
    PROVE  CallsSane'
<1> SUFFICES ASSUME NEW m \in appendRPCs'
             PROVE  /\ m.prevIndex = 0 => m.prevTerm = 0
                    /\ m.stage \in {"stepping", "stepped"} => m.term <= currentTerm'[m.to]
  BY DEF CallsSane
<1>0. /\ m.to \in Server /\ m.term \in Nat
      /\ currentTerm[m.to] \in Nat /\ currentTerm'[m.to] \in Nat
  BY DEF TypeOK, AppendRPC
<1>1. currentTerm'[m.to] >= currentTerm[m.to]
  BY <1>0, VoteKeptStep DEF VoteKept
<1>2. ASSUME NEW n \in appendRPCs, SameCall(n, m),
             m.stage \in {"stepping", "stepped"} =>
                n.stage \in {"stepping", "stepped"} \/ currentTerm'[m.to] = m.term
      PROVE  /\ m.prevIndex = 0 => m.prevTerm = 0
             /\ m.stage \in {"stepping", "stepped"} => m.term <= currentTerm'[m.to]
  <2>1. /\ n.prevIndex = 0 => n.prevTerm = 0
        /\ n.stage \in {"stepping", "stepped"} => n.term <= currentTerm[n.to]
    BY DEF CallsSane
  <2> QED BY <1>0, <1>1, <1>2, <2>1 DEF SameCall
<1>3. ASSUME NEW s \in Server, NEW prev \in Nat, Cut(m, s, prev), m.stage = "sent"
      PROVE  /\ m.prevIndex = 0 => m.prevTerm = 0
             /\ m.stage \notin {"stepping", "stepped"}
  <2>1. prev = 0 => prev \notin 1..Len(log[s])
    OBVIOUS
  <2> QED BY <1>3, <2>1 DEF Cut
<1> QED BY <1>2, <1>3, CallsFrom

\* A leader after a step led the same term before, or has just won it.
LEMMA LeadersFrom ==
    ASSUME TypeOK, ElectionInv, Next, NEW s \in Server, state'[s] = "Leader"
    PROVE  /\ currentTerm'[s] = currentTerm[s]
           /\ \/ state[s] = "Leader"
              \/ /\ loop[s] = "collecting" /\ currentTerm[s] = term[s]
                 /\ Cardinality(votes[s]) >= majority
                 /\ UNCHANGED <<log, appendRPCs>>
<1>0. /\ currentTerm \in [Server -> Nat] /\ state \in [Server -> Role]
  BY DEF TypeOK
<1>1. ASSUME NEW x \in Server, NodeStep(x)
      PROVE  /\ currentTerm'[s] = currentTerm[s]
             /\ \/ state[s] = "Leader"
                \/ /\ loop[s] = "collecting" /\ currentTerm[s] = term[s]
                   /\ Cardinality(votes[s]) >= majority
                   /\ UNCHANGED <<log, appendRPCs>>
  <2>1. CASE runFollower(x)
    BY <1>0, <2>1 DEF runFollower
  <2>2. CASE runCandidate(x)
    <3>1. state[s] = "Leader" /\ loop[x] = "runCandidate"
      BY <2>2 DEF runCandidate
    <3>2. x # s
      BY <3>1 DEF ElectionInv, LeaderElected
    <3> QED BY <1>0, <2>2, <3>1, <3>2 DEF runCandidate
  <2>3. CASE ElectionWon(x)
    BY <1>0, <2>3 DEF ElectionWon, logVars
  <2>4. CASE UNCHANGED <<currentTerm, state>>
    BY <2>4
  <2> QED BY <1>1, <2>1, <2>2, <2>3, <2>4
          DEF NodeStep, Run, CampaignPersisted, ElectionEnds, runLeader,
              LeaderReturns, sendAppendEntries, ProposeCommand, runDelivery,
              electionVars
<1>2. ASSUME NEW m \in voteRPCs, VoteStep(m)
      PROVE  currentTerm'[s] = currentTerm[s] /\ state[s] = "Leader"
  <2>0. m.from \in Server /\ m.to \in Server
    BY DEF TypeOK, VoteRPC
  <2>1. CASE StepDownForVote(m)
    BY <1>0, <2>0, <2>1 DEF StepDownForVote, stepDown
  <2>2. CASE CastVote(m)
    BY <1>0, <2>0, <2>2 DEF CastVote
  <2>3. CASE VoteReply(m)
    BY <1>0, <2>0, <2>3 DEF VoteReply, stepDown, electionVars
  <2>4. CASE UNCHANGED electionVars
    BY <2>4 DEF electionVars
  <2> QED BY <1>2, <2>1, <2>2, <2>3, <2>4
          DEF VoteStep, RejectVote, VoteMetaPersisted, VoteError
<1>3. ASSUME NEW m \in appendRPCs, AppendStep(m)
      PROVE  currentTerm'[s] = currentTerm[s] /\ state[s] = "Leader"
  <2>0. m.from \in Server /\ m.to \in Server
    BY DEF TypeOK, AppendRPC
  <2>1. CASE StepDownForAppend(m)
    BY <1>0, <2>0, <2>1 DEF StepDownForAppend, stepDown
  <2>2. CASE ReceiveEntries(m)
    <3>1. /\ currentTerm' = [currentTerm EXCEPT ![m.to] =
                IF m.stage = "sent" /\ m.term > currentTerm[m.to]
                THEN m.term ELSE currentTerm[m.to]]
          /\ state' = IF m.stage = "sent"
                      THEN [state EXCEPT ![m.to] = "Follower"] ELSE state
      BY <1>0, <2>0, <2>2 DEF ReceiveEntries, roleAfter
    <3> QED BY <1>0, <2>0, <3>1
  <2>3. CASE ReplyDeposes(m)
    BY <1>0, <2>0, <2>3 DEF ReplyDeposes, stepDown
  <2>4. CASE UNCHANGED electionVars
    BY <2>4 DEF electionVars
  <2> QED BY <1>3, <2>1, <2>2, <2>3, <2>4
          DEF AppendStep, RejectAppend, AppendReply, ReplyIgnored,
              ReplySuccess, ReplyConflict, AppendMetaPersisted, AppendError
<1> QED BY <1>1, <1>2, <1>3 DEF Next

\* Only the leader of a term has sent requests in it.
LEMMA CallerLeads ==
    ASSUME TypeOK, ElectionInv, CallsOwned, NEW m \in appendRPCs,
           NEW s \in Server, state[s] = "Leader", currentTerm[s] = m.term
    PROVE  m.from = s
<1>0. votes[s] \in SUBSET Server /\ m.from \in Server
  BY DEF TypeOK, AppendRPC
<1>1. PICK Q \in SUBSET Server :
        /\ Cardinality(Q) >= majority
        /\ \A v \in Q : \A d \in Server : Evidence(v, m.term, d) => d = m.from
  BY DEF CallsOwned, Settled
<1>2. term[s] = currentTerm[s] /\ Cardinality(votes[s]) >= majority
  BY DEF ElectionInv, LeaderElected
<1>3. PICK v \in Server : v \in Q /\ v \in votes[s]
  BY <1>0, <1>1, <1>2, MajoritiesMeet
<1>4. Evidence(v, m.term, s)
  BY <1>2, <1>3 DEF Evidence, Tally
<1> QED BY <1>1, <1>3, <1>4

\* A handler that rewrites a log is on record unless it is of the node's term.
LEMMA OverrunStep ==
    ASSUME TypeOK, Next
    PROVE  /\ overrun \subseteq overrun'
           /\ \A m \in appendRPCs :
                ReceiveEntries(m) /\ m.term < currentTerm[m.to]
                /\ log'[m.to] # log[m.to] => state[m.to] \in overrun'
<1>1. ASSUME NEW m \in appendRPCs, ReceiveEntries(m)
      PROVE  /\ overrun \subseteq overrun'
             /\ m.term < currentTerm[m.to] /\ log' # log => state[m.to] \in overrun'
  BY <1>1 DEF ReceiveEntries
<1>2. ASSUME NEW s \in Server, NodeStep(s) PROVE overrun' = overrun
  BY <1>2 DEF NodeStep, Run, runFollower, runCandidate, CampaignPersisted,
              ElectionWon, ElectionEnds, runLeader, LeaderReturns,
              sendAppendEntries, ProposeCommand, runDelivery, logVars
<1>3. ASSUME NEW m \in voteRPCs, VoteStep(m) PROVE overrun' = overrun
  BY <1>3 DEF VoteStep, RejectVote, StepDownForVote, CastVote, VoteReply,
              VoteMetaPersisted, VoteError, logVars
<1>4. ASSUME NEW m \in appendRPCs, AppendStep(m) PROVE overrun \subseteq overrun'
  BY <1>1, <1>4 DEF AppendStep, RejectAppend, StepDownForAppend, AppendReply,
                    ReplyDeposes, ReplyIgnored, ReplySuccess, ReplyConflict,
                    AppendMetaPersisted, AppendError, logVars
<1>5. overrun \subseteq overrun'
  BY <1>2, <1>3, <1>4 DEF Next
<1> QED BY <1>1, <1>5

\* The log of a node that leads after the step, if handlers spare leaders,
\* was changed by its own proposal or not at all.
LEMMA LeaderLogFrom ==
    ASSUME TypeOK, ElectionInv, CallsSane, CallsOwned, Next, LeadersSpared',
           NEW s \in Server, state'[s] = "Leader"
    PROVE  \/ log'[s] = log[s]
           \/ \E d \in Data : /\ ProposeCommand(s, d)
                              /\ log'[s] = Append(log[s], [term |-> currentTerm[s],
                                                           data |-> d])
<1>1. ASSUME NEW m \in appendRPCs, m.to = s, ReceiveEntries(m), log'[s] # log[s]
      PROVE  FALSE
  <2>0. /\ m.term \in Nat /\ currentTerm[s] \in Nat /\ state \in [Server -> Role]
    BY DEF TypeOK, AppendRPC
  <2>1. m.stage # "sent"
    BY <1>1, <2>0 DEF ReceiveEntries, roleAfter
  <2>2. m.stage = "stepped" /\ state[s] = "Leader"
    BY <1>1, <2>0, <2>1 DEF ReceiveEntries, roleAfter
  <2>3. m.term <= currentTerm[s]
    BY <1>1, <2>2 DEF CallsSane
  <2>4. ~ (m.term < currentTerm[s])
    BY <1>1, <2>2, OverrunStep DEF LeadersSpared
  <2>5. m.from = s
    BY <2>0, <2>2, <2>3, <2>4, CallerLeads
  <2> QED BY <1>1, <2>5 DEF CallsOwned
<1> QED BY <1>1, LogsFrom

LEMMA CallsOwnedStep ==
    ASSUME TypeOK, TypeOK', ElectionInv, CallsOwned, Next
    PROVE  CallsOwned'
<1>1. VoteKept
  BY VoteKeptStep
<1>2. EvidenceFromVotes
  BY <1>1, EvidenceStep
<1> SUFFICES ASSUME NEW m \in appendRPCs'
             PROVE  m.from # m.to /\ Done(m.term, m.from)' /\ Settled(m.term, m.from)'
  BY DEF CallsOwned
<1>3. m.from \in Server /\ m.term \in Nat
  BY DEF TypeOK, AppendRPC
<1>4. m.from # m.to /\ Done(m.term, m.from) /\ Settled(m.term, m.from)
  <2>1. ASSUME NEW n \in appendRPCs, SameCall(n, m)
        PROVE  m.from # m.to /\ Done(m.term, m.from) /\ Settled(m.term, m.from)
    BY <2>1 DEF CallsOwned, SameCall
  <2>2. ASSUME NEW x \in Server, NEW prev \in Nat, Cut(m, x, prev)
        PROVE  m.from # m.to /\ Done(m.term, m.from) /\ Settled(m.term, m.from)
    <3>1. m.from = x /\ m.to # x /\ m.term = currentTerm[x] /\ state[x] = "Leader"
      BY <2>2 DEF Cut, peers
    <3> QED BY <3>1, LeaderWon
  <2> QED BY <2>1, <2>2, CallsFrom
<1> QED BY <1>1, <1>2, <1>3, <1>4, DoneKept, SettledKept

\* An entry just proposed is the first of its term at its position.
LEMMA ProposedIsNew ==
    ASSUME TypeOK, LeaderHolds,
           NEW k \in Nat, NEW p \in Nat, NEW q \in Nat,
           NEW e \in Entry, NEW f \in Entry,
           Link(k, p, e), Proposed(k, q, f)
    PROVE  e.term # f.term
<1> SUFFICES ASSUME e.term = f.term PROVE FALSE
  OBVIOUS
<1>1. PICK s \in Server, d \in Data :
        /\ ProposeCommand(s, d) /\ k = Len(log[s]) + 1
        /\ f = [term |-> currentTerm[s], data |-> d]
  BY DEF Proposed
<1>2. state[s] = "Leader" /\ f.term = currentTerm[s]
  BY <1>1 DEF ProposeCommand
<1>3. k <= Len(log[s])
  BY <1>2 DEF LeaderHolds
<1>4. Len(log[s]) \in Nat
  BY DEF TypeOK
<1> QED BY <1>1, <1>3, <1>4

\* One step is one proposal.
LEMMA ProposedOnce ==
    ASSUME TypeOK, NEW k \in Nat, NEW p \in Nat, NEW q \in Nat,
           NEW e \in Entry, NEW f \in Entry, Proposed(k, p, e), Proposed(k, q, f)
    PROVE  e = f /\ p = q
<1>1. PICK s \in Server, d \in Data :
        /\ ProposeCommand(s, d) /\ p = LastTerm(log[s])
        /\ e = [term |-> currentTerm[s], data |-> d]
  BY DEF Proposed
<1>2. PICK x \in Server, c \in Data :
        /\ ProposeCommand(x, c) /\ q = LastTerm(log[x])
        /\ f = [term |-> currentTerm[x], data |-> c]
  BY DEF Proposed
<1>0. log \in [Server -> Seq(Entry)] /\ currentTerm \in [Server -> Nat]
  BY DEF TypeOK
<1>3. e \in Entry /\ f \in Entry
  BY <1>0, <1>1, <1>2 DEF Entry
<1>4. /\ log' = [log EXCEPT ![s] = Append(@, e)]
      /\ log' = [log EXCEPT ![x] = Append(@, f)]
  BY <1>1, <1>2 DEF ProposeCommand
<1>5. /\ Append(log[s], e) # log[s]
      /\ Len(log[s]) \in Nat /\ Append(log[s], e)[Len(log[s]) + 1] = e
      /\ Append(log[s], f)[Len(log[s]) + 1] = f
  <2>1. log[s] \in Seq(Entry)
    BY <1>0
  <2> QED BY <1>3, <2>1
<1>6. s = x
  BY <1>0, <1>4, <1>5
<1>7. Append(log[s], e) = Append(log[s], f)
  BY <1>0, <1>4, <1>6
<1> QED BY <1>1, <1>2, <1>5, <1>6, <1>7

LEMMA LogInvStep ==
    ASSUME TypeOK, TypeOK', ElectionInv, LogInv, Next
    PROVE  LogInv'
<1>0. /\ currentTerm \in [Server -> Nat] /\ log \in [Server -> Seq(Entry)]
      /\ log' \in [Server -> Seq(Entry)]
  BY DEF TypeOK
<1>1. VoteKept
  BY VoteKeptStep
<1>2. EvidenceFromVotes
  BY <1>1, EvidenceStep
<1>3. CallsSane'
  BY CallsSaneKept DEF LogInv
<1>4. \A k, p \in Nat, e \in Entry :
        Link(k, p, e)' => Link(k, p, e) \/ Proposed(k, p, e)
  BY LinksFrom DEF LogInv
<1>a. CallsOwned'
  BY CallsOwnedStep DEF LogInv
<1>b. LeadersSpared' => LinksMatch /\ LeaderHolds
  BY OverrunStep DEF LogInv, LeadersSpared
<1>5. ASSUME LeadersSpared' PROVE LinksMatch'
  <2> SUFFICES ASSUME NEW k \in Nat, NEW p \in Nat, NEW q \in Nat,
                      NEW e \in Entry, NEW f \in Entry,
                      Link(k, p, e)', Link(k, q, f)', e.term = f.term
               PROVE  e = f /\ p = q
    BY DEF LinksMatch
  <2>1. /\ Link(k, p, e) \/ Proposed(k, p, e)
        /\ Link(k, q, f) \/ Proposed(k, q, f)
    BY <1>4
  <2>2. CASE Link(k, p, e) /\ Link(k, q, f)
    BY <1>5, <1>b, <2>2 DEF LinksMatch
  <2>3. CASE Link(k, p, e) /\ Proposed(k, q, f)
    BY <1>5, <1>b, <2>3, ProposedIsNew
  <2>4. CASE Proposed(k, p, e) /\ Link(k, q, f)
    BY <1>5, <1>b, <2>4, ProposedIsNew
  <2>5. CASE Proposed(k, p, e) /\ Proposed(k, q, f)
    BY <2>5, ProposedOnce
  <2> QED BY <2>1, <2>2, <2>3, <2>4, <2>5
<1>6. ASSUME LeadersSpared' PROVE LeaderHolds'
  <2> SUFFICES ASSUME NEW s \in Server, NEW k \in Nat, NEW p \in Nat,
                      NEW e \in Entry, state'[s] = "Leader",
                      Link(k, p, e)', e.term = currentTerm'[s]
               PROVE  k <= Len(log'[s])
    BY DEF LeaderHolds
  <2>0. Len(log[s]) \in Nat /\ e.term = currentTerm[s]
    BY <1>0, LeadersFrom
  <2>1. CASE state[s] = "Leader"
    <3>1. Len(log'[s]) >= Len(log[s])
      <4>1. CASE log'[s] = log[s]
        BY <2>0, <4>1
      <4>2. ASSUME NEW d \in Data,
                   log'[s] = Append(log[s], [term |-> currentTerm[s], data |-> d])
            PROVE  Len(log'[s]) >= Len(log[s])
        <5>1. [term |-> currentTerm[s], data |-> d] \in Entry /\ log[s] \in Seq(Entry)
          BY <1>0 DEF Entry
        <5> QED BY <2>0, <4>2, <5>1
      <4> QED BY <1>6, <4>1, <4>2, LeaderLogFrom DEF LogInv
    <3>2. CASE Link(k, p, e)
      <4>1. k <= Len(log[s])
        BY <1>6, <1>b, <2>0, <2>1, <3>2 DEF LeaderHolds
      <4>2. Len(log'[s]) \in Nat
        BY <1>0
      <4> QED BY <2>0, <3>1, <4>1, <4>2
    <3>3. CASE Proposed(k, p, e)
      <4>1. PICK x \in Server, d \in Data :
              /\ ProposeCommand(x, d) /\ k = Len(log[x]) + 1
              /\ e = [term |-> currentTerm[x], data |-> d]
        BY <3>3 DEF Proposed
      <4>2. state[x] = "Leader" /\ currentTerm[x] = currentTerm[s]
        BY <2>0, <4>1 DEF ProposeCommand
      <4>3. x = s
        BY <2>1, <4>2, ElectionInvSuffices DEF ElectionSafety
      <4>4. log'[s] = Append(log[s], e)
        BY <1>0, <4>1, <4>3 DEF ProposeCommand
      <4>5. log[s] \in Seq(Entry)
        BY <1>0
      <4> QED BY <4>1, <4>3, <4>4, <4>5
    <3> QED BY <1>4, <3>2, <3>3
  <2>2. CASE state[s] # "Leader"
    <3>1. /\ loop[s] = "collecting" /\ currentTerm[s] = term[s]
          /\ Cardinality(votes[s]) >= majority /\ UNCHANGED <<log, appendRPCs>>
      BY <2>2, LeadersFrom
    <3>2. Link(k, p, e)
      BY <3>1 DEF Link
    <3>3. PICK c \in Server : Done(e.term, c) /\ Settled(e.term, c)
      BY <3>2 DEF LogInv, TermsOwned
    <3> QED BY <2>0, <3>1, <3>3, WinnerIsFirst
  <2> QED BY <2>1, <2>2
<1>7. TermsOwned'
  <2> SUFFICES ASSUME NEW k \in Nat, NEW p \in Nat, NEW e \in Entry,
                      Link(k, p, e)'
               PROVE  \E c \in Server : Done(e.term, c)' /\ Settled(e.term, c)'
    BY DEF TermsOwned
  <2>1. PICK c \in Server : Done(e.term, c) /\ Settled(e.term, c)
    <3>1. CASE Link(k, p, e)
      BY <3>1 DEF LogInv, TermsOwned
    <3>2. CASE Proposed(k, p, e)
      <4>1. PICK s \in Server, d \in Data :
              /\ ProposeCommand(s, d)
              /\ e = [term |-> currentTerm[s], data |-> d]
        BY <3>2 DEF Proposed
      <4>2. state[s] = "Leader" /\ e.term = currentTerm[s]
        BY <4>1 DEF ProposeCommand
      <4> QED BY <4>2, LeaderWon
    <3> QED BY <1>4, <3>1, <3>2
  <2>2. e.term \in Nat
    BY DEF Entry
  <2> QED BY <1>1, <1>2, <2>1, <2>2, DoneKept, SettledKept
<1> QED BY <1>3, <1>a, <1>5, <1>6, <1>7 DEF LogInv

LEMMA LogInvHolds == Spec => []LogInv
<1>1. Init => LogInv
  <2> SUFFICES ASSUME Init PROVE LogInv
    OBVIOUS
  <2>1. \A k, p, e : ~ Link(k, p, e)
    BY DEF Init, Link, InLog
  <2>2. CallsSane /\ CallsOwned
    BY DEF Init, CallsSane, CallsOwned
  <2> QED BY <2>1, <2>2 DEF LogInv, LinksMatch, LeaderHolds, TermsOwned
<1>2. TypeOK /\ TypeOK' /\ ElectionInv /\ LogInv /\ [Next]_vars => LogInv'
  <2> SUFFICES ASSUME TypeOK, TypeOK', ElectionInv, LogInv, [Next]_vars
               PROVE  LogInv'
    OBVIOUS
  <2>1. CASE Next
    BY <2>1, LogInvStep
  <2>2. CASE UNCHANGED vars
    <3>1. UNCHANGED <<currentTerm, votedFor, state, log, loop, term, votes,
                      voteRPCs, appendRPCs, overrun>>
      BY <2>2 DEF vars, electionVars, logVars, runVars
    <3>2. CallsSane' /\ (LeadersSpared' => LinksMatch')
      BY <3>1 DEF LogInv, LinksMatch, Link, CallsSane, LeadersSpared
    <3>3. LeadersSpared' => LeaderHolds'
      BY <3>1 DEF LogInv, LeaderHolds, Link, LeadersSpared
    <3>4. \A t, c : (Done(t, c) => Done(t, c)') /\ (Settled(t, c) => Settled(t, c)')
      BY <3>1 DEF Done, Settled, HasVoted, Evidence, Tally, Ballot
    <3>5. TermsOwned'
      BY <3>1, <3>4 DEF LogInv, TermsOwned, Link
    <3>6. CallsOwned'
      BY <3>1, <3>4 DEF LogInv, CallsOwned
    <3> QED BY <3>2, <3>3, <3>5, <3>6 DEF LogInv
  <2> QED BY <2>1, <2>2
<1> QED BY TypeCorrect, ElectionInvHolds, <1>1, <1>2, PTL DEF Spec

\* Two logs that hold an entry of the same term at the same position hold the
\* same entries up to it, for every cluster size, any schedule and any loss,
\* delay or reordering of calls, with the persister of cmd/node or without
\* one.  The only way out is a handler that resumes at node.go:187 in a term
\* its node has left and rewrites the log of what is a leader by then; one
\* that rewrites a follower's or a candidate's log leaves logs that match.
THEOREM LogsAgree == Spec => []LogMatching
<1>1. TypeOK /\ LogInv => LogMatching
  <2> SUFFICES ASSUME TypeOK, LogInv, LeadersSpared PROVE LogMatching
    BY DEF LogMatching, LeadersSpared
  <2> QED BY MatchSuffices DEF LogInv
<1> QED BY TypeCorrect, LogInvHolds, <1>1, PTL

-----------------------------------------------------------------------------
(* A leader's requests start inside its log *)

NextInv == LeadersSpared => \A s, p \in Server :
    loop[s] = "leading" /\ state[s] = "Leader" => nextIndex[s][p] <= Len(log[s]) + 1

\* While a node leads, nextIndex is set to the end of its log or moved back.
LEMMA NextFrom ==
    ASSUME TypeOK, Next, NEW s \in Server, NEW p \in Server, loop'[s] = "leading"
    PROVE  \/ nextIndex'[s][p] = Len(log[s]) + 1
           \/ loop[s] = "leading" /\ nextIndex'[s][p] <= nextIndex[s][p]
<1>0. /\ loop \in [Server -> Loop] /\ nextIndex \in [Server -> [Server -> Nat \ {0}]]
      /\ nextIndex[s] \in [Server -> Nat \ {0}] /\ nextIndex[s][p] \in Nat \ {0}
  <2>1. nextIndex[s] \in [Server -> Nat \ {0}]
    BY DEF TypeOK
  <2> QED BY <2>1 DEF TypeOK
<1>1. CASE UNCHANGED <<loop, nextIndex>>
  BY <1>0, <1>1
<1>2. ASSUME NEW x \in Server, NodeStep(x)
      PROVE  \/ nextIndex'[s][p] = Len(log[s]) + 1
             \/ loop[s] = "leading" /\ nextIndex'[s][p] <= nextIndex[s][p]
  <2>1. CASE runLeader(x)
    <3>1. CASE x = s
      BY <1>0, <2>1, <3>1 DEF runLeader, nextAfter
    <3>2. CASE x # s
      BY <1>0, <2>1, <3>2 DEF runLeader
    <3> QED BY <3>1, <3>2
  <2>2. CASE LeaderReturns(x)
    <3>1. x # s
      BY <1>0, <2>2 DEF LeaderReturns
    <3> QED BY <1>0, <2>2, <3>1 DEF LeaderReturns
  <2>3. CASE Run(x)
    <3>1. loop' = [loop EXCEPT ![x] = "runFollower"]
          \/ loop' = [loop EXCEPT ![x] = "runCandidate"]
          \/ loop' = [loop EXCEPT ![x] = "runLeader"]
      <4>1. state[x] \in Role
        BY DEF TypeOK
      <4> QED BY <2>3, <4>1 DEF Run, Role
    <3>2. loop[s] = "leading"
      BY <1>0, <3>1
    <3>3. nextIndex' = nextIndex
      BY <2>3 DEF Run, leaderVars
    <3> QED BY <1>0, <3>2, <3>3
  <2>4. CASE runFollower(x) \/ runCandidate(x) \/ CampaignPersisted(x)
             \/ ElectionWon(x) \/ ElectionEnds(x)
    <3>1. loop[s] = "leading" /\ nextIndex' = nextIndex
      BY <1>0, <2>4 DEF runFollower, runCandidate, CampaignPersisted,
                        ElectionWon, ElectionEnds, leaderVars
    <3> QED BY <1>0, <3>1
  <2> QED BY <1>1, <1>2, <2>1, <2>2, <2>3, <2>4
          DEF NodeStep, sendAppendEntries, ProposeCommand, runDelivery, runVars,
              leaderVars
<1>3. ASSUME NEW m \in voteRPCs, VoteStep(m) PROVE UNCHANGED <<loop, nextIndex>>
  BY <1>3 DEF VoteStep, RejectVote, StepDownForVote, CastVote, VoteReply,
              VoteMetaPersisted, VoteError, runVars, leaderVars
<1>4. ASSUME NEW m \in appendRPCs, AppendStep(m)
      PROVE  \/ nextIndex'[s][p] = Len(log[s]) + 1
             \/ loop[s] = "leading" /\ nextIndex'[s][p] <= nextIndex[s][p]
  <2>0. m.from \in Server /\ m.to \in Server
    BY DEF TypeOK, AppendRPC
  <2>1. CASE ReplySuccess(m)
    <3>1. loop[s] = "leading"
      BY <2>1 DEF ReplySuccess, runVars
    <3>2. nextIndex' = [nextIndex EXCEPT ![m.from] =
                           IF m.entries # <<>>
                           THEN [nextIndex[m.from] EXCEPT ![m.to] = Len(log[m.from]) + 1]
                           ELSE nextIndex[m.from]]
      BY <2>1 DEF ReplySuccess, nextAfter
    <3>3. nextIndex'[s][p] = nextIndex[s][p] \/ nextIndex'[s][p] = Len(log[s]) + 1
      BY <1>0, <2>0, <3>2
    <3> QED BY <1>0, <3>1, <3>3
  <2>2. CASE ReplyConflict(m)
    <3>1. loop[s] = "leading"
      BY <2>2 DEF ReplyConflict, runVars
    <3>2. nextIndex' = [nextIndex EXCEPT ![m.from][m.to] = backUp(@)]
      BY <2>2 DEF ReplyConflict
    <3>3. nextIndex'[s][p] \in {nextIndex[s][p], backUp(nextIndex[s][p])}
      BY <1>0, <2>0, <3>2
    <3>4. backUp(nextIndex[s][p]) <= nextIndex[s][p]
      BY <1>0 DEF backUp
    <3> QED BY <1>0, <3>1, <3>3, <3>4
  <2> QED BY <1>1, <1>4, <2>1, <2>2
          DEF AppendStep, RejectAppend, StepDownForAppend, ReceiveEntries,
              AppendReply, ReplyDeposes, ReplyIgnored, AppendMetaPersisted,
              AppendError, runVars, leaderVars
<1> QED BY <1>1, <1>2, <1>3, <1>4 DEF Next

LEMMA NextInvStep ==
    ASSUME TypeOK, TypeOK', ElectionInv, CallsSane, CallsOwned, NextInv, Next
    PROVE  NextInv'
<1> SUFFICES ASSUME LeadersSpared', NEW s \in Server, NEW p \in Server,
                    loop'[s] = "leading", state'[s] = "Leader"
             PROVE  nextIndex'[s][p] <= Len(log'[s]) + 1
  BY DEF NextInv
<1>0. Len(log[s]) \in Nat /\ Len(log'[s]) \in Nat /\ log[s] \in Seq(Entry)
      /\ currentTerm[s] \in Nat
  <2>1. log[s] \in Seq(Entry) /\ log'[s] \in Seq(Entry) /\ currentTerm[s] \in Nat
    BY DEF TypeOK
  <2> QED BY <2>1
<1>1. nextIndex[s][p] \in Nat /\ nextIndex'[s][p] \in Nat
  <2>1. nextIndex[s] \in [Server -> Nat \ {0}] /\ nextIndex'[s] \in [Server -> Nat \ {0}]
    BY DEF TypeOK
  <2> QED BY <2>1
<1>2. Len(log'[s]) >= Len(log[s])
  <2>1. CASE log'[s] = log[s]
    BY <1>0, <2>1
  <2>2. ASSUME NEW d \in Data,
               log'[s] = Append(log[s], [term |-> currentTerm[s], data |-> d])
        PROVE  Len(log'[s]) >= Len(log[s])
    <3>1. [term |-> currentTerm[s], data |-> d] \in Entry
      BY <1>0 DEF Entry
    <3> QED BY <1>0, <2>2, <3>1
  <2> QED BY <2>1, <2>2, LeaderLogFrom
<1>3. CASE nextIndex'[s][p] = Len(log[s]) + 1
  BY <1>0, <1>2, <1>3
<1>4. CASE loop[s] = "leading" /\ nextIndex'[s][p] <= nextIndex[s][p]
  <2>1. state[s] = "Leader"
    BY <1>4, LeadersFrom
  <2>2. nextIndex[s][p] <= Len(log[s]) + 1
    BY <1>4, <2>1, OverrunStep DEF NextInv, LeadersSpared
  <2> QED BY <1>0, <1>1, <1>2, <1>4, <2>2
<1> QED BY <1>3, <1>4, NextFrom

LEMMA NextInvHolds == Spec => []NextInv
<1>1. Init => NextInv
  BY DEF Init, NextInv
<1>2. TypeOK /\ TypeOK' /\ ElectionInv /\ LogInv /\ NextInv /\ [Next]_vars => NextInv'
  <2>1. TypeOK /\ TypeOK' /\ ElectionInv /\ LogInv /\ NextInv /\ Next => NextInv'
    BY NextInvStep DEF LogInv
  <2>2. NextInv /\ UNCHANGED vars => NextInv'
    BY DEF vars, electionVars, logVars, leaderVars, runVars, NextInv, LeadersSpared
  <2> QED BY <2>1, <2>2
<1> QED BY TypeCorrect, ElectionInvHolds, LogInvHolds, <1>1, <1>2, PTL DEF Spec

\* No leader asks for a slice of its log that starts beyond the end: what
\* sendAppendEntries allocates has a length of at least 0, with or without a
\* persister, until a handler resumed at node.go:187 rewrites the log of a
\* leader.  So that rewriting is the only way to the panic at node.go:504.
THEOREM RequestsStartInLog == Spec => []NextInLog
<1>1. NextInv => NextInLog
  BY DEF NextInv, NextInLog, stillLeader, peers, LeadersSpared
<1> QED BY NextInvHolds, <1>1, PTL

-----------------------------------------------------------------------------
(* A leader's log only grows *)

LEMMA LeaderKeepsStep ==
    ASSUME TypeOK, ElectionInv, CallsSane, CallsOwned, Next
    PROVE  LeaderKeepsLog
<1> SUFFICES ASSUME LeadersSpared', NEW s \in Server, state'[s] = "Leader"
             PROVE  /\ Len(log[s]) <= Len(log'[s])
                    /\ \A k \in 1..Len(log[s]) : log'[s][k] = log[s][k]
  BY DEF LeaderKeepsLog, LeadersSpared
<1>0. log[s] \in Seq(Entry) /\ Len(log[s]) \in Nat /\ currentTerm[s] \in Nat
  <2>1. log[s] \in Seq(Entry) /\ currentTerm[s] \in Nat
    BY DEF TypeOK
  <2> QED BY <2>1
<1>1. CASE log'[s] = log[s]
  BY <1>0, <1>1
<1>2. ASSUME NEW d \in Data,
             log'[s] = Append(log[s], [term |-> currentTerm[s], data |-> d])
      PROVE  /\ Len(log[s]) <= Len(log'[s])
             /\ \A k \in 1..Len(log[s]) : log'[s][k] = log[s][k]
  <2>1. [term |-> currentTerm[s], data |-> d] \in Entry
    BY <1>0 DEF Entry
  <2> QED BY <1>0, <1>2, <2>1
<1> QED BY <1>1, <1>2, LeaderLogFrom

\* A node that stays Leader takes no entry back, for any cluster and any
\* loss, delay or reordering of calls, with the persister of cmd/node or
\* without one, unless a handler of a term the node has left resumes at
\* node.go:187: a handler still in the node's term never meets a Leader,
\* because the term has one and that one made the call.
THEOREM LeadersAppendOnly == Spec => LeaderAppendOnly
<1>1. TypeOK /\ ElectionInv /\ LogInv /\ [Next]_vars => [LeaderKeepsLog]_vars
  BY LeaderKeepsStep DEF LogInv
<1> QED BY TypeCorrect, ElectionInvHolds, LogInvHolds, <1>1, PTL
        DEF Spec, LeaderAppendOnly

-----------------------------------------------------------------------------
(* Answers hold.  A request of a leader stays a part of its log, so the     *)
(* merge of one request undoes nothing of what another one brought.         *)

Leads(m) == state[m.from] = "Leader" /\ currentTerm[m.from] = m.term

Reach(m) == m.prevIndex + Len(m.entries)

\* m is a piece of the log l.
PieceOf(m, l) ==
    /\ Reach(m) <= Len(l)
    /\ \A j \in 1..Len(m.entries) : m.entries[j] = l[m.prevIndex + j]
    /\ m.prevIndex > 0 => m.prevTerm = l[m.prevIndex].term

RequestsHeld == \A m \in appendRPCs : Leads(m) => PieceOf(m, log[m.from])

AcksLate == \A m \in appendRPCs : m.ok => currentTerm[m.to] >= m.term

\* a and b have their first n entries in common.
Agree(a, b, n) == n <= Len(a) /\ n <= Len(b) /\ \A x \in 1..n : a[x] = b[x]

AcksAgree == \A m \in appendRPCs :
    m.ok /\ Leads(m) /\ currentTerm[m.to] = m.term
    => Agree(log[m.to], log[m.from], Reach(m))

AckInv ==
    /\ AcksLate
    /\ LeadersSpared => RequestsHeld
    /\ overrun = {} => AcksAgree

LEMMA AckInvSuffices ==
    ASSUME TypeOK, overrun = {} => AcksAgree
    PROVE  AcksHold
<1> SUFFICES ASSUME AcksAgree,
                    NEW m \in appendRPCs, m.ok, Leads(m), currentTerm[m.to] = m.term
             PROVE  /\ Reach(m) <= Len(log[m.to])
                    /\ SubSeq(log[m.to], 1, Reach(m)) = SubSeq(log[m.from], 1, Reach(m))
  BY DEF AcksHold, truthful, Leads, Reach
<1> DEFINE a == log[m.to]
           b == log[m.from]
           n == Reach(m)
<1>1. a \in Seq(Entry) /\ b \in Seq(Entry) /\ n \in Nat
  <2>1. m \in AppendRPC
    BY DEF TypeOK
  <2>2. /\ m.to \in Server /\ m.from \in Server
        /\ m.prevIndex \in Nat /\ m.entries \in Seq(Entry)
    BY <2>1 DEF AppendRPC
  <2>3. a \in Seq(Entry) /\ b \in Seq(Entry)
    BY <2>2 DEF TypeOK
  <2>4. n \in Nat
    BY <2>2 DEF Reach
  <2> QED BY <2>3, <2>4
<1>2. Agree(a, b, n)
  BY DEF AcksAgree
<1> HIDE DEF a, b, n
<1>3. /\ SubSeq(a, 1, n) \in Seq(Entry) /\ SubSeq(b, 1, n) \in Seq(Entry)
      /\ Len(SubSeq(a, 1, n)) = n /\ Len(SubSeq(b, 1, n)) = n
      /\ \A x \in 1..n : SubSeq(a, 1, n)[x] = a[x] /\ SubSeq(b, 1, n)[x] = b[x]
  BY <1>1, <1>2 DEF Agree
<1>4. SubSeq(a, 1, n) = SubSeq(b, 1, n)
  BY <1>2, <1>3, SeqEqual DEF Agree
<1> QED BY <1>2, <1>4 DEF a, b, n, Agree

\* The merge of a piece of b keeps what l has in common with b.
LEMMA MergeKeeps ==
    ASSUME NEW l \in Seq(Entry), NEW b \in Seq(Entry), NEW m \in AppendRPC,
           PieceOf(m, b), m.prevIndex <= Len(l),
           NEW n \in Nat, Agree(l, b, n)
    PROVE  Agree(MergeEntries(l, m.prevIndex, m.entries), b, n)
<1> DEFINE prev == m.prevIndex
           es == m.entries
           agrees(i) == prev + i <= Len(l) /\ l[prev + i].term = es[i].term
           keep(x) == x <= prev \/ \A i \in 1..(x - prev) : agrees(i)
           z == prev + Len(es)
           r == [x \in 1..z |-> IF keep(x) THEN l[x] ELSE es[x - prev]]
<1>0. /\ prev \in Nat /\ es \in Seq(Entry) /\ Len(es) \in Nat /\ Len(l) \in Nat
      /\ Len(b) \in Nat /\ z \in Nat
  BY DEF AppendRPC
<1>a. /\ n <= Len(l) /\ n <= Len(b) /\ \A x \in 1..n : l[x] = b[x]
      /\ \A j \in 1..Len(es) : es[j] = b[prev + j]
      /\ z <= Len(b)
  BY DEF Agree, PieceOf, Reach
<1>1. CASE \A i \in 1..Len(es) : agrees(i)
  <2>1. MergeEntries(l, m.prevIndex, m.entries) = l
    BY <1>1 DEF MergeEntries
  <2> QED BY <2>1
<1>2. CASE ~ \A i \in 1..Len(es) : agrees(i)
  <2>1. MergeEntries(l, m.prevIndex, m.entries) = r
    BY <1>2 DEF MergeEntries
  <2>2. Len(r) = z
    <3> HIDE DEF keep, z
    <3> QED BY <1>0
  <2>3. \A x \in 1..z : r[x] = IF keep(x) THEN l[x] ELSE es[x - prev]
    <3> HIDE DEF keep, z
    <3> QED OBVIOUS
  <2>4. PICK i \in 1..Len(es) : ~agrees(i)
    BY <1>2
  <2>5. \A j \in 1..Len(es) : prev + j <= n => agrees(j)
    <3> SUFFICES ASSUME NEW j \in 1..Len(es), prev + j <= n PROVE agrees(j)
      OBVIOUS
    <3> HIDE DEF prev, es
    <3>1. prev + j \in 1..n
      BY <1>0
    <3>2. l[prev + j] = b[prev + j] /\ es[j] = b[prev + j]
      <4> DEFINE x == prev + j
      <4>1. x \in 1..n
        BY <3>1
      <4> HIDE DEF x
      <4>2. l[x] = b[x]
        BY <1>a, <4>1
      <4> QED BY <1>a, <4>2 DEF x
    <3>3. prev + j <= Len(l)
      BY <1>0, <1>a, <3>1
    <3> QED BY <3>2, <3>3
  <2>6. n < prev + i /\ n < z
    <3>1. ~ (prev + i <= n)
      <4> HIDE DEF agrees
      <4> QED BY <2>4, <2>5
    <3> HIDE DEF prev, es, agrees
    <3> QED BY <1>0, <3>1
  <2>7. \A x \in 1..n : keep(x)
    <3> SUFFICES ASSUME NEW x \in 1..n PROVE keep(x)
      OBVIOUS
    <3>1. CASE x <= prev
      BY <3>1
    <3>2. CASE ~ (x <= prev)
      <4>1. \A j \in 1..(x - prev) : j \in 1..Len(es) /\ prev + j <= n
        <5> HIDE DEF prev, es, agrees, keep, r
        <5> QED BY <1>0, <2>6, <3>2
      <4> HIDE DEF agrees
      <4> QED BY <2>5, <4>1
    <3> QED BY <3>1, <3>2
  <2>8. \A x \in 1..n : x \in 1..z
    <3> HIDE DEF z
    <3> QED BY <1>0, <2>6
  <2> HIDE DEF r, keep, z, agrees
  <2> QED BY <1>0, <1>a, <2>1, <2>2, <2>3, <2>6, <2>7, <2>8 DEF Agree
<1> QED BY <1>1, <1>2

\* The merge of a piece of b into a log that matches b there, and wherever
\* terms agree, has all of b up to the end of the piece.
LEMMA MergeReaches ==
    ASSUME NEW l \in Seq(Entry), NEW b \in Seq(Entry), NEW m \in AppendRPC,
           PieceOf(m, b), Agree(l, b, m.prevIndex),
           \A x \in 1..Len(l) : x <= Len(b) /\ l[x].term = b[x].term => l[x] = b[x]
    PROVE  Agree(MergeEntries(l, m.prevIndex, m.entries), b, Reach(m))
<1> DEFINE prev == m.prevIndex
           es == m.entries
           agrees(i) == prev + i <= Len(l) /\ l[prev + i].term = es[i].term
           keep(x) == x <= prev \/ \A i \in 1..(x - prev) : agrees(i)
           z == prev + Len(es)
           r == [x \in 1..z |-> IF keep(x) THEN l[x] ELSE es[x - prev]]
<1>0. /\ prev \in Nat /\ es \in Seq(Entry) /\ Len(es) \in Nat /\ Len(l) \in Nat
      /\ Len(b) \in Nat /\ z \in Nat
  BY DEF AppendRPC
<1>a. /\ prev <= Len(l) /\ \A x \in 1..prev : l[x] = b[x]
      /\ \A j \in 1..Len(es) : es[j] = b[prev + j]
      /\ z <= Len(b) /\ z = Reach(m)
  BY DEF Agree, PieceOf, Reach
<1>b. \A j \in 1..Len(es) : agrees(j) => prev + j <= Len(l) /\ l[prev + j] = b[prev + j]
  <2> SUFFICES ASSUME NEW j \in 1..Len(es), agrees(j)
               PROVE  prev + j <= Len(l) /\ l[prev + j] = b[prev + j]
    OBVIOUS
  <2>1. l[prev + j].term = b[prev + j].term /\ prev + j <= Len(l)
    BY <1>a
  <2>2. prev + j \in 1..Len(l) /\ prev + j <= Len(b)
    <3> HIDE DEF prev, es, agrees
    <3> QED BY <1>0, <1>a, <2>1 DEF z
  <2> QED BY <2>1, <2>2
<1>1. CASE \A i \in 1..Len(es) : agrees(i)
  <2>1. MergeEntries(l, m.prevIndex, m.entries) = l
    BY <1>1 DEF MergeEntries
  <2>2. z <= Len(l)
    <3>1. CASE Len(es) = 0
      BY <1>0, <1>a, <3>1
    <3>2. CASE Len(es) # 0
      <4>1. Len(es) \in 1..Len(es)
        BY <1>0, <3>2
      <4> HIDE DEF agrees
      <4> QED BY <1>1, <1>b, <4>1
    <3> QED BY <3>1, <3>2
  <2>3. ASSUME NEW x \in 1..z PROVE l[x] = b[x]
    <3>1. CASE x <= prev
      BY <1>0, <1>a, <3>1
    <3>2. CASE ~ (x <= prev)
      <4>1. x - prev \in 1..Len(es) /\ prev + (x - prev) = x
        <5>1. x \in Nat /\ x <= prev + Len(es)
          BY <1>0
        <5> HIDE DEF prev, es, agrees, keep, r, z
        <5> QED BY <1>0, <3>2, <5>1
      <4> HIDE DEF agrees
      <4> QED BY <1>1, <1>b, <4>1
    <3> QED BY <3>1, <3>2
  <2> HIDE DEF z, agrees, r
  <2> QED BY <1>a, <2>1, <2>2, <2>3 DEF Agree
<1>2. CASE ~ \A i \in 1..Len(es) : agrees(i)
  <2>1. MergeEntries(l, m.prevIndex, m.entries) = r
    BY <1>2 DEF MergeEntries
  <2>2. Len(r) = z
    <3> HIDE DEF keep, z
    <3> QED BY <1>0
  <2>3. \A x \in 1..z : r[x] = IF keep(x) THEN l[x] ELSE es[x - prev]
    <3> HIDE DEF keep, z
    <3> QED OBVIOUS
  <2>4. ASSUME NEW x \in 1..z PROVE r[x] = b[x]
    <3>1. CASE x <= prev
      <4>1. keep(x)
        BY <3>1
      <4> HIDE DEF keep, z, r
      <4> QED BY <1>0, <1>a, <2>3, <3>1, <4>1
    <3>2. CASE ~ (x <= prev)
      <4>1. x - prev \in 1..Len(es) /\ prev + (x - prev) = x
            /\ x - prev \in 1..(x - prev)
        <5>1. x \in Nat /\ x <= prev + Len(es)
          BY <1>0
        <5> HIDE DEF prev, es, agrees, keep, r, z
        <5> QED BY <1>0, <3>2, <5>1
      <4>2. keep(x) => agrees(x - prev)
        <5> HIDE DEF agrees, r, z
        <5> QED BY <3>2, <4>1
      <4> HIDE DEF agrees, keep, r, z
      <4> QED BY <1>a, <1>b, <2>3, <4>1, <4>2
    <3> QED BY <3>1, <3>2
  <2> HIDE DEF r, z
  <2> QED BY <1>a, <2>1, <2>2, <2>4 DEF Agree
<1> QED BY <1>1, <1>2

\* A positive answer is given by the step that merges the request.
LEMMA AcksFrom ==
    ASSUME TypeOK, Next, NEW m \in appendRPCs', m.ok
    PROVE  \E q \in appendRPCs :
             /\ SameCall(q, m)
             /\ q.ok \/ /\ ReceiveEntries(q)
                        /\ q.prevIndex > 0 => /\ q.prevIndex <= Len(log[q.to])
                                              /\ log[q.to][q.prevIndex].term = q.prevTerm
<1>0. \A n \in appendRPCs : n \in AppendRPC
  BY DEF TypeOK
<1>1. CASE m \in appendRPCs
  BY <1>1 DEF SameCall
<1>2. CASE m \notin appendRPCs
  <2>1. ASSUME NEW s \in Server, NodeStep(s) PROVE FALSE
    <3>1. PICK p \in peers(s) : sendAppendEntries(s, p)
      BY <1>2, <2>1
         DEF NodeStep, Run, runFollower, runCandidate, CampaignPersisted,
             ElectionWon, ElectionEnds, runLeader, LeaderReturns,
             ProposeCommand, runDelivery
    <3> QED BY <1>2, <3>1 DEF sendAppendEntries
  <2>2. ASSUME NEW n \in voteRPCs, VoteStep(n) PROVE FALSE
    BY <1>2, <2>2 DEF VoteStep, RejectVote, StepDownForVote, CastVote,
                      VoteReply, VoteMetaPersisted, VoteError
  <2>3. ASSUME NEW q \in appendRPCs, AppendStep(q)
        PROVE  /\ SameCall(q, m)
               /\ q.ok \/ /\ ReceiveEntries(q)
                          /\ q.prevIndex > 0 =>
                               /\ q.prevIndex <= Len(log[q.to])
                               /\ log[q.to][q.prevIndex].term = q.prevTerm
    <3>0. q \in AppendRPC
      BY <1>0
    <3>1. CASE RejectAppend(q)
      <4>1. m = [q EXCEPT !.stage = "replied", !.ok = FALSE,
                          !.rterm = currentTerm[q.to]]
        BY <1>2, <3>1 DEF RejectAppend, ReplaceAppend
      <4> QED BY <3>0, <4>1 DEF AppendRPC
    <3>2. CASE ReceiveEntries(q)
      <4> DEFINE ok == q.prevIndex > 0 =>
                           /\ q.prevIndex <= Len(log[q.to])
                           /\ log[q.to][q.prevIndex].term = q.prevTerm
      <4>1. \E t : m = [q EXCEPT !.stage = "replied", !.rterm = t, !.ok = ok]
        BY <1>2, <3>2 DEF ReceiveEntries, ReplaceAppend
      <4> HIDE DEF ok
      <4>2. SameCall(q, m) /\ m.ok = ok
        BY <3>0, <4>1 DEF AppendRPC, SameCall
      <4> QED BY <3>2, <4>2 DEF ok
    <3>3. CASE \E st \in Stage : m = [q EXCEPT !.stage = st]
      BY <3>0, <3>3 DEF AppendRPC, SameCall
    <3> QED BY <1>2, <2>3, <3>1, <3>2, <3>3
            DEF AppendStep, StepDownForAppend, AppendMetaPersisted, AppendError,
                AppendReply, ReplyDeposes, ReplyIgnored, ReplySuccess,
                ReplyConflict, ReplaceAppend, Stage
  <2> QED BY <2>1, <2>2, <2>3 DEF Next
<1> QED BY <1>1, <1>2

\* A node that won a term before leads it after a step only if it still did.
LEMMA LedBefore ==
    ASSUME TypeOK, ElectionInv, Next, NEW t \in Nat, NEW s \in Server,
           Done(t, s), Settled(t, s), state'[s] = "Leader", currentTerm'[s] = t
    PROVE  state[s] = "Leader" /\ currentTerm[s] = t
<1>1. currentTerm[s] = t
  BY LeadersFrom
<1>2. CASE state[s] # "Leader"
  <2>1. /\ loop[s] = "collecting" /\ currentTerm[s] = term[s]
        /\ Cardinality(votes[s]) >= majority
    BY <1>2, LeadersFrom
  <2> QED BY <1>1, <2>1, WinnerIsFirst
<1> QED BY <1>1, <1>2

\* A piece of a log is one of the log that has it as a prefix.
LEMMA PieceKept ==
    ASSUME NEW a \in Seq(Entry), NEW b \in Seq(Entry), NEW m \in AppendRPC,
           PieceOf(m, a), Len(a) <= Len(b), \A k \in 1..Len(a) : b[k] = a[k]
    PROVE  PieceOf(m, b)
<1> DEFINE prev == m.prevIndex
           es == m.entries
<1>0. /\ prev \in Nat /\ Len(es) \in Nat /\ Len(a) \in Nat /\ Len(b) \in Nat
  BY DEF AppendRPC
<1>1. /\ prev + Len(es) <= Len(a)
      /\ \A j \in 1..Len(es) : es[j] = a[prev + j]
      /\ prev > 0 => m.prevTerm = a[prev].term
  BY DEF PieceOf, Reach
<1> HIDE DEF prev, es
<1>2. \A j \in 1..Len(es) : prev + j \in 1..Len(a)
  BY <1>0, <1>1
<1>3. prev > 0 => prev \in 1..Len(a)
  BY <1>0, <1>1
<1>4. prev + Len(es) <= Len(b)
  BY <1>0, <1>1
<1>5. \A j \in 1..Len(es) : es[j] = b[prev + j]
  BY <1>1, <1>2
<1>6. prev > 0 => m.prevTerm = b[prev].term
  BY <1>1, <1>3
<1> QED BY <1>4, <1>5, <1>6 DEF PieceOf, Reach, prev, es

\* A request cut from a log is a piece of it.
LEMMA CutIsPiece ==
    ASSUME TypeOK, TypeOK', NextInv, LeadersSpared, NEW s \in Server,
           NEW prev \in Nat, NEW m \in appendRPCs', Cut(m, s, prev)
    PROVE  PieceOf(m, log[s])
<1> DEFINE l == log[s]
<1>0. l \in Seq(Entry) /\ Len(l) \in Nat /\ m.to \in Server
  <2>1. l \in Seq(Entry) /\ m.to \in Server
    BY DEF TypeOK, Cut, peers
  <2> QED BY <2>1
<1>1. /\ m.prevIndex = prev /\ m.entries = SubSeq(l, prev + 1, Len(l))
      /\ m.prevTerm = IF prev \in 1..Len(l) THEN l[prev].term ELSE 0
  BY DEF Cut
<1>2. prev <= Len(l)
  <2>1. nextIndex[s][m.to] <= Len(l) + 1
    BY <1>0 DEF NextInv, Cut
  <2>2. nextIndex[s] \in [Server -> Nat \ {0}]
    BY DEF TypeOK
  <2>3. nextIndex[s][m.to] \in Nat /\ prev = nextIndex[s][m.to] - 1
    BY <1>0, <2>2 DEF Cut
  <2> HIDE DEF l
  <2> QED BY <1>0, <2>1, <2>3
<1> HIDE DEF l
<1>3. /\ Len(m.entries) = Len(l) - prev
      /\ \A j \in 1..Len(m.entries) : m.entries[j] = l[prev + j]
  <2>1. CASE prev = Len(l)
    BY <1>0, <1>1, <2>1
  <2>2. CASE prev < Len(l)
    BY <1>0, <1>1, <2>2
  <2> QED BY <1>0, <1>2, <2>1, <2>2
<1>4. prev > 0 => prev \in 1..Len(l)
  BY <1>0, <1>2
<1>5. prev + Len(m.entries) = Len(l)
  BY <1>0, <1>3
<1>6. PieceOf(m, l)
  BY <1>0, <1>1, <1>3, <1>4, <1>5 DEF PieceOf, Reach
<1> QED BY <1>6 DEF l

LEMMA RequestsHeldStep ==
    ASSUME TypeOK, TypeOK', ElectionInv, LogInv, NextInv, LeadersSpared',
           LeadersSpared => RequestsHeld, Next
    PROVE  RequestsHeld'
<1> SUFFICES ASSUME NEW m \in appendRPCs', Leads(m)'
             PROVE  PieceOf(m, log'[m.from])
  BY DEF RequestsHeld, PieceOf, Reach
<1>a. /\ CallsSane /\ CallsOwned /\ LeadersSpared /\ RequestsHeld
  BY OverrunStep DEF LogInv, LeadersSpared
<1> DEFINE s == m.from
<1>0. /\ m \in AppendRPC /\ s \in Server /\ m.term \in Nat
      /\ log[s] \in Seq(Entry) /\ log'[s] \in Seq(Entry)
  <2>1. m \in AppendRPC
    BY DEF TypeOK
  <2>2. s \in Server /\ m.term \in Nat
    BY <2>1 DEF AppendRPC
  <2> QED BY <2>1, <2>2 DEF TypeOK
<1>1. state'[s] = "Leader" /\ currentTerm'[s] = m.term
  BY DEF Leads
<1>2. state[s] = "Leader" /\ PieceOf(m, log[s])
  <2>1. ASSUME NEW n \in appendRPCs, SameCall(n, m)
        PROVE  state[s] = "Leader" /\ PieceOf(m, log[s])
    <3>1. Done(m.term, s) /\ Settled(m.term, s)
      BY <1>a, <2>1 DEF CallsOwned, SameCall
    <3>2. state[s] = "Leader" /\ currentTerm[s] = m.term
      BY <1>0, <1>1, <3>1, LedBefore
    <3>3. PieceOf(n, log[s])
      BY <1>a, <2>1, <3>2 DEF RequestsHeld, Leads, SameCall
    <3> QED BY <2>1, <3>2, <3>3 DEF SameCall, PieceOf, Reach
  <2>2. ASSUME NEW x \in Server, NEW prev \in Nat, Cut(m, x, prev)
        PROVE  state[s] = "Leader" /\ PieceOf(m, log[s])
    <3>1. x = s /\ state[s] = "Leader"
      BY <2>2 DEF Cut
    <3> QED BY <1>a, <2>2, <3>1, CutIsPiece
  <2> QED BY <2>1, <2>2, CallsFrom
<1>3. /\ Len(log[s]) <= Len(log'[s])
      /\ \A k \in 1..Len(log[s]) : log'[s][k] = log[s][k]
  BY <1>0, <1>1, <1>2, <1>a, LeaderKeepsStep DEF LeaderKeepsLog, LeadersSpared
<1> HIDE DEF s
<1>4. PieceOf(m, log'[s])
  BY <1>0, <1>2, <1>3, PieceKept
<1> QED BY <1>4 DEF s

LEMMA AcksLateStep ==
    ASSUME TypeOK, TypeOK', CallsSane, AcksLate, Next
    PROVE  AcksLate'
<1> SUFFICES ASSUME NEW m \in appendRPCs', m.ok
             PROVE  currentTerm'[m.to] >= m.term
  BY DEF AcksLate
<1>0. /\ m.to \in Server /\ m.term \in Nat
      /\ currentTerm \in [Server -> Nat] /\ currentTerm' \in [Server -> Nat]
  BY DEF TypeOK, AppendRPC
<1>1. currentTerm'[m.to] >= currentTerm[m.to]
  BY <1>0, VoteKeptStep DEF VoteKept
<1>2. PICK q \in appendRPCs : SameCall(q, m) /\ (q.ok \/ ReceiveEntries(q))
  BY AcksFrom
<1>3. q.to = m.to /\ q.term = m.term
  BY <1>2 DEF SameCall
<1>4. CASE q.ok
  <2>1. currentTerm[m.to] >= m.term
    BY <1>3, <1>4 DEF AcksLate
  <2>2. currentTerm[m.to] \in Nat /\ currentTerm'[m.to] \in Nat
    BY <1>0
  <2> QED BY <1>0, <1>1, <2>1, <2>2
<1>5. CASE ReceiveEntries(q)
  <2>1. /\ q.stage \in {"sent", "stepped"}
        /\ currentTerm' = [currentTerm EXCEPT ![q.to] =
              IF q.stage = "sent" /\ q.term > currentTerm[q.to]
              THEN q.term ELSE currentTerm[q.to]]
    BY <1>5 DEF ReceiveEntries
  <2>2. q.stage = "stepped" => q.term <= currentTerm[q.to]
    BY DEF CallsSane
  <2> QED BY <1>0, <1>3, <2>1, <2>2
<1> QED BY <1>2, <1>4, <1>5

LEMMA AcksAgreeStep ==
    ASSUME TypeOK, TypeOK', ElectionInv, LogInv, AckInv, Next, overrun' = {}
    PROVE  AcksAgree'
<1> SUFFICES ASSUME NEW m \in appendRPCs', m.ok, Leads(m)',
                    currentTerm'[m.to] = m.term
             PROVE  Agree(log'[m.to], log'[m.from], Reach(m))
  BY DEF AcksAgree, Agree, Reach
<1>a. /\ overrun = {} /\ LeadersSpared /\ LeadersSpared'
      /\ CallsSane /\ CallsOwned /\ LinksMatch /\ RequestsHeld /\ AcksAgree /\ AcksLate
  <2>1. overrun = {} /\ LeadersSpared /\ LeadersSpared'
    BY OverrunStep DEF LeadersSpared
  <2> QED BY <2>1 DEF LogInv, AckInv
<1> DEFINE s == m.from
           f == m.to
           n == Reach(m)
           a == log[f]
           b == log[s]
<1>0. /\ s \in Server /\ f \in Server /\ m.term \in Nat /\ n \in Nat
      /\ a \in Seq(Entry) /\ b \in Seq(Entry) /\ log'[s] \in Seq(Entry)
      /\ Len(b) \in Nat /\ currentTerm[f] \in Nat
  <2>1. m \in AppendRPC
    BY DEF TypeOK
  <2>2. /\ s \in Server /\ f \in Server /\ m.term \in Nat
        /\ m.prevIndex \in Nat /\ m.entries \in Seq(Entry)
    BY <2>1 DEF AppendRPC
  <2>3. n \in Nat
    BY <2>2 DEF Reach
  <2>4. a \in Seq(Entry) /\ b \in Seq(Entry) /\ log'[s] \in Seq(Entry)
        /\ currentTerm[f] \in Nat
    BY <2>2 DEF TypeOK
  <2> QED BY <2>2, <2>3, <2>4
<1>1. state'[s] = "Leader" /\ currentTerm'[s] = m.term /\ currentTerm'[f] = m.term
  BY DEF Leads
<1>2. PICK q \in appendRPCs : /\ SameCall(q, m)
                              /\ q.ok \/ /\ ReceiveEntries(q)
                                         /\ q.prevIndex > 0 =>
                                              /\ q.prevIndex <= Len(a)
                                              /\ a[q.prevIndex].term = q.prevTerm
  BY AcksFrom DEF SameCall
<1>3. s # f /\ state[s] = "Leader" /\ currentTerm[s] = m.term
  <2>1. s # f /\ Done(m.term, s) /\ Settled(m.term, s)
    BY <1>2, <1>a DEF CallsOwned, SameCall
  <2> QED BY <1>0, <1>1, <2>1, LedBefore
<1>4. /\ Len(b) <= Len(log'[s])
      /\ \A k \in 1..Len(b) : log'[s][k] = b[k]
  BY <1>0, <1>1, <1>3, <1>a, LeaderKeepsStep DEF LeaderKeepsLog, LeadersSpared
<1>5. SUFFICES Agree(log'[f], b, n)
  <2> HIDE DEF s, f, n, b
  <2>1. Agree(log'[f], b, n) => Agree(log'[f], log'[s], n)
    <3>1. Len(log'[s]) \in Nat
      BY <1>0
    <3> QED BY <1>0, <1>4, <3>1 DEF Agree
  <2> QED BY <2>1 DEF s, f, n, b
<1>6. ASSUME NEW y \in appendRPCs, y.term = m.term
      PROVE  PieceOf(y, b) /\ y \in AppendRPC
  <2>1. y.from = s
    BY <1>0, <1>3, <1>6, <1>a, CallerLeads
  <2> QED BY <1>3, <1>6, <1>a, <2>1 DEF RequestsHeld, Leads, TypeOK
<1>7. CASE q.ok
  <2>0. q.to = f /\ q.from = s /\ q.term = m.term /\ Reach(q) = n
    BY <1>2 DEF SameCall, Reach
  <2>1. currentTerm[f] = m.term
    <3>1. currentTerm[f] >= m.term
      BY <1>7, <1>a, <2>0 DEF AcksLate
    <3>2. currentTerm'[f] >= currentTerm[f]
      BY <1>0, VoteKeptStep DEF VoteKept
    <3> QED BY <1>0, <1>1, <3>1, <3>2
  <2>2. Agree(a, b, n)
    BY <1>3, <1>7, <1>a, <2>0, <2>1 DEF AcksAgree, Leads
  <2>3. CASE log'[f] = a
    BY <2>2, <2>3
  <2>4. ASSUME NEW d \in Data, ProposeCommand(f, d)
        PROVE  FALSE
    <3>1. state[f] = "Leader"
      BY <2>4 DEF ProposeCommand
    <3> QED BY <1>0, <1>3, <2>1, <3>1, ElectionInvSuffices DEF ElectionSafety
  <2>5. ASSUME NEW y \in appendRPCs, y.to = f, ReceiveEntries(y), log'[f] # a,
               y.prevIndex > 0 => y.prevIndex <= Len(a),
               log'[f] = MergeEntries(a, y.prevIndex, y.entries)
        PROVE  Agree(log'[f], b, n)
    <3>0. y \in AppendRPC /\ y.term \in Nat /\ y.prevIndex \in Nat
          /\ currentTerm \in [Server -> Nat]
      BY DEF TypeOK, AppendRPC
    <3>1. /\ y.stage \in {"sent", "stepped"}
          /\ y.stage = "sent" => y.term >= currentTerm[f]
          /\ currentTerm' = [currentTerm EXCEPT ![f] =
                IF y.stage = "sent" /\ y.term > currentTerm[f]
                THEN y.term ELSE currentTerm[f]]
      BY <2>5 DEF ReceiveEntries
    <3>a. y.stage = "stepped" => y.term <= currentTerm[f]
      BY <1>a, <2>5 DEF CallsSane
    <3>b. ~ (y.term < currentTerm[f])
      BY <2>5, OverrunStep
    <3>2. y.term = m.term
      BY <1>0, <1>1, <2>1, <3>0, <3>1, <3>a, <3>b
    <3>3. PieceOf(y, b)
      BY <1>6, <3>2
    <3>4. y.prevIndex <= Len(a)
      BY <1>0, <2>5, <3>0
    <3> HIDE DEF a, b, n, f, s
    <3> QED BY <1>0, <2>2, <2>5, <3>0, <3>3, <3>4, MergeKeeps
  <2> QED BY <1>0, <2>3, <2>4, <2>5, LogsFrom
<1>8. CASE ~q.ok
  <2>0. q \in AppendRPC /\ PieceOf(q, b) /\ q.to = f /\ Reach(q) = n
        /\ q.prevIndex \in Nat
    BY <1>2, <1>6 DEF SameCall, Reach, AppendRPC
  <2>1. log'[f] = MergeEntries(a, q.prevIndex, q.entries)
    <3>1. log' = [log EXCEPT ![f] = MergeEntries(a, q.prevIndex, q.entries)]
      BY <1>2, <1>8, <2>0 DEF ReceiveEntries
    <3> QED BY <1>0, <3>1 DEF TypeOK
  <2>2. LogMatching
    BY <1>a, MatchSuffices
  <2>3. \A x \in 1..Len(a) : x <= Len(b) /\ a[x].term = b[x].term
                             => SubSeq(a, 1, x) = SubSeq(b, 1, x)
    BY <1>0, <1>a, <2>2 DEF LogMatching, LeadersSpared
  <2>4. \A x \in 1..Len(a) : x <= Len(b) /\ a[x].term = b[x].term
                             => \A z \in 1..x : a[z] = b[z]
    <3> SUFFICES ASSUME NEW x \in 1..Len(a), x <= Len(b), a[x].term = b[x].term,
                        NEW z \in 1..x
                 PROVE  a[z] = b[z]
      OBVIOUS
    <3>1. SubSeq(a, 1, x) = SubSeq(b, 1, x)
      BY <2>3
    <3> HIDE DEF a, b
    <3>2. SubSeq(a, 1, x)[z] = a[z] /\ SubSeq(b, 1, x)[z] = b[z]
      BY <1>0
    <3> QED BY <3>1, <3>2
  <2>5. Agree(a, b, q.prevIndex)
    <3>1. q.prevIndex <= Len(b)
      <4>1. Len(q.entries) \in Nat /\ q.prevIndex + Len(q.entries) <= Len(b)
        BY <2>0 DEF PieceOf, Reach, AppendRPC
      <4> QED BY <1>0, <2>0, <4>1
    <3>2. CASE q.prevIndex = 0
      BY <1>0, <3>1, <3>2 DEF Agree
    <3>3. CASE q.prevIndex > 0
      <4>1. /\ q.prevIndex \in 1..Len(a)
            /\ a[q.prevIndex].term = b[q.prevIndex].term
        BY <1>0, <1>2, <1>8, <2>0, <3>3 DEF PieceOf
      <4> QED BY <2>4, <3>1, <4>1 DEF Agree
    <3> QED BY <2>0, <3>2, <3>3
  <2>6. \A x \in 1..Len(a) : x <= Len(b) /\ a[x].term = b[x].term => a[x] = b[x]
    BY <1>0, <2>4
  <2> HIDE DEF a, b, n, f, s
  <2> QED BY <1>0, <2>0, <2>1, <2>5, <2>6, MergeReaches
<1> QED BY <1>7, <1>8

LEMMA AckInvHolds == Spec => []AckInv
<1>1. Init => AckInv
  BY DEF Init, AckInv, RequestsHeld, AcksLate, AcksAgree
<1>2. TypeOK /\ TypeOK' /\ ElectionInv /\ LogInv /\ NextInv /\ AckInv /\ [Next]_vars
      => AckInv'
  <2> SUFFICES ASSUME TypeOK, TypeOK', ElectionInv, LogInv, NextInv, AckInv, [Next]_vars
               PROVE  AckInv'
    OBVIOUS
  <2>1. CASE Next
    <3>1. LeadersSpared' => RequestsHeld'
      BY <2>1, RequestsHeldStep DEF AckInv
    <3>2. AcksLate'
      BY <2>1, AcksLateStep DEF AckInv, LogInv
    <3>3. overrun' = {} => AcksAgree'
      BY <2>1, AcksAgreeStep
    <3> QED BY <3>1, <3>2, <3>3 DEF AckInv
  <2>2. CASE UNCHANGED vars
    <3>1. UNCHANGED <<currentTerm, state, log, appendRPCs, overrun>>
      BY <2>2 DEF vars, electionVars, logVars
    <3> QED BY <3>1 DEF AckInv, RequestsHeld, AcksLate, AcksAgree, Leads,
                        LeadersSpared
  <2> QED BY <2>1, <2>2
<1> QED BY TypeCorrect, ElectionInvHolds, LogInvHolds, NextInvHolds, <1>1, <1>2, PTL DEF Spec

\* A positive reply of HandleAppendEntries is still true when the leader reads
\* it: whatever older, shorter or repeated requests the follower has handled
\* since, in whatever order, it holds the leader's log as far as the request
\* reached.  Any cluster, any bounds, as many calls under way as there may be,
\* with the persister of cmd/node or without one, until a handler resumed at
\* node.go:187 rewrites a log in a term that is not its request's.
THEOREM AnswersHold == Spec => []AcksHold
<1>1. TypeOK /\ AckInv => AcksHold
  BY AckInvSuffices DEF AckInv
<1> QED BY TypeCorrect, AckInvHolds, <1>1, PTL
=============================================================================
