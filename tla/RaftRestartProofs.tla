-------------------------- MODULE RaftRestartProofs --------------------------
(***************************************************************************)
(* Type correctness of RaftRestart, for any cluster, any bounds and any    *)
(* number of crashes: what a node finds in raft.wal when it comes back is  *)
(* the state of a node.                                                    *)
(***************************************************************************)
EXTENDS RaftRestart, RaftProofs

-----------------------------------------------------------------------------
(* Facts about the operators *)

LEMMA RequestType ==
    ASSUME NEW m \in VoteRPC \cup AppendRPC
    PROVE  /\ request(m) \in VoteRPC \cup AppendRPC
           /\ m.from \in Server /\ m.to \in Server
<1>1. CASE m \in VoteRPC
  BY <1>1 DEF request, VoteRPC, Stage
<1>2. CASE m \in AppendRPC
  BY <1>2 DEF request, AppendRPC, Stage
<1> QED BY <1>1, <1>2

LEMMA CutsType ==
    ASSUME NEW cuts, cuts \subseteq (VoteRPC \cup AppendRPC) \X Server
    PROVE  inProgress(cuts) \subseteq (VoteRPC \cup AppendRPC) \X Server
BY DEF inProgress

\* The log that Load returns is as long as the record of applied entries.
LEMMA RestoredType ==
    ASSUME RestartTypeOK, NEW s \in Server
    PROVE  /\ restoredLog(s) \in Seq(Entry)
           /\ Len(restoredLog(s)) = persisted[s]
<1>1. /\ applied[s] \in Seq(Entry) /\ persisted[s] \in Nat
      /\ persisted[s] <= Len(applied[s])
  BY DEF RestartTypeOK, TypeOK
<1> QED BY <1>1 DEF restoredLog

\* A pair written to raft.wal is a term and a vote.
LEMMA MetaType ==
    ASSUME meta \in [Server -> Meta], NEW s \in Server, NEW t \in Nat,
           NEW v \in Server \cup {Nil}, SaveMeta(s, t, v)
    PROVE  meta' \in [Server -> Meta]
<1>1. [term |-> t, vote |-> v] \in Meta
  BY DEF Meta
<1> QED BY <1>1 DEF SaveMeta

-----------------------------------------------------------------------------
(* The steps *)

\* A step of RaftRestart's running nodes is a step of Raft.
LEMMA RaftStepIsNext == RaftStep => Next
<1>1. ASSUME MetaStep PROVE Next
  BY <1>1 DEF MetaStep, Next, NodeStep, VoteStep, AppendStep
<1>2. ASSUME NEW s \in Server, NodeGoesOn(s) PROVE NodeStep(s)
  BY <1>2 DEF NodeGoesOn, NodeStep
<1>3. ASSUME CallGoesOn PROVE Next
  BY <1>3 DEF CallGoesOn, Next, VoteStep, AppendStep
<1> QED BY <1>1, <1>2, <1>3 DEF RaftStep, Next

\* Delivery only adds to what was delivered.
LEMMA DeliveryGrows ==
    ASSUME TypeOK, Next, NEW s \in Server
    PROVE  Len(applied'[s]) >= Len(applied[s])
<1>0. applied \in [Server -> Seq(Entry)] /\ Len(applied[s]) \in Nat
  BY DEF TypeOK
<1>1. CASE UNCHANGED applied
  BY <1>0, <1>1
<1>2. ASSUME NEW x \in Server, runDelivery(x)
      PROVE  Len(applied'[s]) >= Len(applied[s])
  <2>1. /\ Len(applied[x]) + 1 <= Len(log[x])
        /\ applied' = [applied EXCEPT ![x] =
                          Append(@, log[x][Len(applied[x]) + 1])]
    BY <1>2 DEF runDelivery
  <2>2. log[x][Len(applied[x]) + 1] \in Entry
    <3>1. log[x] \in Seq(Entry) /\ Len(applied[x]) \in Nat
      BY DEF TypeOK
    <3>2. Len(applied[x]) + 1 \in 1..Len(log[x])
      BY <2>1, <3>1
    <3> QED BY <3>1, <3>2
  <2>3. CASE x = s
    <3>1. applied'[s] = Append(applied[s], log[x][Len(applied[x]) + 1])
      BY <1>0, <2>1, <2>3
    <3>2. applied[s] \in Seq(Entry)
      BY <1>0
    <3> QED BY <1>0, <2>2, <3>1, <3>2
  <2>4. CASE x # s
    BY <1>0, <2>1, <2>4
  <2> QED BY <2>3, <2>4
<1>3. (\E x \in Server : runDelivery(x)) \/ UNCHANGED applied
  <2>1. ASSUME NEW x \in Server, NodeStep(x)
        PROVE  runDelivery(x) \/ UNCHANGED applied
    BY <2>1 DEF NodeStep, Run, runFollower, runCandidate, CampaignPersisted,
                ElectionWon, ElectionEnds, runLeader, LeaderReturns,
                sendAppendEntries, ProposeCommand
  <2>2. ASSUME NEW m \in voteRPCs, VoteStep(m) PROVE UNCHANGED applied
    BY <2>2 DEF VoteStep, RejectVote, StepDownForVote, CastVote, VoteReply,
                VoteMetaPersisted, VoteError
  <2>3. ASSUME NEW m \in appendRPCs, AppendStep(m) PROVE UNCHANGED applied
    BY <2>3 DEF AppendStep, RejectAppend, StepDownForAppend, ReceiveEntries,
                AppendReply, ReplyDeposes, ReplyIgnored, ReplySuccess,
                ReplyConflict, AppendMetaPersisted, AppendError
  <2> QED BY <2>1, <2>2, <2>3 DEF Next
<1> QED BY <1>1, <1>2, <1>3

\* What the goroutines of Raft write to raft.wal is well typed.
LEMMA MetaStepType ==
    ASSUME RestartTypeOK, MetaStep
    PROVE  meta' \in [Server -> Meta]
<1>0. TypeOK /\ meta \in [Server -> Meta]
  BY DEF RestartTypeOK
<1>1. ASSUME NEW s \in Server, SaveMeta(s, term[s], s)
      PROVE  meta' \in [Server -> Meta]
  <2>1. term[s] \in Nat
    BY <1>0 DEF TypeOK
  <2> QED BY <1>0, <1>1, <2>1, MetaType
<1>2. ASSUME NEW m \in voteRPCs, VoteMetaPersisted(m), SaveMetaOf(m)
      PROVE  meta' \in [Server -> Meta]
  <2>1. /\ m.from \in Server /\ m.to \in Server /\ m.term \in Nat
        /\ m.rterm \in Nat
    BY <1>0 DEF TypeOK, VoteRPC
  <2>2. m.stage \in {"stepping", "granting", "yielding"}
    BY <1>2 DEF VoteMetaPersisted
  <2>3. PICK s \in Server, t \in Nat, v \in Server \cup {Nil} : SaveMeta(s, t, v)
    BY <1>2, <2>1, <2>2 DEF SaveMetaOf
  <2> QED BY <1>0, <2>3, MetaType
<1>3. ASSUME NEW m \in appendRPCs, AppendMetaPersisted(m), SaveMetaOf(m)
      PROVE  meta' \in [Server -> Meta]
  <2>1. /\ m.from \in Server /\ m.to \in Server /\ m.term \in Nat
        /\ m.rterm \in Nat
    BY <1>0 DEF TypeOK, AppendRPC
  <2>2. m.stage \in {"stepping", "yielding"}
    BY <1>3 DEF AppendMetaPersisted
  <2>3. PICK s \in Server, t \in Nat, v \in Server \cup {Nil} : SaveMeta(s, t, v)
    BY <1>3, <2>1, <2>2 DEF SaveMetaOf
  <2> QED BY <1>0, <2>3, MetaType
<1> QED BY <1>1, <1>2, <1>3 DEF MetaStep

LEMMA RaftStepType ==
    ASSUME RestartTypeOK, RaftStep
    PROVE  RestartTypeOK'
<1>0. /\ TypeOK /\ meta \in [Server -> Meta] /\ persisted \in [Server -> Nat]
      /\ \A s \in Server : persisted[s] <= Len(applied[s])
      /\ severed \subseteq (VoteRPC \cup AppendRPC) \X Server
      /\ UNCHANGED <<persisted, crashes>>
  BY DEF RestartTypeOK, RaftStep
<1>1. TypeOK'
  BY <1>0, RaftStepIsNext, NodeType, VoteType, AppendType DEF Next
<1>2. meta' \in [Server -> Meta]
  BY <1>0, MetaStepType DEF RaftStep
<1>3. \A s \in Server : persisted'[s] <= Len(applied'[s])
  <2> SUFFICES ASSUME NEW s \in Server PROVE persisted'[s] <= Len(applied'[s])
    OBVIOUS
  <2>1. persisted'[s] = persisted[s] /\ persisted[s] \in Nat
    BY <1>0
  <2>2. Len(applied[s]) \in Nat /\ Len(applied'[s]) \in Nat
    BY <1>0, <1>1 DEF TypeOK
  <2>3. Len(applied'[s]) >= Len(applied[s])
    BY <1>0, RaftStepIsNext, DeliveryGrows
  <2> QED BY <1>0, <2>1, <2>2, <2>3
<1>4. severed' \subseteq (VoteRPC \cup AppendRPC) \X Server
  BY <1>0, CutsType DEF RaftStep
<1> QED BY <1>0, <1>1, <1>2, <1>3, <1>4 DEF RestartTypeOK

LEMMA PersistType ==
    ASSUME RestartTypeOK, NEW s \in Server, PersistApplied(s)
    PROVE  RestartTypeOK'
<1>1. persisted' \in [Server -> Nat]
  BY DEF RestartTypeOK, PersistApplied
<1>2. UNCHANGED vars /\ UNCHANGED <<meta, severed, crashes>>
  BY DEF PersistApplied
<1>3. TypeOK' /\ applied' = applied
  BY <1>2 DEF RestartTypeOK, TypeOK, vars, electionVars, logVars, leaderVars,
              runVars
<1>4. \A x \in Server : persisted'[x] <= Len(applied'[x])
  <2> SUFFICES ASSUME NEW x \in Server PROVE persisted'[x] <= Len(applied'[x])
    OBVIOUS
  <2>1. persisted[x] \in Nat /\ Len(applied[x]) \in Nat /\ persisted[x] <= Len(applied[x])
    BY DEF RestartTypeOK, TypeOK
  <2>2. persisted \in [Server -> Nat] /\ persisted[s] < Len(applied[s])
        /\ persisted' = [persisted EXCEPT ![s] = @ + 1]
    BY DEF RestartTypeOK, PersistApplied
  <2>3. CASE x = s
    BY <1>3, <2>1, <2>2, <2>3
  <2>4. CASE x # s
    BY <1>3, <2>1, <2>2, <2>4
  <2> QED BY <2>3, <2>4
<1> QED BY <1>1, <1>2, <1>3, <1>4 DEF RestartTypeOK

LEMMA RestartType ==
    ASSUME RestartTypeOK, NEW s \in Server, Restart(s)
    PROVE  RestartTypeOK'
<1>0. /\ TypeOK /\ meta \in [Server -> Meta] /\ persisted \in [Server -> Nat]
      /\ crashes \in [Server -> Nat]
      /\ \A x \in Server : persisted[x] <= Len(applied[x])
      /\ severed \subseteq (VoteRPC \cup AppendRPC) \X Server
  BY DEF RestartTypeOK
<1>1. /\ restoredLog(s) \in Seq(Entry) /\ Len(restoredLog(s)) = persisted[s]
      /\ persisted[s] \in Nat
  BY <1>0, RestoredType
<1>2. /\ currentTerm' \in [Server -> Nat]
      /\ votedFor' \in [Server -> Server \cup {Nil}]
  <2>1. meta[s].term \in Nat /\ meta[s].vote \in Server \cup {Nil}
    BY <1>0 DEF Meta
  <2> QED BY <1>0, <2>1 DEF Restart, TypeOK
<1>3. /\ log' \in [Server -> Seq(Entry)] /\ applied' \in [Server -> Seq(Entry)]
      /\ commitIndex' \in [Server -> Nat]
  BY <1>0, <1>1 DEF Restart, TypeOK, restoredApplied
<1>4. /\ state' \in [Server -> Role]
      /\ leaderID' \in [Server -> Server \cup {Nil}]
      /\ loop' \in [Server -> Loop] /\ term' \in [Server -> Nat]
      /\ votes' \in [Server -> SUBSET Server]
  BY <1>0 DEF Restart, TypeOK, Role, Loop
<1>5. /\ nextIndex' \in [Server -> [Server -> Nat \ {0}]]
      /\ matchIndex' \in [Server -> [Server -> Nat]]
  BY <1>0 DEF Restart, TypeOK
<1>6. /\ voteRPCs' \subseteq VoteRPC /\ appendRPCs' \subseteq AppendRPC
      /\ overrun' \subseteq Role
  BY <1>0 DEF Restart, TypeOK
<1>7. TypeOK'
  BY <1>2, <1>3, <1>4, <1>5, <1>6 DEF TypeOK
<1>8. \A x \in Server : persisted'[x] <= Len(applied'[x])
  <2> SUFFICES ASSUME NEW x \in Server PROVE persisted'[x] <= Len(applied'[x])
    OBVIOUS
  <2>1. /\ persisted' = persisted
        /\ applied' = [applied EXCEPT ![s] = restoredLog(s)]
    BY DEF Restart, restoredApplied
  <2>2. applied \in [Server -> Seq(Entry)]
    BY <1>0 DEF TypeOK
  <2>3. CASE x = s
    BY <1>1, <2>1, <2>2, <2>3
  <2>4. CASE x # s
    BY <1>0, <2>1, <2>2, <2>4
  <2> QED BY <2>3, <2>4
<1>9. severed' \subseteq (VoteRPC \cup AppendRPC) \X Server
  <2> DEFINE ends == {<<request(m), s>> : m \in
                        {c \in voteRPCs' \cup appendRPCs' : s \in {c.from, c.to}}}
  <2>1. ends \subseteq (VoteRPC \cup AppendRPC) \X Server
    <3>1. \A m \in voteRPCs' \cup appendRPCs' : request(m) \in VoteRPC \cup AppendRPC
      BY <1>6, RequestType
    <3> QED BY <3>1
  <2>2. severed' = inProgress(severed \cup ends)
    BY DEF Restart
  <2> HIDE DEF ends
  <2> QED BY <1>0, <2>1, <2>2, CutsType
<1>10. /\ crashes' \in [Server -> Nat] /\ meta' = meta /\ persisted' = persisted
  BY <1>0 DEF Restart
<1> QED BY <1>0, <1>7, <1>8, <1>9, <1>10 DEF RestartTypeOK

\* Every reachable state is well typed, over any number of deaths: raft.wal
\* never records more entries than were applied, so that the log a node
\* restores (NewNodeWithState) is the recorded part of what it applied.
THEOREM RestartTypeCorrect == RestartSpec => []RestartTypeOK
<1>1. RestartInit => RestartTypeOK
  <2> SUFFICES ASSUME RestartInit PROVE RestartTypeOK
    OBVIOUS
  <2>1. TypeOK
    BY InitType DEF RestartInit
  <2>2. meta \in [Server -> Meta]
    BY DEF RestartInit, Meta
  <2>3. \A s \in Server : persisted[s] = 0 /\ Len(applied[s]) \in Nat
    BY <2>1 DEF RestartInit, TypeOK
  <2>4. \A s \in Server : persisted[s] <= Len(applied[s])
    BY <2>3
  <2> QED BY <2>1, <2>2, <2>4 DEF RestartInit, RestartTypeOK
<1>2. RestartTypeOK /\ [RestartNext]_restartVars => RestartTypeOK'
  <2> SUFFICES ASSUME RestartTypeOK, [RestartNext]_restartVars
               PROVE  RestartTypeOK'
    OBVIOUS
  <2>1. CASE RestartNext
    BY <2>1, RaftStepType, PersistType, RestartType DEF RestartNext
  <2>2. CASE UNCHANGED restartVars
    <3>1. UNCHANGED vars /\ UNCHANGED <<meta, persisted, severed, crashes>>
      BY <2>2 DEF restartVars
    <3>2. TypeOK' /\ applied' = applied
      BY <3>1 DEF RestartTypeOK, TypeOK, vars, electionVars, logVars,
                  leaderVars, runVars
    <3> QED BY <3>1, <3>2 DEF RestartTypeOK
  <2> QED BY <2>1, <2>2
<1> QED BY <1>1, <1>2, PTL DEF RestartSpec
=============================================================================
