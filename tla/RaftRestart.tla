----------------------------- MODULE RaftRestart -----------------------------
(***************************************************************************)
(* Raft nodes that die and come back from raft.wal (internal/wal/          *)
(* raft_wal.go and cmd/node/setup/raft.go around node.go).  The file keeps *)
(* what was applied, and the (term, vote) records in the order in which    *)
(* they reach it: notifyMetaChange captures the pair under n.mu and calls  *)
(* SaveMeta after the unlock, so two goroutines may write in either order. *)
(*                                                                         *)
(* A call's record still tells which pair its goroutine is about to write: *)
(* stepDown's is the newer term and no vote, a vote's is the term of the   *)
(* reply and the candidate.                                                *)
(***************************************************************************)
EXTENDS Raft

CONSTANT MaxCrashes   \* bound, per node: how often it may die

ASSUME NodeIsDurable == Durable
ASSUME CrashesNat == MaxCrashes \in [Server -> Nat]

VARIABLES
    meta,       \* the last OpRaftMeta record of each raft.wal
    persisted,  \* how many applied entries are in each raft.wal
    severed,    \* <<request, node>>: the node at one end died since
    crashes     \* how often each node has died

restartVars == <<vars, meta, persisted, severed, crashes>>

Meta == [term : Nat, vote : Server \cup {Nil}]

RestartTypeOK ==
    /\ TypeOK
    /\ meta \in [Server -> Meta]
    /\ persisted \in [Server -> Nat]
    /\ \A s \in Server : persisted[s] <= Len(applied[s])
    /\ crashes \in [Server -> Nat]
    /\ severed \subseteq (VoteRPC \cup AppendRPC) \X Server

\* A call as it was sent.
request(m) == [m EXCEPT !.stage = "sent", !.rterm = 0, !.ok = FALSE]

\* Whether the process that made the call, and the one that answers it, died.
callerDied(m)  == <<request(m), m.from>> \in severed
handlerDied(m) == <<request(m), m.to>> \in severed

\* Nothing is remembered of calls that are over.
inProgress(cuts) ==
    {c \in cuts : \E m \in voteRPCs' \cup appendRPCs' : c[1] = request(m)}

-----------------------------------------------------------------------------
(* raft.wal *)

\* SaveMeta(currentTerm, votedFor) by node s.  A write that fails, which
\* OpenRaft's callback only logs, is left out.
SaveMeta(s, t, v) == meta' = [meta EXCEPT ![s] = [term |-> t, vote |-> v]]

\* The pair that the handler or the caller of m has captured.
SaveMetaOf(m) ==
    CASE m.stage = "stepping" -> SaveMeta(m.to, m.term, Nil)
      [] m.stage = "granting" -> SaveMeta(m.to, m.rterm, m.from)
      [] m.stage = "yielding" -> SaveMeta(m.from, m.rterm, Nil)

\* The apply loop records an entry that it has handed to the store.
PersistApplied(s) ==
    /\ persisted[s] < Len(applied[s])
    /\ persisted' = [persisted EXCEPT ![s] = @ + 1]
    /\ UNCHANGED <<vars, meta, severed, crashes>>

-----------------------------------------------------------------------------
(* A process dies and is started again *)

\* Of the calls s takes part in, those another process still has in hand:
\* a request of s on its way to a peer or in the peer's handler, and a reply
\* of s on its way back or already read.  A goroutine that waits for the
\* connection's mutex with an old request is left out.
survives(m, s) ==
    /\ m.from = s => m.stage \in {"sent", "stepping", "stepped", "granting"}
    /\ m.to = s   => m.stage \in {"replied", "yielding"}

\* Load: the entries of the file, which are those applied before.
restoredLog(s) == SubSeq(applied[s], 1, persisted[s])

\* Mutant: lastApplied starts at -1 as in NewNode.
appliedFromStart(s) == <<>>

\* Mutant: what was handed out but never recorded counts as applied.
appliedAsDelivered(s) == applied[s]

\* lastApplied after NewNodeWithState, as the entries it stands for.
restoredApplied(s) == restoredLog(s)

\* The process of s dies and OpenRaft makes a new Node from the file.
Restart(s) ==
    /\ crashes[s] < MaxCrashes[s]
    /\ crashes'     = [crashes EXCEPT ![s] = @ + 1]
    /\ currentTerm' = [currentTerm EXCEPT ![s] = meta[s].term]
    /\ votedFor'    = [votedFor EXCEPT ![s] = meta[s].vote]
    /\ log'         = [log EXCEPT ![s] = restoredLog(s)]
    /\ commitIndex' = [commitIndex EXCEPT ![s] = Len(restoredLog(s))]
    /\ applied'     = [applied EXCEPT ![s] = restoredApplied(s)]
    /\ state'       = [state EXCEPT ![s] = "Follower"]
    /\ leaderID'    = [leaderID EXCEPT ![s] = Nil]
    /\ nextIndex'   = [nextIndex EXCEPT ![s] = [p \in Server |-> 1]]
    /\ matchIndex'  = [matchIndex EXCEPT ![s] = [p \in Server |-> 0]]
    /\ loop'        = [loop EXCEPT ![s] = "runFollower"]
    /\ term'        = [term EXCEPT ![s] = 0]
    /\ votes'       = [votes EXCEPT ![s] = {}]
    /\ voteRPCs'    = {m \in voteRPCs : survives(m, s)}
    /\ appendRPCs'  = {m \in appendRPCs : survives(m, s)}
    /\ severed'     = inProgress(severed \cup
                          {<<request(m), s>> : m \in
                              {c \in voteRPCs' \cup appendRPCs' :
                                  s \in {c.from, c.to}}})
    /\ UNCHANGED <<overrun, meta, persisted>>

-----------------------------------------------------------------------------
RestartInit ==
    /\ Init
    /\ meta = [s \in Server |-> [term |-> 0, vote |-> Nil]]
    /\ persisted = [s \in Server |-> 0]
    /\ severed = {}
    /\ crashes = [s \in Server |-> 0]

\* A write to raft.wal that lets a goroutine of Raft go on.
MetaStep ==
    \/ \E s \in Server : CampaignPersisted(s) /\ SaveMeta(s, term[s], s)
    \/ \E m \in voteRPCs : VoteMetaPersisted(m) /\ SaveMetaOf(m)
    \/ \E m \in appendRPCs : AppendMetaPersisted(m) /\ SaveMetaOf(m)

\* The other steps of the Run loop, runDelivery and the leader's calls.
NodeGoesOn(s) ==
    \/ Run(s) \/ runFollower(s) \/ runCandidate(s) \/ ElectionWon(s)
    \/ ElectionEnds(s) \/ runLeader(s) \/ LeaderReturns(s)
    \/ \E p \in peers(s) : sendAppendEntries(s, p)
    \/ \E d \in Data : ProposeCommand(s, d)
    \/ runDelivery(s)

\* The other steps of a call.  A reply to a dead process is never read: it
\* ends as a failed call does.
CallGoesOn ==
    \/ \E m \in voteRPCs :
          \/ RejectVote(m) \/ StepDownForVote(m) \/ CastVote(m) \/ VoteError(m)
          \/ ~callerDied(m) /\ VoteReply(m)
    \/ \E m \in appendRPCs :
          \/ RejectAppend(m) \/ StepDownForAppend(m) \/ ReceiveEntries(m)
          \/ AppendError(m)
          \/ ~callerDied(m) /\ AppendReply(m)

RaftStep ==
    /\ \/ MetaStep
       \/ /\ (\E s \in Server : NodeGoesOn(s)) \/ CallGoesOn
          /\ UNCHANGED meta
    /\ severed' = inProgress(severed)
    /\ UNCHANGED <<persisted, crashes>>

RestartNext ==
    \/ RaftStep
    \/ \E s \in Server : PersistApplied(s) \/ Restart(s)

RestartSpec == RestartInit /\ [][RestartNext]_restartVars

-----------------------------------------------------------------------------
(* Properties *)

\* A successful AppendEntries reply tells the truth while its leader leads
\* and the peer has not died since it answered, also when the leader or the
\* peer died before with entries that raft.wal lacks.
AckSound == \A m \in appendRPCs : handlerDied(m) \/ truthful(m)

\* What runDelivery has handed out is never taken back from the log, also
\* not by a leader that restarted with a shorter one, and no two nodes were
\* handed different entries at a position.
DeliveredAgree ==
    \A i, j \in Server : \A k \in 1..Len(applied[i]) :
        /\ k <= Len(log[i]) /\ log[i][k] = applied[i][k]
        /\ k <= Len(applied[j]) => applied[i][k] = applied[j][k]

\* "Entries are fsynced before AppendEntry/SaveMeta return, satisfying the
\* Raft requirement that stable state is durable before responding to RPCs"
\* (src/internal/wal/raft_wal.go:47): while a granted vote is on its way, a
\* restart of the voter would find that vote or a later term in the file.
StableBeforeReply ==
    \A m \in voteRPCs :
        m.ok /\ m.stage = "replied" =>
            \/ meta[m.to].term > m.rterm
            \/ meta[m.to] = [term |-> m.rterm, vote |-> m.from]

-----------------------------------------------------------------------------
(* Progress: the fairness of Raft, and writes to raft.wal return.  Restarts *)
(* are as unfair as timeouts, and bounded: a node that keeps dying makes no *)
(* progress.                                                                *)

RestartFairness ==
    /\ \A s \in Server :
          /\ WF_vars(Run(s)) /\ WF_vars(runLeader(s))
          /\ WF_vars(LeaderReturns(s)) /\ WF_vars(runDelivery(s))
          /\ WF_vars(\E m \in appendRPCs : m.to = s /\ AppendMetaPersisted(m))
    /\ \A s \in Server : \A p \in peers(s) :
          /\ WF_vars(sendAppendEntries(s, p))
          /\ WF_vars(\E m \in appendRPCs :
                        m.from = s /\ callerDied(m) /\ AppendError(m))
          /\ SF_vars(\E m \in appendRPCs :
                        /\ m.from = s /\ m.to = p
                        /\ StepDownForAppend(m) \/ ReceiveEntries(m) \/ RejectAppend(m))
          /\ SF_vars(\E m \in appendRPCs :
                        m.from = s /\ m.to = p /\ ~callerDied(m) /\ AppendReply(m))

RestartFairSpec == RestartSpec /\ RestartFairness
=============================================================================
