-------------------------------- MODULE Raft --------------------------------
(***************************************************************************)
(* The replicated log of internal/raft: Node (node.go) with its Run loop,  *)
(* its two RPC handlers, the goroutines that wait for their replies, and   *)
(* runDelivery.  n.mu makes the code between a Lock and the next Unlock    *)
(* one step; each such critical section is one action here.                *)
(*                                                                         *)
(* Positions are 1-based (Go's log[i] is log[s][i+1]); commitIndex,        *)
(* lastApplied and matchIndex count entries, so Go's -1 is 0 here.         *)
(*                                                                         *)
(* When SetMetaPersister was called (Durable), notifyMetaChange releases   *)
(* n.mu around the write of (currentTerm, votedFor): a handler that        *)
(* steps down resumes with its old arguments after other steps.  An RPC    *)
(* record carries the position of its handler in "stage":                  *)
(*   held      the candidate is still persisting, nothing is sent          *)
(*   sent      arguments computed, request on its way                      *)
(*   stepping  handler is in stepDown, persisting (term, "")               *)
(*   stepped   persisted; the handler waits for n.mu to go on              *)
(*   granting  vote cast, persisting (term, candidate)                     *)
(*   replied   the reply is on its way back                                *)
(*   yielding  the caller saw a newer term, persisting (term, "")          *)
(***************************************************************************)
EXTENDS Integers, Sequences, FiniteSets

CONSTANTS
    Server,       \* the cluster: a node and its peers
    Nil,          \* the empty id ""
    Command,      \* payloads of proposed commands
    MinAcks,      \* values a request may carry in Data.MinAcks; 0 = omitted
    Durable,      \* whether onMetaPersist is set (cmd/node) or nil (NewNode)
    MaxTerm,      \* bound, per node: the last term it may campaign for
    MaxLog,       \* bound, per node: it proposes up to this log length
    MaxApplied,   \* bound, per node: entries runDelivery forwards
    MaxVoteCalls, \* bound: RequestVote calls pending in the cluster
    MaxAppends    \* bound: AppendEntries calls pending in the cluster

ASSUME ServerFinite == IsFiniteSet(Server)
ASSUME NilIsNoServer == Nil \notin Server
ASSUME MinAcksNat == MinAcks \subseteq Nat
ASSUME DurableBool == Durable \in BOOLEAN
ASSUME BoundsNat == /\ MaxTerm \in [Server -> Nat] /\ MaxApplied \in [Server -> Nat]
                    /\ MaxLog \in [Server -> Nat]
                    /\ MaxAppends \in Nat /\ MaxVoteCalls \in Nat

VARIABLES
    currentTerm, votedFor, log,       \* "persistent" fields of Node
    state, leaderID, commitIndex,     \* volatile fields of Node
    applied,                          \* what runDelivery has sent, in order
    nextIndex, matchIndex,            \* leader's view of each peer
    loop,                             \* where Run's goroutine is
    term,                             \* runCandidate's local of that name
    votes,                            \* peers whose "true" reached voteCh
    voteRPCs, appendRPCs,             \* calls in progress; equal requests of
                                      \* two ticks are one until it is handled
    overrun                           \* history: see ReceiveEntries

electionVars == <<currentTerm, votedFor, state, leaderID>>
logVars      == <<log, commitIndex, overrun>>
leaderVars   == <<nextIndex, matchIndex>>
runVars      == <<loop, term, votes>>
vars == <<electionVars, logVars, leaderVars, runVars, applied,
          voteRPCs, appendRPCs>>

-----------------------------------------------------------------------------
(* Types *)

Role  == {"Follower", "Candidate", "Leader"}
Loop  == {"top", "runFollower", "runCandidate", "persisting", "collecting",
          "runLeader", "leading"}
Stage == {"held", "sent", "stepping", "stepped", "granting", "replied",
          "yielding"}
Data  == [cmd : Command, minAcks : MinAcks]
Entry == [term : Nat, data : Data]

\* RequestVoteArgs with the reply (rterm, ok) and the handler's stage.
VoteRPC == [from : Server, to : Server, term : Nat, lastIndex : Nat,
            lastTerm : Nat, stage : Stage, rterm : Nat, ok : BOOLEAN]

\* AppendEntriesArgs with the reply and the handler's stage.
AppendRPC == [from : Server, to : Server, term : Nat, prevIndex : Nat,
              prevTerm : Nat, entries : Seq(Entry), commit : Nat,
              stage : Stage, rterm : Nat, ok : BOOLEAN]

TypeOK ==
    /\ currentTerm \in [Server -> Nat]
    /\ votedFor \in [Server -> Server \cup {Nil}]
    /\ log \in [Server -> Seq(Entry)]
    /\ state \in [Server -> Role]
    /\ leaderID \in [Server -> Server \cup {Nil}]
    /\ commitIndex \in [Server -> Nat]
    /\ applied \in [Server -> Seq(Entry)]
    /\ nextIndex \in [Server -> [Server -> Nat \ {0}]]
    /\ matchIndex \in [Server -> [Server -> Nat]]
    /\ loop \in [Server -> Loop]
    /\ term \in [Server -> Nat]
    /\ votes \in [Server -> SUBSET Server]
    /\ voteRPCs \subseteq VoteRPC
    /\ appendRPCs \subseteq AppendRPC
    /\ overrun \subseteq Role

-----------------------------------------------------------------------------
(* Helpers *)

peers(s) == Server \ {s}

\* Mutant: half of the nodes, not more than half.
majorityHalf == Cardinality(Server) \div 2

majority == Cardinality(Server) \div 2 + 1

effectiveRepMinAcks == Cardinality(Server)

LastTerm(l) == IF l = <<>> THEN 0 ELSE l[Len(l)].term

validateStrictRepMinAcks(acks) ==
    acks >= majority /\ acks <= Cardinality(Server)

minAcksRequiredToCommit(s, i) ==
    IF log[s][i].data.minAcks > 0 THEN log[s][i].data.minAcks
                                  ELSE effectiveRepMinAcks

\* Mutant: the comparison is off by one.
replicatedAckCountStrict(s, match, i) ==
    1 + Cardinality({p \in peers(s) : match[p] > i})

replicatedAckCount(s, match, i) ==
    1 + Cardinality({p \in peers(s) : match[p] >= i})

\* maybeAdvanceCommit's loop, started at commitIndex[s], stops at k.
maybeAdvanceCommit(s, match, k) ==
    LET admits(i) == /\ i <= Len(log[s])
                     /\ log[s][i].term = currentTerm[s]
                     /\ replicatedAckCount(s, match, i)
                            >= minAcksRequiredToCommit(s, i)
    IN  /\ \A i \in (commitIndex[s] + 1)..k : admits(i)
        /\ ~admits(k + 1)

\* Mutant: entries already present are kept even where they conflict.
MergeAppendOnly(l, prev, es) ==
    [k \in 1..(IF Len(l) > prev + Len(es) THEN Len(l) ELSE prev + Len(es)) |->
        IF k <= Len(l) THEN l[k] ELSE es[k - prev]]

\* Mutant: the log is always cut at prevIndex.
MergeTruncating(l, prev, es) == SubSeq(l, 1, prev) \o es

\* HandleAppendEntries' merge: keep what agrees in term, and from the first
\* missing or conflicting position on take the request's entries.
MergeEntries(l, prev, es) ==
    LET agrees(i) == prev + i <= Len(l) /\ l[prev + i].term = es[i].term
    IN  IF \A i \in 1..Len(es) : agrees(i)
        THEN l
        ELSE [k \in 1..(prev + Len(es)) |->
                 IF k <= prev \/ \A i \in 1..(k - prev) : agrees(i)
                 THEN l[k] ELSE es[k - prev]]

\* Mutant: the vote given in this term is not looked at.
mayAlwaysVote(v, candidate) == TRUE

\* v is the vote a node has given in its term, if any.
mayVote(v, candidate) == v = Nil \/ v = candidate

\* Mutant: nextIndex is the last entry, not the one after it.
nextAtEnd(l) == Len(l)

\* Mutant: nextIndex is one position too far.
nextBeyond(l) == Len(l) + 2

\* nextIndex of a peer that holds all of l.
nextAfter(l) == Len(l) + 1

\* An AppendEntries was refused: probe one entry earlier next time.
backUp(next) == IF next > 1 THEN next - 1 ELSE next

\* Mutant: the role is left as it is.
stepDownInTerm(s, t) ==
    /\ currentTerm' = [currentTerm EXCEPT ![s] = t]
    /\ votedFor'    = [votedFor EXCEPT ![s] = Nil]
    /\ leaderID'    = [leaderID EXCEPT ![s] = Nil]
    /\ UNCHANGED state

stepDown(s, t) ==
    /\ currentTerm' = [currentTerm EXCEPT ![s] = t]
    /\ state'       = [state EXCEPT ![s] = "Follower"]
    /\ votedFor'    = [votedFor EXCEPT ![s] = Nil]
    /\ leaderID'    = [leaderID EXCEPT ![s] = Nil]

ReplaceVote(m, new)   == voteRPCs' = (voteRPCs \ {m}) \cup {new}
ReplaceAppend(m, new) == appendRPCs' = (appendRPCs \ {m}) \cup {new}

-----------------------------------------------------------------------------
(* NewNode, and Run's first pass, which finds a Follower whatever arrives
   before it. *)

Init ==
    /\ currentTerm = [s \in Server |-> 0]
    /\ votedFor    = [s \in Server |-> Nil]
    /\ log         = [s \in Server |-> <<>>]
    /\ state       = [s \in Server |-> "Follower"]
    /\ leaderID    = [s \in Server |-> Nil]
    /\ commitIndex = [s \in Server |-> 0]
    /\ applied     = [s \in Server |-> <<>>]
    /\ nextIndex   = [s \in Server |-> [p \in Server |-> 1]]
    /\ matchIndex  = [s \in Server |-> [p \in Server |-> 0]]
    /\ loop        = [s \in Server |-> "runFollower"]
    /\ term        = [s \in Server |-> 0]
    /\ votes       = [s \in Server |-> {}]
    /\ voteRPCs    = {}
    /\ appendRPCs  = {}
    /\ overrun     = {}

-----------------------------------------------------------------------------
(* The Run loop *)

\* Run reads n.state under n.mu, releases it, and only then calls the loop
\* for that role: the role may have changed when the loop first locks.
Run(s) ==
    /\ loop[s] = "top"
    /\ loop' = [loop EXCEPT ![s] =
                   CASE state[s] = "Follower"  -> "runFollower"
                     [] state[s] = "Candidate" -> "runCandidate"
                     [] state[s] = "Leader"    -> "runLeader"]
    /\ UNCHANGED <<electionVars, logVars, leaderVars, term, votes, applied,
                   voteRPCs, appendRPCs>>

\* runFollower's timer fires.  (A reset only postpones it.)
runFollower(s) ==
    /\ loop[s] = "runFollower"
    /\ currentTerm[s] < MaxTerm[s]
    /\ state' = [state EXCEPT ![s] = "Candidate"]
    /\ loop'  = [loop EXCEPT ![s] = "top"]
    /\ UNCHANGED <<currentTerm, votedFor, leaderID, logVars, leaderVars, term,
                   votes, applied, voteRPCs, appendRPCs>>

\* runCandidate up to notifyMetaChange: new term, vote for self, arguments
\* of the vote requests fixed.  n.state is not looked at.
runCandidate(s) ==
    LET t    == currentTerm[s] + 1
        call == [p \in peers(s) |->
                    [from |-> s, to |-> p, term |-> t,
                     lastIndex |-> Len(log[s]), lastTerm |-> LastTerm(log[s]),
                     stage |-> IF Durable THEN "held" ELSE "sent",
                     rterm |-> 0, ok |-> FALSE]]
    IN  /\ loop[s] = "runCandidate"
        /\ currentTerm[s] < MaxTerm[s]
        /\ Cardinality(voteRPCs) + Cardinality(peers(s)) <= MaxVoteCalls
        /\ currentTerm' = [currentTerm EXCEPT ![s] = t]
        /\ votedFor'    = [votedFor EXCEPT ![s] = s]
        /\ leaderID'    = [leaderID EXCEPT ![s] = Nil]
        /\ term'        = [term EXCEPT ![s] = t]
        /\ votes'       = [votes EXCEPT ![s] = {s}]
        /\ voteRPCs'    = voteRPCs \cup {call[p] : p \in peers(s)}
        /\ loop'        = [loop EXCEPT ![s] =
                              IF Durable THEN "persisting" ELSE "collecting"]
        /\ UNCHANGED <<state, logVars, leaderVars, applied, appendRPCs>>

\* (term, self) is on disk: the goroutines that call RequestVote start.
CampaignPersisted(s) ==
    /\ loop[s] = "persisting"
    /\ loop' = [loop EXCEPT ![s] = "collecting"]
    /\ voteRPCs' = {IF m.from = s /\ m.stage = "held"
                    THEN [m EXCEPT !.stage = "sent"] ELSE m : m \in voteRPCs}
    /\ UNCHANGED <<electionVars, logVars, leaderVars, term, votes, applied,
                   appendRPCs>>

\* The vote that completes the majority is read from voteCh.
ElectionWon(s) ==
    /\ loop[s] = "collecting"
    /\ Cardinality(votes[s]) >= majority
    /\ state' = IF state[s] = "Candidate" /\ currentTerm[s] = term[s]
                THEN [state EXCEPT ![s] = "Leader"] ELSE state
    /\ loop'  = [loop EXCEPT ![s] = "top"]
    /\ UNCHANGED <<currentTerm, votedFor, leaderID, logVars, leaderVars, term,
                   votes, applied, voteRPCs, appendRPCs>>

\* resetElection or the timer ends the campaign, at any moment; its locals
\* are gone.  A node without peers does not come here.
ElectionEnds(s) ==
    /\ loop[s] = "collecting"
    /\ peers(s) # {}
    /\ loop'  = [loop EXCEPT ![s] = "top"]
    /\ term'  = [term EXCEPT ![s] = 0]
    /\ votes' = [votes EXCEPT ![s] = {}]
    /\ UNCHANGED <<electionVars, logVars, leaderVars, applied, voteRPCs,
                   appendRPCs>>

\* runLeader's first critical section.  It does not look at n.state.  Its
\* local term is the election's whenever the node is still Leader, and no
\* later step depends on it when the node is not.
runLeader(s) ==
    /\ loop[s] = "runLeader"
    /\ nextIndex'  = [nextIndex EXCEPT ![s] =
                         [p \in Server |-> nextAfter(log[s])]]
    /\ matchIndex' = [matchIndex EXCEPT ![s] = [p \in Server |-> 0]]
    /\ leaderID'   = [leaderID EXCEPT ![s] = s]
    /\ loop'       = [loop EXCEPT ![s] = "leading"]
    /\ UNCHANGED <<currentTerm, votedFor, state, logVars, term, votes,
                   applied, voteRPCs, appendRPCs>>

stillLeader(s) == state[s] = "Leader" /\ currentTerm[s] = term[s]

\* A tick finds that the node is no longer the leader of that term.  Nothing
\* reads nextIndex and matchIndex until the next runLeader makes new maps, so
\* they are cleared here with the locals.
LeaderReturns(s) ==
    /\ loop[s] = "leading"
    /\ ~stillLeader(s)
    /\ loop'       = [loop EXCEPT ![s] = "top"]
    /\ term'       = [term EXCEPT ![s] = 0]
    /\ votes'      = [votes EXCEPT ![s] = {}]
    /\ nextIndex'  = [nextIndex EXCEPT ![s] = [p \in Server |-> 1]]
    /\ matchIndex' = [matchIndex EXCEPT ![s] = [p \in Server |-> 0]]
    /\ UNCHANGED <<electionVars, logVars, applied, voteRPCs, appendRPCs>>

\* sendAppendEntries up to the call: at the start of runLeader, at a tick.
sendAppendEntries(s, p) ==
    LET prev == nextIndex[s][p] - 1
        call == [from |-> s, to |-> p, term |-> term[s],
                 prevIndex |-> prev,
                 prevTerm  |-> IF prev \in 1..Len(log[s])
                               THEN log[s][prev].term ELSE 0,
                 entries   |-> SubSeq(log[s], prev + 1, Len(log[s])),
                 commit    |-> commitIndex[s],
                 stage |-> "sent", rterm |-> 0, ok |-> FALSE]
    IN  /\ loop[s] = "leading"
        /\ stillLeader(s)
        /\ Cardinality(appendRPCs) < MaxAppends
        /\ appendRPCs' = appendRPCs \cup {call}
        /\ UNCHANGED <<electionVars, logVars, leaderVars, runVars, applied,
                       voteRPCs>>

ProposeCommand(s, d) ==
    /\ state[s] = "Leader"
    /\ d.minAcks # 0 => validateStrictRepMinAcks(d.minAcks)
    /\ Len(log[s]) < MaxLog[s]
    /\ log' = [log EXCEPT ![s] =
                  Append(@, [term |-> currentTerm[s], data |-> d])]
    /\ UNCHANGED <<electionVars, commitIndex, overrun, leaderVars, runVars,
                   applied, voteRPCs, appendRPCs>>

\* runDelivery hands the next committed entry to the applied channel.
runDelivery(s) ==
    LET i == Len(applied[s]) + 1
    IN  /\ i <= commitIndex[s]
        /\ i <= MaxApplied[s]
        /\ i <= Len(log[s])     \* beyond it Go's n.log[i] panics
        /\ applied' = [applied EXCEPT ![s] = Append(@, log[s][i])]
        /\ UNCHANGED <<electionVars, logVars, leaderVars, runVars, voteRPCs,
                       appendRPCs>>

-----------------------------------------------------------------------------
(* RequestVote *)

RejectVote(m) ==
    /\ m.stage = "sent"
    /\ m.term < currentTerm[m.to]
    /\ ReplaceVote(m, [m EXCEPT !.stage = "replied", !.ok = FALSE,
                                !.rterm = currentTerm[m.to]])
    /\ UNCHANGED <<electionVars, logVars, leaderVars, runVars, applied,
                   appendRPCs>>

\* HandleRequestVote meets a newer term and persists it, n.mu released.
StepDownForVote(m) ==
    /\ Durable
    /\ m.stage = "sent"
    /\ m.term > currentTerm[m.to]
    /\ stepDown(m.to, m.term)
    /\ ReplaceVote(m, [m EXCEPT !.stage = "stepping"])
    /\ UNCHANGED <<logVars, leaderVars, runVars, applied, appendRPCs>>

\* The rest of HandleRequestVote, after stepDown when there was one.  In
\* stage "stepped" m.term may be older than currentTerm by now.
CastVote(m) ==
    LET s       == m.to
        newer   == m.stage = "sent" /\ m.term > currentTerm[s]
        t       == IF newer THEN m.term ELSE currentTerm[s]
        v       == IF newer THEN Nil ELSE votedFor[s]
        upToDate == \/ m.lastTerm > LastTerm(log[s])
                    \/ /\ m.lastTerm = LastTerm(log[s])
                       /\ m.lastIndex >= Len(log[s])
        grant   == mayVote(v, m.from) /\ upToDate
    IN  /\ \/ m.stage = "stepped"
           \/ /\ m.stage = "sent"
              /\ m.term >= currentTerm[s]
              /\ newer => ~Durable
        /\ currentTerm' = [currentTerm EXCEPT ![s] = t]
        /\ votedFor'    = [votedFor EXCEPT ![s] =
                              IF grant THEN m.from ELSE v]
        /\ state'       = IF newer THEN [state EXCEPT ![s] = "Follower"]
                                   ELSE state
        /\ leaderID'    = IF newer THEN [leaderID EXCEPT ![s] = Nil]
                                   ELSE leaderID
        /\ ReplaceVote(m, [m EXCEPT !.stage = IF grant /\ Durable
                                              THEN "granting" ELSE "replied",
                                    !.rterm = t, !.ok = grant])
        /\ UNCHANGED <<logVars, leaderVars, runVars, applied, appendRPCs>>

\* The goroutine of runCandidate that called RequestVote gets the reply.  It
\* steps down first; its send on voteCh follows, and reaches a reader only
\* while the campaign of m.term is still collecting.
VoteReply(m) ==
    LET s     == m.from
        newer == m.rterm > currentTerm[s]
    IN  /\ m.stage = "replied"
        /\ IF newer THEN stepDown(s, m.rterm) ELSE UNCHANGED electionVars
        /\ IF newer /\ Durable
           THEN /\ ReplaceVote(m, [m EXCEPT !.stage = "yielding"])
                /\ UNCHANGED votes
           ELSE /\ voteRPCs' = voteRPCs \ {m}
                /\ votes' = IF /\ m.ok
                               /\ loop[s] = "collecting"
                               /\ term[s] = m.term
                            THEN [votes EXCEPT ![s] = @ \cup {m.to}]
                            ELSE votes
        /\ UNCHANGED <<logVars, leaderVars, loop, term, applied, appendRPCs>>

\* onMetaPersist returns in one of the three places a vote call waits on it.
VoteMetaPersisted(m) ==
    /\ \/ /\ m.stage = "stepping"
          /\ ReplaceVote(m, [m EXCEPT !.stage = "stepped"])
          /\ UNCHANGED votes
       \/ /\ m.stage = "granting"
          /\ ReplaceVote(m, [m EXCEPT !.stage = "replied"])
          /\ UNCHANGED votes
       \/ /\ m.stage = "yielding"
          /\ voteRPCs' = voteRPCs \ {m}
          /\ votes' = IF /\ m.ok
                         /\ loop[m.from] = "collecting"
                         /\ term[m.from] = m.term
                      THEN [votes EXCEPT ![m.from] = @ \cup {m.to}]
                      ELSE votes
    /\ UNCHANGED <<electionVars, logVars, leaderVars, loop, term, applied,
                   appendRPCs>>

\* The transport returns an error: voteCh gets false.
VoteError(m) ==
    /\ m.stage \in {"sent", "replied"}
    /\ voteRPCs' = voteRPCs \ {m}
    /\ UNCHANGED <<electionVars, logVars, leaderVars, runVars, applied,
                   appendRPCs>>

-----------------------------------------------------------------------------
(* AppendEntries *)

RejectAppend(m) ==
    /\ m.stage = "sent"
    /\ m.term < currentTerm[m.to]
    /\ ReplaceAppend(m, [m EXCEPT !.stage = "replied", !.ok = FALSE,
                                  !.rterm = currentTerm[m.to]])
    /\ UNCHANGED <<electionVars, logVars, leaderVars, runVars, applied,
                   voteRPCs>>

StepDownForAppend(m) ==
    /\ Durable
    /\ m.stage = "sent"
    /\ m.term > currentTerm[m.to]
    /\ stepDown(m.to, m.term)
    /\ ReplaceAppend(m, [m EXCEPT !.stage = "stepping"])
    /\ UNCHANGED <<logVars, leaderVars, runVars, applied, voteRPCs>>

\* The role is set on the same-term branch and by stepDown, not again after
\* stepDown's unlock.
roleAfter(m) == IF m.stage = "sent" THEN "Follower" ELSE state[m.to]

\* The rest of HandleAppendEntries.  In stage "stepped" the term is not looked
\* at again (node.go:187): a node that has gone on to a later term meanwhile,
\* and may lead it, has its log rewritten by a request of the older one.
\* overrun keeps the roles of the nodes to which that has happened.
ReceiveEntries(m) ==
    LET s       == m.to
        newer   == m.stage = "sent" /\ m.term > currentTerm[s]
        t       == IF newer THEN m.term ELSE currentTerm[s]
        matches == m.prevIndex > 0 =>
                       /\ m.prevIndex <= Len(log[s])
                       /\ log[s][m.prevIndex].term = m.prevTerm
        merged  == MergeEntries(log[s], m.prevIndex, m.entries)
    IN  /\ \/ m.stage = "stepped"
           \/ /\ m.stage = "sent"
              /\ m.term >= currentTerm[s]
              /\ newer => ~Durable
        /\ currentTerm' = [currentTerm EXCEPT ![s] = t]
        /\ votedFor'    = IF newer THEN [votedFor EXCEPT ![s] = Nil]
                                   ELSE votedFor
        /\ state'       = [state EXCEPT ![s] = roleAfter(m)]
        /\ leaderID'    = [leaderID EXCEPT ![s] = m.from]
        /\ log' = IF matches THEN [log EXCEPT ![s] = merged] ELSE log
        /\ commitIndex' = IF matches /\ m.commit > commitIndex[s]
                          THEN [commitIndex EXCEPT ![s] =
                                   IF Len(merged) < m.commit
                                   THEN Len(merged) ELSE m.commit]
                          ELSE commitIndex
        /\ overrun' = IF m.term < currentTerm[s] /\ log' # log
                      THEN overrun \cup {state[s]} ELSE overrun
        /\ ReplaceAppend(m, [m EXCEPT !.stage = "replied",
                                      !.rterm = t, !.ok = matches])
        /\ UNCHANGED <<leaderVars, runVars, applied, voteRPCs>>

(* sendAppendEntries after the call returned *)

\* The reply carries a newer term.
ReplyDeposes(m) ==
    /\ m.stage = "replied"
    /\ m.rterm > currentTerm[m.from]
    /\ stepDown(m.from, m.rterm)
    /\ IF Durable THEN ReplaceAppend(m, [m EXCEPT !.stage = "yielding"])
                  ELSE appendRPCs' = appendRPCs \ {m}
    /\ UNCHANGED <<logVars, leaderVars, runVars, applied, voteRPCs>>

\* Whether the caller still leads the term it called in.
stillCurrent(m) == /\ m.stage = "replied"
                   /\ m.rterm <= currentTerm[m.from]
                   /\ state[m.from] = "Leader"
                   /\ currentTerm[m.from] = m.term

ReplyIgnored(m) ==
    /\ m.stage = "replied"
    /\ m.rterm <= currentTerm[m.from]
    /\ ~stillCurrent(m)
    /\ appendRPCs' = appendRPCs \ {m}
    /\ UNCHANGED <<electionVars, logVars, leaderVars, runVars, applied,
                   voteRPCs>>

\* The log's length is read now, not when the request was built.
ReplySuccess(m) ==
    LET s     == m.from
        n     == Len(log[s])
        match == IF m.entries # <<>> THEN [matchIndex[s] EXCEPT ![m.to] = n]
                                     ELSE matchIndex[s]
        next  == IF m.entries # <<>> THEN [nextIndex[s] EXCEPT ![m.to] =
                                                    nextAfter(log[s])]
                                     ELSE nextIndex[s]
    IN  /\ stillCurrent(m)
        /\ m.ok
        /\ matchIndex' = [matchIndex EXCEPT ![s] = match]
        /\ nextIndex'  = [nextIndex EXCEPT ![s] = next]
        /\ \E k \in commitIndex[s]..(commitIndex[s] + n) :
              /\ maybeAdvanceCommit(s, match, k)
              /\ commitIndex' = [commitIndex EXCEPT ![s] = k]
        /\ appendRPCs' = appendRPCs \ {m}
        /\ UNCHANGED <<electionVars, log, overrun, runVars, applied, voteRPCs>>

ReplyConflict(m) ==
    /\ stillCurrent(m)
    /\ ~m.ok
    /\ nextIndex' = [nextIndex EXCEPT ![m.from][m.to] = backUp(@)]
    /\ appendRPCs' = appendRPCs \ {m}
    /\ UNCHANGED <<electionVars, logVars, matchIndex, runVars, applied,
                   voteRPCs>>

AppendReply(m) ==
    ReplyDeposes(m) \/ ReplyIgnored(m) \/ ReplySuccess(m) \/ ReplyConflict(m)

AppendMetaPersisted(m) ==
    /\ \/ /\ m.stage = "stepping"
          /\ ReplaceAppend(m, [m EXCEPT !.stage = "stepped"])
       \/ /\ m.stage = "yielding"
          /\ appendRPCs' = appendRPCs \ {m}
    /\ UNCHANGED <<electionVars, logVars, leaderVars, runVars, applied,
                   voteRPCs>>

AppendError(m) ==
    /\ m.stage \in {"sent", "replied"}
    /\ appendRPCs' = appendRPCs \ {m}
    /\ UNCHANGED <<electionVars, logVars, leaderVars, runVars, applied,
                   voteRPCs>>

-----------------------------------------------------------------------------
NodeStep(s) ==
    \/ Run(s) \/ runFollower(s) \/ runCandidate(s) \/ CampaignPersisted(s)
    \/ ElectionWon(s) \/ ElectionEnds(s) \/ runLeader(s) \/ LeaderReturns(s)
    \/ \E p \in peers(s) : sendAppendEntries(s, p)
    \/ \E d \in Data : ProposeCommand(s, d)
    \/ runDelivery(s)

VoteStep(m) ==
    \/ RejectVote(m) \/ StepDownForVote(m) \/ CastVote(m) \/ VoteReply(m)
    \/ VoteMetaPersisted(m) \/ VoteError(m)

AppendStep(m) ==
    \/ RejectAppend(m) \/ StepDownForAppend(m) \/ ReceiveEntries(m)
    \/ AppendReply(m) \/ AppendMetaPersisted(m) \/ AppendError(m)

Next ==
    \/ \E s \in Server : NodeStep(s)
    \/ \E m \in voteRPCs : VoteStep(m)
    \/ \E m \in appendRPCs : AppendStep(m)

Spec == Init /\ [][Next]_vars

-----------------------------------------------------------------------------
(* Properties *)

\* At most one node is Leader of a term: two campaigns of the same term
\* cannot both collect a majority, whatever the order of votes, step-downs,
\* late replies and campaigns started on a role read too early.
ElectionSafety ==
    \A i, j \in Server :
        /\ state[i] = "Leader" /\ state[j] = "Leader"
        /\ currentTerm[i] = currentTerm[j]
        => i = j

\* In memory a node's term never goes back, and the vote it gave in a term is
\* never taken back or given again, although handlers resume after an unlock
\* with arguments of an older term.
VoteKept ==
    \A v \in Server :
        /\ currentTerm'[v] >= currentTerm[v]
        /\ currentTerm'[v] = currentTerm[v] /\ votedFor[v] # Nil
           => votedFor'[v] = votedFor[v]

OneVotePerTerm == [][VoteKept]_vars

\* Two logs that hold an entry of the same term at the same position hold
\* the same entries up to it (HandleAppendEntries' check and merge), until a
\* handler resumed after the unlock in stepDown rewrites the log of a node
\* that leads by then.  One that rewrites a follower's log, cutting entries of
\* a later term, does no harm to this.
LogMatching == "Leader" \notin overrun =>
    \A i, j \in Server :
        \A k \in 1..Len(log[i]) :
            k <= Len(log[j]) /\ log[i][k].term = log[j][k].term
            => SubSeq(log[i], 1, k) = SubSeq(log[j], 1, k)

\* A leader's request never starts beyond the end of its log, although the
\* log may have been cut since an earlier leadership: the slice that
\* sendAppendEntries makes, len(n.log)-n.nextIndex[peer], is never negative,
\* until a resumed handler rewrites the log of a leader.
NextInLog == "Leader" \notin overrun =>
    \A s \in Server : loop[s] = "leading" /\ stillLeader(s) =>
        \A p \in peers(s) : nextIndex[s][p] <= Len(log[s]) + 1

\* A node that stays Leader never takes an entry back from its log, whatever
\* requests, late replies and proposals reach it: HandleAppendEntries makes
\* the node a follower before it cuts the log.  The one exception is a handler
\* of an older term that resumes at node.go:187, and then the cut is recorded
\* in overrun.
LeaderKeepsLog == "Leader" \notin overrun' =>
    \A s \in Server : state[s] = "Leader" /\ state'[s] = "Leader" =>
        /\ Len(log[s]) <= Len(log'[s])
        /\ \A k \in 1..Len(log[s]) : log'[s][k] = log[s][k]

LeaderAppendOnly == [][LeaderKeepsLog]_vars

\* The positive answer of m tells the truth while its caller leads: a peer
\* still in that term holds the leader's log as far as the request reached.
truthful(m) ==
    /\ m.ok
    /\ state[m.from] = "Leader" /\ currentTerm[m.from] = m.term
    /\ currentTerm[m.to] = m.term
    => LET n == m.prevIndex + Len(m.entries)
       IN  /\ n <= Len(log[m.to])
           /\ SubSeq(log[m.to], 1, n) = SubSeq(log[m.from], 1, n)

\* A successful AppendEntries reply is still true when it is read, although
\* older and shorter requests may have been handled after it
\* (HandleAppendEntries cuts only at a conflict), as long as no resumed
\* handler has rewritten a log in a term that is not its request's.
AcksHold == overrun = {} => \A m \in appendRPCs : truthful(m)

\* "raft_min_acks positivo: obriga esta entrada a um minimo proprio de ACKs
\* antes do commit" (example/requests.md:124): what a leader has committed is
\* in the logs of at least as many members as the entry asked for.
ReplicatedBeforeCommit ==
    \A s \in Server : state[s] = "Leader" =>
        \A i \in 1..commitIndex[s] :
            Cardinality({p \in Server : /\ i <= Len(log[p])
                                       /\ log[p][i] = log[s][i]})
                >= minAcksRequiredToCommit(s, i)

-----------------------------------------------------------------------------
(* Progress.  Goroutines keep running (weak fairness on every step of Run,  *)
(* the heartbeat ticker and runDelivery); the network may fail a call but    *)
(* not every call of a pair forever (strong fairness on handling a request   *)
(* and on reading its reply).  Proposals, timeouts and errors are not fair.  *)

Handled(s, p) == \E m \in appendRPCs :
    m.from = s /\ m.to = p /\ (ReceiveEntries(m) \/ RejectAppend(m))

Answered(s, p) == \E m \in appendRPCs :
    m.from = s /\ m.to = p /\ AppendReply(m)

Fairness ==
    /\ \A s \in Server :
          /\ WF_vars(Run(s)) /\ WF_vars(runLeader(s))
          /\ WF_vars(LeaderReturns(s)) /\ WF_vars(runDelivery(s))
    /\ \A s \in Server : \A p \in peers(s) :
          /\ WF_vars(sendAppendEntries(s, p))
          /\ SF_vars(Handled(s, p)) /\ SF_vars(Answered(s, p))

FairSpec == Spec /\ Fairness

\* "um follower em falta bloqueia o commit ate voltar"
\* (specs/config-quorum-raft.md:209): with every follower answering again and
\* again, an entry that a leader appended in its own term is applied on every
\* node, unless the leader is deposed.
CommitProgress ==
    \A s \in Server : \A i \in 1..MaxLog[s] :
        (/\ state[s] = "Leader" /\ i <= Len(log[s])
         /\ log[s][i].term = currentTerm[s])
            ~> (\/ state[s] # "Leader"
                \/ \A p \in Server : Len(applied[p]) >= i)
=============================================================================
