------------------------------- MODULE Apply --------------------------------
(***************************************************************************)
(* How one node's store follows the replicated log: the HTTP handlers that *)
(* write the store and then propose, the delivery of committed entries,    *)
(* the loop that applies them by role and records them in raft.wal, and a  *)
(* process that dies and starts again from raft.wal.                       *)
(*                                                                         *)
(* The rest of the cluster is an environment that keeps Raft's promises:   *)
(* what is committed stays committed, and a new leader holds it.  The      *)
(* store keeps what it was given when the process dies (module KV).        *)
(* Lengths replace the code's indexes: commitIndex counts entries.         *)
(***************************************************************************)
EXTENDS Integers, Sequences, FiniteSetsExt, SequencesExt

CONSTANTS
    Key, Value,     \* keys of all tables, a table's own existence included
    None,           \* no value: a missing key, a delete
    Command,        \* commands: the keys each writes, None for a delete
    Client,         \* HTTP requests the node serves at the same time
    Buffer,         \* entries delivery is ahead of the loop: the channel's
                    \* capacity, and one in the hands of either side
    MaxLog,         \* bound: entries of a log
    MaxCampaigns,   \* bound: campaigns of the node
    MaxCrashes      \* bound: restarts of the node

AnyValue == Value \cup {None}
Items    == UNION {[ks -> AnyValue] : ks \in SUBSET Key}

ASSUME CommandsTyped == None \notin Value /\ Command \subseteq Items
ASSUME BoundsTyped   == /\ Buffer \in Nat \ {0} /\ MaxLog \in Nat
                        /\ MaxCampaigns \in Nat /\ MaxCrashes \in Nat

VARIABLES
    chosen,         \* the entries the cluster has committed
    role, log,      \* Node.state and Node.log
    inherited,      \* the entries of a leader's log from before its term
    commitIndex, lastApplied,
    applied,        \* the channel; its head is the entry in the loop's hands
    handling,       \* how far the loop is, and the role GrpcHandle read
    wal, nextIndex, \* raft.wal's entries and RaftNode.nextIndex
    store,          \* what the database holds
    late,           \* logged writes whose call failed: a later flush of the
                    \* store's buffer, or Load, carries them out
    request,        \* the handlers
    mirror,         \* history: only the loop wrote the store, and skipped nothing
    campaigns, crashes

raft  == <<chosen, role, log, inherited, commitIndex, campaigns>>
loop  == <<lastApplied, applied, handling, wal, nextIndex>>
local == <<store, late, request, mirror>>
vars  == <<raft, loop, local, crashes>>

Idle   == [at |-> "idle"]
WalRec == [index : Nat, data : Command]

\* Delivery never runs ahead of the commit or of a full channel.
TypeOK ==
    /\ chosen \in Seq(Command) /\ log \in Seq(Command)
    /\ role \in {"Follower", "Candidate", "Leader"}
    /\ inherited \in Nat /\ nextIndex \in Nat
    /\ commitIndex \in 0..Len(log) /\ lastApplied \in 0..commitIndex
    /\ applied \in Seq(Command) /\ Len(applied) <= Buffer
    /\ handling \in [at : {"role", "apply", "persist"}, follower : BOOLEAN]
    /\ wal \in Seq(WalRec)
    /\ store \in [Key -> AnyValue] /\ late \subseteq Key \X AnyValue
    /\ request \in [Client -> {Idle} \cup
                       [at : {"permitted", "stored"}, items : Command]]
    /\ mirror \in BOOLEAN
    /\ campaigns \in 0..MaxCampaigns /\ crashes \in 0..MaxCrashes

-----------------------------------------------------------------------------
\* The store after a command, or after the part of it on the keys ks.
storedPart(items, ks) == [k \in Key |-> IF k \in ks THEN items[k] ELSE store[k]]

stored(items) == storedPart(items, DOMAIN items)

\* A later write of the same key takes the place of one in the buffer, and
\* follows it in the log.
overtaken(ks) == {p \in late : p[1] \notin ks}

\* RaftWAL.Load: the entries by index; the last one of an index counts.
indices == {wal[i].index : i \in DOMAIN wal}
gap     == indices # 0..(Cardinality(indices) - 1)
loaded  == [i \in 1..Cardinality(indices) |->
    wal[Max({j \in DOMAIN wal : wal[j].index = i - 1})].data]

Init ==
    /\ chosen = <<>> /\ role = "Follower" /\ log = <<>> /\ inherited = 0
    /\ commitIndex = 0 /\ lastApplied = 0 /\ applied = <<>>
    /\ handling = [at |-> "role", follower |-> FALSE]
    /\ wal = <<>> /\ nextIndex = 0
    /\ store = [k \in Key |-> None] /\ late = {}
    /\ request = [c \in Client |-> Idle]
    /\ mirror = TRUE
    /\ campaigns = 0 /\ crashes = 0

-----------------------------------------------------------------------------
(* The cluster *)

\* Another leader commits an entry.
OtherCommits(c) ==
    /\ Len(chosen) < MaxLog
    /\ chosen' = Append(chosen, c)
    /\ UNCHANGED <<role, log, inherited, commitIndex, campaigns, loop, local, crashes>>

\* The logs whose leader the node may hear: they agree with what the node
\* knows to be committed, and the last entry may not be committed.
leaderLogs ==
    LET prefixes == {SubSeq(chosen, 1, n) : n \in commitIndex..Len(chosen)}
    IN  prefixes \cup {Append(l, c) : l \in {p \in prefixes : Len(p) < MaxLog},
                                      c \in Command}

\* HandleAppendEntries with the entries of l that the node lacks.  An equal
\* command of another term is a conflict too, so l may replace a longer log.
ReceiveEntries(l) ==
    /\ role' = "Follower"
    /\ log' \in IF IsPrefix(l, log) THEN {log, l} ELSE {l}
    /\ commitIndex' \in {n \in commitIndex..Len(l) : IsPrefix(SubSeq(l, 1, n), chosen)}
    /\ UNCHANGED <<chosen, inherited, campaigns, loop, local, crashes>>

\* The election timer fires.
Campaign ==
    /\ role = "Follower" /\ campaigns < MaxCampaigns
    /\ role' = "Candidate" /\ campaigns' = campaigns + 1
    /\ UNCHANGED <<chosen, log, inherited, commitIndex, loop, local, crashes>>

Elected ==
    /\ role = "Candidate" /\ IsPrefix(chosen, log)
    /\ role' = "Leader" /\ inherited' = Len(log)
    /\ UNCHANGED <<chosen, log, commitIndex, campaigns, loop, local, crashes>>

stepDown ==
    /\ role # "Follower"
    /\ role' = "Follower"
    /\ UNCHANGED <<chosen, log, inherited, commitIndex, campaigns, loop, local, crashes>>

\* The leader counts enough acknowledgements; an entry it inherited stops it.
maybeAdvanceCommit ==
    /\ role = "Leader" /\ IsPrefix(chosen, log)
    /\ inherited <= commitIndex /\ commitIndex < Len(log)
    /\ commitIndex' = commitIndex + 1
    /\ chosen' = IF Len(chosen) > commitIndex THEN chosen
                 ELSE Append(chosen, log[commitIndex + 1])
    /\ UNCHANGED <<role, log, inherited, campaigns, loop, local, crashes>>

-----------------------------------------------------------------------------
(* The HTTP handlers: each decodes its command, asks for permission, writes
   the database and proposes.  A request refused on the way changes nothing. *)

deletes(items) == \A k \in DOMAIN items : items[k] = None
writes(items)  == \A k \in DOMAIN items : items[k] # None
single(items)  == Cardinality(DOMAIN items) = 1

PermittedProposeCmd(c, items) ==
    /\ request[c].at = "idle"
    /\ role = "Leader"
    /\ request' = [request EXCEPT ![c] = [at |-> "permitted", items |-> items]]
    /\ UNCHANGED <<raft, loop, store, late, mirror, crashes>>

PutHandler(c, items)    == writes(items) /\ single(items) /\ PermittedProposeCmd(c, items)
BulkPutHandle(c, items) == writes(items) /\ PermittedProposeCmd(c, items)
DeleteHandler(c, items) == deletes(items) /\ single(items) /\ PermittedProposeCmd(c, items)
BulkDelHandle(c, items) == deletes(items) /\ PermittedProposeCmd(c, items)
\* It writes the one key that stands for the table.
CreateTableHandler(c, items) ==
    writes(items) /\ single(items) /\ PermittedProposeCmd(c, items)

\* The handler's call of the database succeeds.
DbWrite(c) ==
    /\ request[c].at = "permitted"
    /\ store' = stored(request[c].items)
    /\ late' = overtaken(DOMAIN request[c].items)
    /\ mirror' = FALSE
    /\ request' = [request EXCEPT ![c].at = "stored"]
    /\ UNCHANGED <<raft, loop, crashes>>

\* It fails: nothing is proposed.  Of the command, the keys ks may be written,
\* and more may be logged: they stay in the buffer and in the log.
DbWriteFails(c) ==
    /\ request[c].at = "permitted"
    /\ LET items == request[c].items
       IN  \E ls \in SUBSET DOMAIN items : \E ks \in SUBSET ls :
              /\ store' = storedPart(items, ks)
              /\ late' = overtaken(ls) \cup {<<k, items[k]>> : k \in ls \ ks}
              /\ mirror' = (mirror /\ ls = {})
    /\ request' = [request EXCEPT ![c] = Idle]
    /\ UNCHANGED <<raft, loop, crashes>>

\* A flush of the buffer carries out a late write; so does Load, which is this
\* step just before Restart.
LateWrite(p) ==
    /\ store' = [store EXCEPT ![p[1]] = p[2]]
    /\ late' = late \ {p}
    /\ UNCHANGED <<raft, loop, request, mirror, crashes>>

ProposeCommand(c) ==
    /\ request[c].at = "stored"
    /\ role = "Leader" /\ Len(log) < MaxLog
    /\ log' = Append(log, request[c].items)
    /\ request' = [request EXCEPT ![c] = Idle]
    /\ UNCHANGED <<chosen, role, inherited, commitIndex, campaigns, loop, store, late, mirror, crashes>>

\* The node is not the leader any more, or raft_min_acks is out of range: the
\* client gets an error and the write stays.
ProposeRefused(c) ==
    /\ request[c].at = "stored"
    /\ request' = [request EXCEPT ![c] = Idle]
    /\ UNCHANGED <<raft, loop, store, late, mirror, crashes>>

-----------------------------------------------------------------------------
(* Delivery and the apply loop *)

\* Mutant: the send does not wait for the loop.
channelUnbounded == TRUE

channelFree == Len(applied) < Buffer

runDelivery ==
    /\ lastApplied < commitIndex
    /\ channelFree
    /\ lastApplied' = lastApplied + 1
    /\ applied' = Append(applied, log[lastApplied + 1])
    /\ UNCHANGED <<raft, handling, wal, nextIndex, local, crashes>>

\* Mutant: the entry is recorded before it is applied.
persistFirst == [role |-> "persist", persist |-> "apply", apply |-> "role"]

\* RunAppliedLoop's order
RunAppliedLoop == [role |-> "apply", apply |-> "persist", persist |-> "role"]

\* The loop goes on; after the last step it lets go of the entry.
goOn == LET next == RunAppliedLoop[handling.at]
        IN  /\ handling' = [handling EXCEPT !.at = next]
            /\ applied' = IF next = "role" THEN Tail(applied) ELSE applied

\* GrpcHandle reads the role under n.mu ...
ReadRole ==
    /\ applied # <<>> /\ handling.at = "role"
    /\ handling' = [at |-> RunAppliedLoop["role"], follower |-> role = "Follower"]
    /\ mirror' = (mirror /\ role = "Follower")
    /\ UNCHANGED <<raft, lastApplied, applied, wal, nextIndex, store, late, request, crashes>>

\* ... and writes the database after the unlock, or returns.
GrpcHandle ==
    /\ applied # <<>> /\ handling.at = "apply"
    /\ IF handling.follower
       THEN /\ store' = stored(Head(applied))
            /\ late' = overtaken(DOMAIN Head(applied))
       ELSE UNCHANGED <<store, late>>
    /\ goOn
    /\ UNCHANGED <<raft, lastApplied, wal, nextIndex, request, mirror, crashes>>

PersistApplied ==
    /\ applied # <<>> /\ handling.at = "persist"
    /\ wal' = Append(wal, [index |-> nextIndex, data |-> Head(applied)])
    /\ nextIndex' = nextIndex + 1
    /\ goOn
    /\ UNCHANGED <<raft, lastApplied, local, crashes>>

-----------------------------------------------------------------------------
(* The process dies, or exits because the loop met an error, and starts *)

\* Mutant: the counter of persisted entries starts at zero.
OpenRaftFromZero ==
    /\ ~gap
    /\ nextIndex' = 0
    /\ role' = "Follower" /\ log' = loaded
    /\ commitIndex' = Len(loaded) /\ lastApplied' = Len(loaded)

\* OpenRaft and NewNodeWithState
OpenRaft ==
    /\ ~gap
    /\ nextIndex' = Len(loaded)
    /\ role' = "Follower" /\ log' = loaded
    /\ commitIndex' = Len(loaded) /\ lastApplied' = Len(loaded)

Restart ==
    /\ crashes < MaxCrashes
    /\ crashes' = crashes + 1
    /\ OpenRaft
    /\ applied' = <<>> /\ handling' = [at |-> "role", follower |-> FALSE]
    /\ request' = [c \in Client |-> Idle] /\ late' = {}
    /\ UNCHANGED <<chosen, inherited, campaigns, wal>>

\* It dies between two calls of the database, in the loop's call, which a bulk
\* command makes in parts, or in a handler's.
Crash == Restart /\ UNCHANGED <<store, mirror>>

CrashInApply ==
    /\ applied # <<>> /\ handling.at = "apply" /\ handling.follower
    /\ Restart
    /\ \E ks \in SUBSET DOMAIN Head(applied) : store' = storedPart(Head(applied), ks)
    /\ UNCHANGED mirror

CrashInDbWrite(c) ==
    /\ request[c].at = "permitted"
    /\ Restart
    /\ \E ks \in (SUBSET DOMAIN request[c].items) \ {{}} :
          store' = storedPart(request[c].items, ks)
    /\ mirror' = FALSE

-----------------------------------------------------------------------------
Next ==
    \/ \E c \in Command : OtherCommits(c)
    \/ \E l \in leaderLogs : ReceiveEntries(l)
    \/ Campaign
    \/ Elected
    \/ stepDown
    \/ maybeAdvanceCommit
    \/ \E c \in Client, items \in Command :
          \/ PutHandler(c, items) \/ BulkPutHandle(c, items)
          \/ DeleteHandler(c, items) \/ BulkDelHandle(c, items)
          \/ CreateTableHandler(c, items)
    \/ \E c \in Client : DbWrite(c)
    \/ \E c \in Client : DbWriteFails(c)
    \/ \E p \in late : LateWrite(p)
    \/ \E c \in Client : ProposeCommand(c)
    \/ \E c \in Client : ProposeRefused(c)
    \/ runDelivery
    \/ ReadRole
    \/ GrpcHandle
    \/ PersistApplied
    \/ Crash
    \/ CrashInApply
    \/ \E c \in Client : CrashInDbWrite(c)

Spec == Init /\ [][Next]_vars

-----------------------------------------------------------------------------
(* Properties *)

\* The value of k by the first n entries that the cluster committed.
replayed(k, n) ==
    LET is == {i \in DOMAIN chosen : i <= n /\ k \in DOMAIN chosen[i]}
    IN  IF is = {} THEN None ELSE chosen[Max(is)][k]

\* raft.wal can be loaded and holds a first part of what the cluster
\* committed, each entry once and in order, over role changes and restarts:
\* PersistApplied, NewNodeWithState's lastApplied and runDelivery agree.
WalIsDelivered == ~gap /\ IsPrefix(loaded, chosen)

\* A node that handled every entry as a follower, and served no write, holds
\* what its raft.wal says, or for some keys the value of the one entry in
\* hand: apply before persist loses no entry in a crash (setup/raft.go:94).
MirrorsLog ==
    LET n == Len(loaded)
    IN  mirror => \A k \in Key : store[k] \in {replayed(k, n), replayed(k, n + 1)}

\* What the comment at cmds_grpc.go:46 relies on: an entry that the loop skips
\* because the node is no follower is in the store already.  So a node that
\* handled all that is committed, with no request under way, holds it.
HandledIsStored ==
    /\ loaded = chosen /\ applied = <<>>
    /\ \A c \in Client : request[c] = Idle
    => \A k \in Key : store[k] = replayed(k, Len(chosen))
=============================================================================
