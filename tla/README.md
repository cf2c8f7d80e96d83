# Verification of kvs

kvs is a replicated key-value store written in Go. Each node runs an HTTP API,
a Raft node that replicates commands over gRPC, and a storage stack: a
write-ahead log, a write batcher, one file per key, and a cache. This directory
holds TLA+ models of those parts, the TLC configurations that check them and
TLAPS proofs.

| Module | Models |
|---|---|
| `Raft` | elections and replication of the Raft nodes and their calls |
| `RaftRestart` | extends `Raft` with raft.wal: nodes that die and come back |
| `Apply` | one node between its Raft log and its store: handlers and apply loop |
| `KV` | one node's storage: adapter, write-ahead log, checkpoint, batcher, cache |
| `Store` | abstract: a durable numbered map, which `KV` and `Fsdb` implement |
| `Fsdb` | one table's files and secondary indexes, the batcher's flush and the locks |
| `RaftProofs` | theorems about elections in `Raft` |
| `RaftLogProofs` | theorems about the logs in `Raft` |
| `RaftRestartProofs` | type correctness of `RaftRestart` |
| `ApplyProofs`, `KVProofs`, `FsdbProofs` | theorems about `Apply`, `KV` and `Fsdb` |
| `FsdbStoreProofs` | `Fsdb` implements `Store`; bulk operations of the store |
| `DataLemmas` | facts about numbers, prefixes and listings that those share |

`MCRaft`, `MCRaftRestart`, `MCApply`, `MCKV` and `MCFsdb` instantiate them for
TLC, one `.cfg` per question. `PROJECT.json` maps every definition to the lines it models and lists
runs, mutants, hazards, findings and theorems.

## 1. Inventory

| Component | State | Operations | Interaction |
|---|---|---|---|
| Raft node (`internal/raft/node.go`) | term, vote, log, role, leader hint, commitIndex, lastApplied, nextIndex/matchIndex | Run loop (follower, candidate, leader), two RPC handlers, ProposeCommand, runDelivery | `n.mu` guards all fields; one goroutine per RPC; `applied` and `commitNotify` channels; persister called with `n.mu` released |
| Transport (`transport.go`, `per_conn.go`, `grpc_server.go`, `raftpb`) | one connection and stream per peer | unary RequestVote, streamed AppendEntries | calls the peer's handlers; a mutex per peer serialises AppendEntries |
| Raft WAL (`wal/raft_wal.go`) | frames of (term, vote) and of applied entries | SaveMeta, AppendEntry, Load | called by the persister and by the apply loop |
| Apply loop (`setup/raft.go`, `api/cmds_grpc.go`) | next index to persist | apply by role, then PersistApplied | reads `applied`, writes the adapter and raft.wal |
| HTTP handlers (`internal/api`) | none | PUT, DELETE, bulk forms, POST table, GET | leader: adapter first, then ProposeCommand |
| Adapter (`internal/db`) | none of its own, `mu` | Set, Delete, BulkSet, BulkDel, ApplyReplicated*, Get, GetBySecondaryKey, CreateTable, Load, Close | WAL, then store, then cache, under `mu` |
| KV WAL (`wal/wal.go`) | file, `seq`, writes since the checkpoint | append, Checkpoint, Load | its own `mu`; BeforeCheckpoint flushes the batcher |
| Checkpoint file (`internal/durable`) | LastSeq | SaveLastSeq, read | written by the WAL |
| Write batcher (`fsdb/write_batcher.go`) | pending operation per (table, key) | Set, Del, bulk forms, Get, Flush | its own `mu`; periodic flush |
| Filesystem store (`fsdb/base.go`) | directory per table, file per key, file per secondary key | Set, Del, Get, GetBySk, CreateTable | a mutex per table |
| Cache (`internal/cache`) | LRU list with TTL | SaveIfOk, Once, Del, DelIfOk | its own `mu`, held while the store is called |
| Periodic tasks (`internal/tasks`) | none | checkpoint and flush on a ticker | do not take the adapter's `mu` |

What makes these hard: handlers that resume after an unlock, a role read and
used later, overlapping heartbeats, replies read against a log that has grown,
three mutexes that divide one write, a checkpoint running between the steps of
a write, crashes between any two of these, and errors in a flush that belongs
to several callers. `PROJECT.json` lists each at its line.

What makes each correct: one leader per term and one vote per term; logs that
agree where they overlap; acknowledgements that are true; entries that reach
every node; recovery that restores what was logged and acknowledged; optimistic
locks that see the newest value; reads that answer the newest value; a store
that holds what the replicated log says, over role changes and restarts;
secondary indexes that list every item; a process that comes up again.

## 2. Models

### Raft

One function per field of `Node`, indexed by server. `loop[s]` is the position
of the goroutine in `Run`: `top` is the read of the role, then the loop
functions; `persisting` and `collecting` are the two waits of `runCandidate`,
`leading` the ticker loop of `runLeader`. `term[s]` is the local of
`runCandidate` and `runLeader`, `votes[s]` what `voteCh` has delivered. The code
between a Lock and the next Unlock is one action, named for its function.

A call is a record that holds its arguments, its reply and the position of its
handler (`stage`). Calls of one sender are handled in any order, at most once,
and may fail before the handler runs or before the reply is read. The gRPC
client does not repeat calls. The mutex per peer in `per_conn.go` allows fewer
orders of AppendEntries than the model; the violations found do not need the
extra ones. Calls are a set, so that equal requests of two ticks are one until
it has been handled; the next tick sends it again.

`Durable` says whether a persister is set, as `cmd/node` does; every run but
`raft_stalled_commit` has it set. Then `notifyMetaChange` releases `n.mu`, and
handlers stop in the stages `stepping`, `granting` and `yielding` until the write
returns, and after `stepped` go on against whatever the node has become.

That last case is the one thing that spoils the logs. A follower steps down for a
request of the leader of term 1 and persists; meanwhile it is elected in term 2
and proposes; then the handler of the old request goes on (`node.go:187`), looks
at neither term nor role, and merges its entries into the log of what is now a
leader. The history variable `overrun` collects the roles of nodes whose log a
request of an older term changed in this way. LogMatching, NextInLog and
LeaderAppendOnly speak of behaviours in which it has happened to no leader, and
AcksHold of those in which it has happened to no node at all: they say that the
overwrite is the only way in which the logs go wrong. After it they are false.
The overwritten leader's next proposal has another predecessor than the entry it
replicated before, and without a proposal its next heartbeat asks for a slice of
negative length (`node.go:504`). The repository makes no statement that the
overwrite contradicts, so it is a hazard in `PROJECT.json` and not a finding.

Election timers may fire at any moment, so `resetElection` needs no state.
Positions are 1-based; where Go uses -1 the model has 0. `runDelivery` stops
where Go would index past the log; that point is listed as a hazard.

### RaftRestart

`RaftRestart` adds the file raft.wal of each node to `Raft`: `meta` is the last
(term, vote) record, `persisted` the number of applied entries. `RaftStep` is a
step of `Raft` together with the SaveMeta it completes: the pair was captured
under `n.mu`, the write comes after the unlock, so the pairs of two goroutines
reach the file in either order. `PersistApplied` is the last step of the apply
loop. `Restart` is the death of a process and `NewNodeWithState` in one: term
and vote from `meta`, log and `lastApplied` from the persisted entries, a
follower in everything else. Left out are a SaveMeta that fails, which the
callback only logs (`setup/raft.go:63`), and a goroutine of another node that
waits for the connection's mutex and then sends the restarted process a request
made for the dead one (`per_conn.go:49`). Calls under way at that moment go on at the other
end only, which `severed` records: a handler of the dead process takes no
further step, and a reply to it is not read.

### KV

The state on disk (`wal`, `lastSeq`, `tables`, `files`), the memory of the
process (`seq`, `pend`, `cache`, `job`, `ckpt`), and two history variables:
`logged`, the value each key has by the entries appended, and `owed`, the values
a client may expect (the last acknowledged one and later unacknowledged ones,
and while one of these is unanswered a torn file).

A client operation is two steps under the adapter's mutex: `LogRequest` up to
the return of the WAL call, `ApplyRequest` for batcher and cache. A checkpoint
is `CheckpointFlush` (BeforeCheckpoint), `SaveLastSeq` and `TruncateWal`, under
the WAL's mutex; it is started by the periodic task, by a write
(`EveryNWrites`) or by Load. `Crash`, `CrashInLog` and `CrashInLoad` end the
process anywhere, a flush or a bulk append half done included. `os.WriteFile`
truncates a key file before it writes it (`base.go:286`), so a death inside it
leaves the file `Torn` (`cut`); `Get` answers an error for it, which `valueOf` takes
for no value, and a delete leaves it as it is (`fileAfter`). `Close` is the orderly
shutdown. A crash ends the process and not the machine: what reached the operating
system stays. Key files and `checkpoint.cbor` are written without fsync, so a power
loss can lose what the checkpoint covers; that is outside the model.

A value stands for an item's content. The values in `Versioned` carry a version
of their own; the others, and missing keys, have the empty version, as an item
stored without optimistic lock does. Capacity and TTL of the cache are an
eviction at any time, the batcher's limit in bytes a flush at any time.

`Store` says what this machinery is for: a map that one write changes in one
step, and that crashes, recoveries, flushes and checkpoints leave alone.
`ImplementsStore` is the refinement. Its mapping (`DurableMap`) takes for the
value of a key what a Load of the present files would leave: the last entry of
the WAL after LastSeq, else the file; and for the number what recovery restores.

### Fsdb

`KV` takes a table for a function from keys to values; `Fsdb` opens one table. A
file per item and a file per secondary key, written one after the other, so that
a crash may come between them or inside one and leave it truncated (`Torn`). The
flush of the batcher is a sequence of such operations in key order, in
`batch`; a client operation is in `client`. `Lock`, `LockWaits`, `RLock` and
`RUnlock` are the table's RWMutex, in which a waiting writer blocks new readers.
An item is its secondary key. `wal` is what Load would replay, and `Load`,
`Replay`, `LoadCheckpoint` apply it through the batcher, with and without
DeferWrites. The checkpoint of the periodic task is `CheckpointFlush`, which holds
`WAL.mu` (`walFree`) and not `Adapter.mu`, and `SaveLastSeq`, after which Load
replays nothing that is logged now.

A running checkpoint may save a LastSeq ahead of the files (`wal.go:290`): the
operation of a client between its append and the batcher, or in the buffer since
the checkpoint's flush. `early` collects the keys concerned, and gives one back
when its next operation is done in the files. If the process dies before that,
Load does not repeat the operation: its value may be lost, or torn, or out of its
index. `kv_periodic_checkpoint` shows the consequence for a client; here the
properties about recovery except the keys of `early`, and the refinement of `Store`
is asserted of the steps at which `early` is empty. In a process that does not die,
`early` only covers the moment up to the flush of that operation.

`MapRace` and `CreateTable` during a flush are the two places where
the unguarded map `TbMutex` ends the process: a concurrent insert, and the
replacement of a mutex that is locked. `BulkSet` and `BulkDel` of the store are
operators: the node's batcher does not call them, so they are compared with Set
and Del, one after the other (`doAll`), on every state of the files that a
process can find. Their concurrent file writes and error paths, and the error that
Del returns for a missing index, are not in those operators.

`ImplementsTable` shows that one table is the map of `Store` again, this time
with files that can be half written: `Contents` is what a Load would leave, the
last logged entry of a key or else its file if that can be read.
`CurrentIsDurable` ties that to what a running node answers: `current` looks at the
buffer only with DeferWrites, as `WriteBatcher.Get` does. Without it a flush that
fails leaves its operations buffered and logged, and reads answer the older files;
the client was told of the error, and the property leaves such a key out.

### Apply

One node between its Raft log and its store. `chosen` is what the cluster has
committed; the rest of the cluster is an environment that keeps Raft's promises:
`chosen` only grows, a log that the node receives agrees with what the node
knows to be committed (`leaderLogs`), and only a node that holds `chosen` is
elected. `Raft` is where those promises are checked; the two causes known to
break them (`node.go:539`, and acknowledged entries lost in a restart) are not
repeated here. A leader does not commit entries it inherited, as in the code.

A command is a function from the keys it writes to their values, None for a
delete; a table's existence is a key of its own. A handler is three steps,
because no lock spans them: permission, the write of the database, the proposal;
each of the last two may fail. The loop is three steps as well: `ReadRole` under
`n.mu`, `GrpcHandle` after the unlock, `PersistApplied`. `RunAppliedLoop` gives
their order. raft.wal is a sequence of records with an index, read back by index
as `RaftWAL.Load` does, the check for gaps included. A crash is followed at once
by the restart; it may cut a bulk write in two. A write of the database that fails
after its append stays in the KV log and in the batcher's buffer: `late` holds it,
and `LateWrite` is the later flush, or the Load, that carries it out. `mirror` is a history variable:
the node has skipped no entry and has logged no write of its own.

## 3. Runs

Every property has a mutant in `PROJECT.json`: an operator next to the original
that changes it as a plausible bug would, and that breaks the property.

| Run | Checks | Instance |
|---|---|---|
| `raft_safety` | TypeOK, LogMatching, NextInLog, AcksHold, LeaderAppendOnly | 3 nodes with the persister's unlocks; one may lead term 1, its rival terms 1 and 2; logs of 2, 2 overlapping AppendEntries between the rivals, a third node that votes |
| `raft_durable` | ElectionSafety, OneVotePerTerm | 3 nodes, 2 rivals, terms 1 and 2, the persister's unlocks, 4 vote calls and a heartbeat in flight |
| `raft_restart` | RestartTypeOK, AckSound, DeliveredAgree, CommitProgress | 2 nodes with raft.wal, each may die once, one of them campaigns for terms 1 and 2, 2 calls of a kind in flight, with fairness |
| `raft_lost_vote` | violates StableBeforeReply | the same without a crash and without entries |
| `raft_commit_acks` | violates ReplicatedBeforeCommit | one leader with the persister, entries that ask for 2 acks |
| `raft_stalled_commit` | violates CommitProgress | 2 nodes, the leader is deposed and elected again |
| `kv_deferred` | CheckpointCovers, ServesLatest, NoLostUpdate, ImplementsStore | one table, DeferWrites, truncation, versioned and unversioned values, no BulkSet (it leaves the cache alone, a gap the specs name) |
| `kv_acked` | TypeOK, AcknowledgedSurvive | key files that a death can tear, 2 tables, one of them missing, default batching, periodic and automatic checkpoints, truncation, 2 crashes |
| `kv_periodic_checkpoint` | violates AcknowledgedSurvive | DeferWrites and the periodic checkpoint |
| `apply_follow` | TypeOK, WalIsDelivered, MirrorsLog | one client, three commands, log of 3, a campaign, a restart |
| `apply_skipped` | violates HandledIsStored | no clients, the rest as above |
| `fsdb_index` | TypeOK, IndexComplete, IndexExact, FindsAll, NoSelfWait, BulkMatches, CurrentIsDurable, Recovers, ImplementsTable | 2 keys, one secondary key and none, 3 logged operations, DeferWrites on and off, running checkpoints, 2 crashes, one CreateTable by a client |

Bounds. Three nodes have two different majorities that meet in one node, and
two rivals over two terms give split votes, late votes for an earlier campaign
and a deposed leader. A log of two entries gives a conflict, a partial match and
an entry proposed while a call is in flight. In `raft_safety` two calls in flight
overtake each other, and every behaviour is followed up to the overwrite of a
leader's log, of which the properties say no more, and only up to a delivery,
which changes nothing they are about, or a request to the third node (the constraint
`InScope`): that node votes, and with its own log empty it adds no conflict. Logs of followers, of candidates and of leaders are all
overwritten in that run. `MaxTerm` bounds the campaigns of
each node, so a cluster that used them up stops; for that reason alone the Raft
runs do not check deadlock. In the KV runs, three or four entries give an
overwrite, a delete, and a bulk request of two keys; two crashes give a crash
during recovery from a crash. They check deadlock. In `kv_acked` the automatic
checkpoint needs two entries. Symmetry is used for rivals, for the followers of
a single leader, and for the values where all or none carry a version.
In `apply_follow` a log of three entries and a buffer of two let delivery wait for
the loop, and the three commands are a put, a bulk put over it and a delete, so
that an entry left out, repeated or cut in two shows in the store. Its view drops
the content of the store once `mirror` is gone: no guard depends on it, and the
properties no longer look at it.
In `fsdb_index` three operations let an item be stored, moved out of its
secondary key and deleted, and two crashes cut the recovery from a crash. It
checks deadlock.

`raft_restart` lets one node campaign. With a rival, the defect that
`raft_lost_vote` shows makes AckSound false: a node whose record (2, itself) was
overtaken by (1, none) restarts in term 1 and leads term 2 once more with another
log. A second cause is the overwrite at `node.go:187`, which then breaks
CommitProgress. What the run shows is therefore about restarts of a leader and of a follower without a
rival: acknowledged entries that were not yet applied are lost in a restart, the
leader notices, and sends them again.

Violations. Each shows a disagreement between the code and what the repository
says of it; `PROJECT.json` quotes the lines.
- `matchIndex` is set from the log's length when the reply is read
  (`node.go:539`), so an entry can be committed with fewer copies than it asked
  for.
- `maybeAdvanceCommit` stops at an entry of an earlier term (`node.go:571`) and
  never passes it.
- With DeferWrites, a write acknowledged between the flush and SaveLastSeq of a
  periodic checkpoint is lost in a crash (`wal.go:290`). Without DeferWrites
  `kv_acked` shows that a write not yet acknowledged can be lost, and that it may
  take the value before it along: the entry is appended, the ticker saves a LastSeq
  that covers it, and the process dies inside `os.WriteFile` of the key file. Load
  does not repeat the entry, and the file is torn. AcknowledgedSurvive allows this
  (`Torn` in `owed`) for the key of an unanswered request and for no other; in the
  form without that clause TLC refutes it.
- `SaveMeta` is called after the unlock (`node.go` through `raft_wal.go:93`): the
  pair of an older term can be written after the vote that the node has
  answered with, and a restart then forgets the vote.
- `GrpcHandle` skips every entry while the node is not a follower
  (`cmds_grpc.go:47`), on the ground that a leader has applied it already. A
  follower whose election timer fires with delivered entries still to apply
  skips them for good. With clients, HandledIsStored also fails for a write whose
  proposal is refused and for two writes logged in the opposite order; the run
  leaves clients out to show the first cause alone.

Fairness. `CommitProgress` assumes that goroutines run (weak fairness of the Run
loop, heartbeats and runDelivery: they are tickers and loops with nothing to
wait for but `n.mu`), and that not every call between two nodes fails (strong
fairness of handling a request and of reading its reply). Proposals, timeouts
and errors are not fair. `raft_stalled_commit` runs under it.
`RestartFairness` adds that writes to raft.wal return and that a broken stream
ends the calls on it; restarts are no more fair than timeouts, and bounded,
since a node that keeps dying makes no progress. In `raft_restart` the log holds
one entry, so that none of an earlier term stays below one of the present:
`raft_stalled_commit` shows what happens otherwise. `Recovers` assumes that a
process is started again and that Load and the flush it makes go on; nothing
else takes part in them. It excuses a truncated index file, which makes every
Load fail (a hazard at its line).

## 4. Proofs

Every theorem holds for every value of the constants that satisfies the
assumptions of its module: any finite cluster, any tables, keys, values, options
and bounds. TLC evaluates the assumptions in every run.

Where a theorem has a hypothesis on the options, the property is false without
it, and the sections below say by which behaviour.

| Module | Theorem | Property | Hypothesis |
|---|---|---|---|
| `RaftProofs` | TypeCorrect | TypeOK | |
| | VotesOncePerTerm | OneVotePerTerm | |
| | AtMostOneLeaderPerTerm | ElectionSafety | |
| `RaftLogProofs` | LogsAgree | LogMatching | none on options; until a leader's log is overwritten (in the property) |
| | RequestsStartInLog | NextInLog | none on options; until a leader's log is overwritten (in the property) |
| | LeadersAppendOnly | LeaderAppendOnly | none on options; until a leader's log is overwritten (in the property) |
| | AnswersHold | AcksHold | none on options; until a log is overwritten (in the property) |
| `RaftRestartProofs` | RestartTypeCorrect | RestartTypeOK | |
| `ApplyProofs` | TypeCorrect | TypeOK | |
| | WalDelivered | WalIsDelivered | |
| | StoreMirrorsLog | MirrorsLog | |
| `KVProofs` | TypeCorrect | TypeOK | |
| | CoversEverything | CheckpointCovers | Load alone makes checkpoints |
| | Survival | AcknowledgedSurvive | no DeferWrites, or Load alone makes checkpoints |
| | Refinement | ImplementsStore | Load alone makes checkpoints |
| | LockHolds | NoLostUpdate | the same; DeferWrites or every table exists |
| | GetServesLatest | ServesLatest | the same; every table exists, one table, no BulkSet |
| `FsdbProofs` | TypeCorrect | TypeOK | |
| | NeverSelfWaits | NoSelfWait | |
| | IndexIsComplete | IndexComplete | keys not in `early` (in the property) |
| | AnswersAreComplete | FindsAll | keys not in `early` (in the property) |
| | IndexIsExact | IndexExact | keys not in `early` (in the property) |
| `FsdbStoreProofs` | AnswersAreDurable | CurrentIsDurable | keys not in `early` (in the property) |
| | TableRefinement | ImplementsTable | steps with `early` empty (in the property) |
| | BulkIsSequence | setsMatch, delsMatch of any batch | files whose indexes can be read |
| | BulkOnAnyFiles | BulkMatches | |

### Elections

ElectionSafety is not inductive: it does not say why a leader has a majority.
`ElectionInv` adds that. *Evidence* that v voted for c in term t is v in c's
tally while c is in term t, or a positive answer of that term on its way to c.
`EvidenceBacked` says that the voter stands behind it: v is in term t with that
vote, or has left t. `EvidenceUnique` says that all evidence of one voter and
term names one candidate. `LeaderElected` says that a leader has a majority in
its tally and that its goroutine is on its way to `runLeader` or in it.
`TermPast` relates the local term of `runCandidate` to the node's. `ReplySane`
says what a vote call may carry in each stage, in particular that a handler
that resumes after stepDown has a term not ahead of the node's. Two majorities
meet (`MajoritiesMeet`, from the cardinality theorems), so two leaders of a term
share a voter, and `EvidenceUnique` makes them equal. Both values of `Durable`
are covered.

### Logs

LogMatching is about logs, but entries also travel in requests, and what makes
two entries equal is the leader that proposed them. A *link* is an entry, its
position and the term of the entry before it, in any log or request.
`LinksMatch` says that two links of the same position and entry term are equal;
logs that meet it match, going back from the position where the terms agree
(`MatchSuffices`). `LeaderHolds` says that the log of a leader reaches as far as
any link of its term, so that a proposal is the first at its position.
`TermsOwned` is why a later leader of the same term cannot exist: every term
with a link was won by a node whose campaign is over, and the majority that
elected it stands by its vote or has left the term, with no trace of another
vote. That fact outlives the election's evidence and is kept by every step
(`SettledKept`, `DoneKept`), while a new winner of that term would have to share
a voter with that majority (`WinnerIsFirst`). `MergeLinks` is the heart of
HandleAppendEntries: a merge that passed the check at prevIndex holds links of
the old log and of the request and no others.

All this holds with the persister's unlocks as well. A handler that resumes after
stepDown has a request of the node's term or of an older one (`CallsSane`). Of the
node's term, it is the request of the one leader of that term, and the node cannot
be that leader (`CallsOwned`). Of an older one, the merge is the overwrite that
`overrun` records (`OverrunStep`). `LinksMatch` survives the overwrite of any log,
since a merge brings no new links; what it breaks is `LeaderHolds`, if the node is a
leader, and from then on a proposal may make a second link at a position. So
`LinksMatch` and `LeaderHolds` are in `LogInv` under `LeadersSpared`, and the rest
of it without condition.

NextInLog and LeaderAppendOnly need only that a log is cut by no other step while
its node leads (`LogsFrom`, `LeadersFrom`, `LeaderKeepsStep`).

`AcksHold` is why a leader may count an answer as long as it counts what it
sent: a positive reply under way is true, although requests of one leader
overlap and an older or shorter one may be handled after a longer one. `AckInv`
has three parts. `RequestsHeld`: while the caller leads its term, a request is a
piece of the caller's log (that log only grows, while leaders are spared).
`AcksLate`: who answered has reached the term. `AcksAgree` is the claim; an
overwrite of the follower's log by a request of an older term undoes it, so it is
asserted until any log is overwritten. Since nobody else wins the request's term
(`CallsOwned`), a node in that term takes entries from that leader alone. A step of
HandleAppendEntries for a request of the same leader merges one piece of a log into
a log that already agrees with another piece, which undoes nothing (`MergeKeeps`);
and the merge that answers reaches agreement from position 1, not only from
prevIndex, because LogMatching holds (`MergeReaches`). `AckSound` in `raft_restart`
is its form with restarts.

`RestartTypeCorrect` is over any number of deaths. Its part beyond types is that
raft.wal never records more entries than were applied, so what `Load` restores is
the recorded part of the applied entries.

### Apply

WalIsDelivered and MirrorsLog follow from `ApplyInv`. `WalInOrder` says that the
record at a position carries that index, so that Load finds no gap.
`Committed` and `Delivered` relate the log, the file and then the channel to
`chosen`; `InHand` says that the loop between two of its steps has an entry; and
`StoreFollows` gives the store of a node that only follows, key by key: as the
persisted entries left it or as the entry in hand does, since a crash may cut a
bulk apply, and no write of the node's own is waiting in the buffer.

### KV

`BaseInv` numbers the WAL, says in which modes jobs and checkpoints run, and ties
`logged` to the last entry of each key. `CoverInv` is the reason recovery works:
a file is behind the log, or torn, only where a restart would replay (or torn for a
key whose last entry is a delete), the buffer is behind
only for the operation at hand, and a checkpoint past its flush has everything in
the files. CheckpointCovers, the refinement of `Store` (mapping `DurableMap`),
and with `NoneFails` and `CacheInv` the two read properties rest on it.
`AckInv` is its counterpart for the default configuration: there a file may be
behind the log or torn where nothing is replayed, but only for values not yet
acknowledged: a torn file that nothing repeats belongs to a request that was never
answered, or to a key that may be missing (`Meets`).

*Load alone makes checkpoints* is `CHECKPOINT_INTERVAL = 0` and no
`EveryNWrites`. Otherwise a checkpoint that saves `LastSeq` between an append and
its write to the batcher leaves the entry out of every later replay: that is the
run `kv_periodic_checkpoint`, and without DeferWrites the same step still breaks
CheckpointCovers, though not AcknowledgedSurvive. The other hypotheses are named
gaps of the code: a flush that fails on a missing table does not reach the cache
and, without DeferWrites, leaves the file without the value that was logged;
the cache's key has no table (`adapter.go:298`); BulkSet leaves the cache alone
(`adapter.go:74`).

### Fsdb

`CtlInv` adds to the types who holds which mutex: while a reader by secondary key
is between its lock and its answer there is no flush and the buffer is empty. That
gives NoSelfWait at once. `FileInv` adds the recovery argument: between the two
writes of an operation the key file is as the operation leaves it (`HalfDone`), a
buffered write is logged, and an item that its index lacks is in the buffer or
still to be replayed (`Repeats`), except for the keys of `early`, whose entries a
checkpoint has taken out of the replay. `ReadInv`
says that what a reader has found and has still to look at includes the index
file. `ExactInv` holds while the history is clean: every index is readable, names
another key only during its delete, and lacks an item only during its write.

`ShowInv` (in `FsdbStoreProofs`) adds what a reader sees: the value in the buffer
or the file is what a Load would restore, for every key of a running node except
those of a request that is logged and not yet merged, and during Load for every
key with nothing left to replay. Left out are the keys of `early` of which nothing
has been logged since (`Known`): the next logged operation makes a key known again.
It rests on `FileInv`: a file may change under a
reader only to the value that is logged for it. AnswersAreDurable is a part of
it; the refinement follows because each step either logs one request or leaves
`recovered` as it is for every key outside `early` (`ShowKept`).

BulkIsSequence is about operators and holds for batches of any length, with keys
repeated and files that no run reaches. The files after the first n calls of Set are described in
closed form (`SetUpTo`): an item is the last one of its key among them, an index has gained
the keys stored under it. If the description failed, it would fail first at some
n > 0, while one call takes it from n - 1 to n (`SetNext`). `DelUpTo` and
`DelNext` do the same for Del. BulkSet may list less than the calls
would: it does not list a key under the secondary key of an item that a later one
in the batch replaced, which the statement allows for.

`Fsdb.tla` assumes that the markers (no secondary key, no item, torn file,
nothing pending) differ from the values they stand beside.

### Not proved

- CommitProgress and Recovers: liveness under fairness is out of the prover's
  reach.
- AckSound and DeliveredAgree of `RaftRestart`: they hold for the instance of
  their run and not in general, for the reasons given in section 3.
- The five properties of the violation runs, which are false.

Where a proof needs an induction over numbers, `LeastNatural` takes its place:
the least member of a set of naturals, from the well-foundedness theorems.

## 5. Not modelled, and plan

Not modelled: configuration, encodings, HTTP helpers, SDK and generated code
(no state of interest); the event queue and the store aliases (unused);
Durability Buffered, MaxWalBytes and table blobs in checkpoints (the node does
not use them); power loss. Of the cache, the order of eviction and the clock: an
entry may leave at any time in `KV`, which includes every order. Frames of the
write-ahead logs are records; a torn last frame is the record that is not there.

Known of the code and not in a model: the cache key lacks the table
(`adapter.go:298`), so that two tables that share a key answer for each other;
`kv_deferred` has one table for that reason. BulkSet leaves the cache alone
(`adapter.go:74`), and a delete whose flush fails on another pending write
returns before it evicts (`adapter.go:202`). All three are in the list of
hazards.

Next, in this order:

1. `Raft`'s log shown to implement the environment of `Apply`: an abstract log
   in a module of its own, refined by both.
2. `Cache.tla`: LRU and TTL against a reference definition, and the delete that
   fails on another write.
3. Progress of the apply loop: what is committed is stored in the end by a node
   that stays a follower.
