--------------------------------- MODULE KV ---------------------------------
(***************************************************************************)
(* One node's key-value storage: db.Adapter over wal.WAL, fsdb's           *)
(* WriteBatcher and Db, and the cache, with the checkpoint that lets Load  *)
(* skip a prefix of the WAL, process crashes and restarts.                 *)
(*                                                                         *)
(* Three mutexes divide an operation into steps.  Adapter.mu is held for   *)
(* a whole client operation ("job"), WAL.mu for an append and for a whole  *)
(* checkpoint ("ckpt"), WriteBatcher.mu for a merge with the flush it      *)
(* causes.  The periodic tasks do not take Adapter.mu, so they run between *)
(* a job's append and its write to the store.                              *)
(*                                                                         *)
(* A crash ends the process, not the machine: what was handed to the       *)
(* operating system stays.  A key file holds a value, or was left torn by a *)
(* death in its write; secondary indexes are not part of this module.      *)
(***************************************************************************)
EXTENDS Integers, Sequences, FiniteSets, FiniteSetsExt

CONSTANTS
    Table, Key,     \* names
    Value,          \* values
    Versioned,      \* the values that carry a version, each one its own
    None,           \* no value: a missing key, a delete, a miss
    Torn,           \* a key file that a crash left truncated
    NotPending,     \* no entry in the batcher's map for a merge key
    NoVersion,      \* a request without an optimistic-lock version
    Order,          \* the merge keys, sorted as flushAllLocked sorts them
    Kinds,          \* the operations clients use
    Created,        \* the tables that exist at first
    Defer,          \* WriteBatcherOptions.DeferWrites
    MaxDirtyKeys,   \* WriteBatcherOptions.MaxDirtyKeys
    Periodic,       \* whether RunPeriodicWALCheckpoint runs
    EveryNWrites,   \* CheckpointPolicy.EveryNWrites; 0 = off
    Truncate,       \* CheckpointPolicy.TruncateAfterCheckpoint
    MaxSeq,         \* bound: entries ever appended to the WAL
    MaxCrashes      \* bound: crashes and shutdowns

MergeKey == Table \X Key
AnyValue == Value \cup {None}
File     == AnyValue \cup {Torn}

ASSUME NamesFinite == IsFiniteSet(Table) /\ IsFiniteSet(Key)
ASSUME NoValues == /\ None \notin Value /\ Versioned \subseteq Value
                   /\ NotPending \notin AnyValue /\ NoVersion \notin AnyValue
                   /\ Torn \notin AnyValue
ASSUME OrderSorts == /\ Order \in Seq(MergeKey)
                     /\ \A mk \in MergeKey : \E i \in DOMAIN Order : Order[i] = mk
                     /\ \A i, j \in DOMAIN Order : Order[i] = Order[j] => i = j
ASSUME OptionsTyped ==
    /\ Kinds \subseteq {"Set", "Delete", "BulkSet", "BulkDel"}
    /\ Created \subseteq Table
    /\ Defer \in BOOLEAN /\ Periodic \in BOOLEAN /\ Truncate \in BOOLEAN
    /\ EveryNWrites \in Nat /\ MaxDirtyKeys \in Nat \ {0}
    /\ MaxSeq \in Nat /\ MaxCrashes \in Nat

VARIABLES
    wal, lastSeq,          \* data.wal and checkpoint.cbor
    tables, files,         \* the table directories and their key files
    logged,                \* history: each key's value by the appended entries
    owed,                  \* history: the values clients may expect of a key
    mode,                  \* the process: "down", "loading" or "up"
    seq, writesSinceCkpt,  \* WAL fields
    pend,                  \* WriteBatcher.pend
    cache,                 \* what the cache holds for Adapter.key(k)
    job,                   \* the client operation that holds Adapter.mu
    ckpt,                  \* the checkpoint that holds WAL.mu
    crashes

disk    == <<wal, lastSeq, tables, files>>
history == <<logged, owed>>
memory  == <<seq, writesSinceCkpt, pend, cache, job, ckpt>>
vars    == <<disk, history, memory, mode, crashes>>

-----------------------------------------------------------------------------
(* Types *)

WalEntry == [seq : Nat \ {0}, table : Table, key : Key, val : AnyValue]

\* A client request: the keys it writes, None for the ones it deletes, and
\* the version it expects to replace; None is the empty version.
Items   == UNION {[ks -> AnyValue] : ks \in SUBSET Key}
Request == [kind : {"Set", "Delete", "BulkSet", "BulkDel"}, table : Table,
            items : Items, old : Versioned \cup {None, NoVersion}]

Idle   == [at |-> "idle"]
Job    == {Idle} \cup [at : {"auto", "logged"}, req : Request]
NoCkpt == [at |-> "idle", by |-> "task"]
Ckpt   == [at : {"idle", "flushed", "saved"}, by : {"task", "write", "load"}]

TypeOK ==
    /\ wal \in Seq(WalEntry) /\ lastSeq \in Nat
    /\ tables \subseteq Table
    /\ files \in [Table -> [Key -> File]]
    /\ logged \in [Table -> [Key -> AnyValue]]
    /\ owed \in [Table -> [Key -> SUBSET File]]
    /\ mode \in {"down", "loading", "up"}
    /\ seq \in Nat /\ writesSinceCkpt \in Nat
    /\ pend \in [MergeKey -> AnyValue \cup {NotPending}]
    /\ cache \in [Key -> AnyValue]
    /\ job \in Job /\ ckpt \in Ckpt
    /\ crashes \in Nat

-----------------------------------------------------------------------------
(* WriteBatcher over fsdb *)

\* The positions of p at which a flush fails: fsdb.Set without the table's
\* directory.  (Del of a missing key or table counts as done.)
failing(p) == {i \in DOMAIN Order : /\ p[Order[i]] \in Value
                                    /\ Order[i][1] \notin tables}

\* Mutant: merge keys with nothing to write are written too.
writtenAll(p, n) ==
    {Order[i] : i \in {j \in DOMAIN Order : j <= n /\ \A f \in failing(p) : j < f}}

\* The merge keys of p at the positions up to n of its order.
buffered(p, n) ==
    {Order[i] : i \in {j \in DOMAIN Order : j <= n /\ p[Order[j]] # NotPending}}

\* What flushAllLocked has applied of p when it has come as far as position n.
written(p, n) ==
    {Order[i] : i \in {j \in DOMAIN Order : /\ j <= n /\ p[Order[j]] # NotPending
                                            /\ \A f \in failing(p) : j < f}}

\* A file f after the operation op.  Db.Del of a file that cannot be decoded
\* is ErrNotFound, which counts as done, and the file stays.
fileAfter(f, op) == IF op = None /\ f = Torn THEN Torn ELSE op

filesAfter(f, p, done) == [t \in Table |-> [k \in Key |->
    IF <<t, k>> \in done THEN fileAfter(f[t][k], p[<<t, k>>]) ELSE f[t][k]]]

\* The files f when the process dies in a flush of p that has applied done:
\* between two files, or in the write of the next one, which os.WriteFile
\* truncates first.
cut(f, p, done, next) ==
    LET g == filesAfter(f, p, done)
    IN  {g} \cup {[g EXCEPT ![mk[1]][mk[2]] = Torn] :
                      mk \in {x \in next \ done : p[x] \in Value}}

pendAfter(p, done) == [mk \in MergeKey |->
    IF mk \in done THEN NotPending ELSE p[mk]]

\* flushAllLocked, to its end or to its first error.
flushAllLocked(p) ==
    LET done == written(p, Len(Order))
    IN  files' = filesAfter(files, p, done) /\ pend' = pendAfter(p, done)

\* Mutant: an operation already buffered is not replaced.
upsertFirst(p, r) == [mk \in MergeKey |->
    IF mk[1] = r.table /\ mk[2] \in DOMAIN r.items /\ p[mk] = NotPending
    THEN r.items[mk[2]] ELSE p[mk]]

\* The last operation on a merge key wins.
upsertLocked(p, r) == [mk \in MergeKey |->
    IF mk[1] = r.table /\ mk[2] \in DOMAIN r.items
    THEN r.items[mk[2]] ELSE p[mk]]

dirtyKeys(p) == Cardinality({mk \in MergeKey : p[mk] # NotPending})

\* Mutant: the buffer is not looked at.
GetFromFiles(t, k) == files[t][k]

\* WriteBatcher.Get; a torn file is an error.
StoreGet(t, k) == IF Defer /\ pend[<<t, k>>] # NotPending
                  THEN pend[<<t, k>>] ELSE files[t][k]

\* The value that a read brings, an error being none.
valueOf(f) == IF f = Torn THEN None ELSE f

-----------------------------------------------------------------------------
(* Cache *)

\* Mutant: a delete leaves the cached value.
cacheKeepsDeleted(r) == [k \in Key |->
    IF r.kind = "Set" /\ k \in DOMAIN r.items THEN r.items[k] ELSE cache[k]]

\* SaveIfOk, DelIfOk and Del after the store's success.  BulkSet does not
\* touch the cache.  The cache's key is made of k alone.
cacheAfter(r) == [k \in Key |->
    IF r.kind # "BulkSet" /\ k \in DOMAIN r.items THEN r.items[k] ELSE cache[k]]

-----------------------------------------------------------------------------
(* WAL *)

\* The positions of the entries Load replays.
replayed(w, n) == {i \in DOMAIN w : w[i].seq > n}

\* Mutant: the checkpoint's LastSeq is not looked at.
restoredFromWal(w, n) == Max({0} \cup {w[i].seq : i \in DOMAIN w})

\* w.seq after Load
restoredSeq(w, n) == Max({n} \cup {w[i].seq : i \in DOMAIN w})

\* The positions among is at which w has an entry for mk.
entriesFor(w, is, mk) == {i \in is : w[i].table = mk[1] /\ w[i].key = mk[2]}

\* The operations at the positions is of a WAL, merged per key.
merged(w, is) == [mk \in MergeKey |->
    IF entriesFor(w, is, mk) = {} THEN NotPending
                                 ELSE w[Max(entriesFor(w, is, mk))].val]

\* The files f when the entries at the positions is were applied one by one:
\* a torn file stays if they only delete.
replayedInto(f, w, is) == [t \in Table |-> [k \in Key |->
    LET es == entriesFor(w, is, <<t, k>>)
    IN  IF es = {} THEN f[t][k]
        ELSE fileAfter(IF \E i \in es : w[i].val \in Value THEN None ELSE f[t][k],
                       w[Max(es)].val)]]

\* What a restart now would bring back: the last entry that Load replays for
\* the key, or else its file.
restored(t, k) ==
    LET v == merged(wal, replayed(wal, lastSeq))[<<t, k>>]
    IN  IF v = NotPending THEN files[t][k] ELSE v

recovered(t, k) == valueOf(restored(t, k))

\* The orders in which a request can list its keys.
listings(r) == {o \in [1..Cardinality(DOMAIN r.items) -> DOMAIN r.items] :
                   \A i, j \in DOMAIN o : o[i] = o[j] => i = j}

\* The first n entries of r are appended and synced.  Until r is answered a
\* client may find its values or the ones before, or a torn file.
appendLocked(r, o, n) ==
    /\ wal' = wal \o [i \in 1..n |-> [seq |-> seq + i, table |-> r.table,
                                      key |-> o[i], val |-> r.items[o[i]]]]
    /\ logged' = [logged EXCEPT ![r.table] = [k \in Key |->
                     IF \E i \in 1..n : o[i] = k THEN r.items[k] ELSE @[k]]]
    /\ owed' = [owed EXCEPT ![r.table] = [k \in Key |->
                   IF \E i \in 1..n : o[i] = k THEN @[k] \cup {r.items[k], Torn}
                                              ELSE @[k]]]

-----------------------------------------------------------------------------
Init ==
    /\ wal = <<>> /\ lastSeq = 0
    /\ tables = Created
    /\ files  = [t \in Table |-> [k \in Key |-> None]]
    /\ logged = [t \in Table |-> [k \in Key |-> None]]
    /\ owed   = [t \in Table |-> [k \in Key |-> {None}]]
    /\ mode = "down" /\ seq = 0 /\ writesSinceCkpt = 0
    /\ pend  = [mk \in MergeKey |-> NotPending]
    /\ cache = [k \in Key |-> None]
    /\ job = Idle /\ ckpt = NoCkpt /\ crashes = 0

\* The process ends; its memory is gone.
Down ==
    /\ crashes < MaxCrashes
    /\ crashes' = crashes + 1
    /\ mode' = "down" /\ seq' = 0 /\ writesSinceCkpt' = 0
    /\ pend'  = [mk \in MergeKey |-> NotPending]
    /\ cache' = [k \in Key |-> None]
    /\ job' = Idle /\ ckpt' = NoCkpt

-----------------------------------------------------------------------------
(* Client operations: Adapter.Set, Delete, BulkSet, BulkDel and the
   ApplyReplicated forms, which are requests with old = NoVersion. *)

requests ==
    {r \in [kind : Kinds, table : Table, items : Items,
            old : Versioned \cup {None, NoVersion}] :
        /\ DOMAIN r.items # {}
        /\ \A k \in DOMAIN r.items :
              r.items[k] = None <=> r.kind \in {"Delete", "BulkDel"}
        /\ r.kind \in {"Set", "Delete"} => Cardinality(DOMAIN r.items) = 1
        /\ r.kind \in {"BulkSet", "BulkDel"} => r.old = NoVersion
        /\ r.kind = "Set" /\ r.old # NoVersion =>
              \A k \in DOMAIN r.items : r.items[k] \in Versioned}

\* A missing key, and a value stored without a version, has the empty one.
version(v) == IF v \in Versioned THEN v ELSE None

validateConsistency(r) ==
    r.old # NoVersion =>
        \A k \in DOMAIN r.items :
            LET v == StoreGet(r.table, k)
            IN  v # Torn /\ version(v) = r.old

mayLog(r) == /\ mode = "up" /\ job = Idle /\ ckpt.at = "idle"
             /\ validateConsistency(r)
             /\ seq + Cardinality(DOMAIN r.items) <= MaxSeq

\* The request of which the append is done and the write to the store is not.
atHand == IF job.at = "logged" THEN {job.req} ELSE {}

maybeAutoCheckpoint(w) == EveryNWrites > 0 /\ w >= EveryNWrites

\* An operation up to the return of its logdb call.  With EveryNWrites the
\* append that reaches it goes on to a checkpoint, WAL.mu still held.
LogRequest(r) ==
    LET n == Cardinality(DOMAIN r.items)
        w == IF EveryNWrites > 0 THEN writesSinceCkpt + n ELSE 0
    IN  /\ mayLog(r)
        /\ \E o \in listings(r) : appendLocked(r, o, n)
        /\ seq' = seq + n
        /\ writesSinceCkpt' = w
        /\ job' = [at  |-> IF maybeAutoCheckpoint(w) THEN "auto" ELSE "logged",
                   req |-> r]
        /\ UNCHANGED <<lastSeq, tables, files, pend, cache, ckpt, mode, crashes>>

\* The client is told that r is done.
acknowledge(r) == owed' = [owed EXCEPT ![r.table] = [k \in Key |->
    IF k \in DOMAIN r.items THEN {r.items[k]} ELSE @[k]]]

\* The rest of the operation: the batcher's Set, Del, BulkSet or BulkDel and,
\* if it succeeds, the cache.  Without DeferWrites every call flushes; with it
\* a full buffer does (in keys, or in bytes at any time).
ApplyRequest ==
    /\ job.at = "logged"
    /\ LET p == upsertLocked(pend, job.req)
       IN  \/ /\ Defer /\ dirtyKeys(p) < MaxDirtyKeys
              /\ pend' = p /\ cache' = cacheAfter(job.req)
              /\ UNCHANGED files
              /\ acknowledge(job.req)
           \/ /\ flushAllLocked(p)
              /\ IF failing(p) = {}
                 THEN cache' = cacheAfter(job.req) /\ acknowledge(job.req)
                 ELSE UNCHANGED <<cache, owed>>
    /\ job' = Idle
    /\ UNCHANGED <<wal, lastSeq, tables, logged, seq, writesSinceCkpt, ckpt,
                   mode, crashes>>

CreateTable(t) ==
    /\ mode = "up" /\ job = Idle
    /\ tables' = tables \cup {t}
    /\ UNCHANGED <<wal, lastSeq, files, history, memory, mode, crashes>>

\* Adapter.Get: a miss reads the store and caches what it finds.
Get(t, k) ==
    /\ mode = "up" /\ job = Idle
    /\ cache' = [cache EXCEPT ![k] = IF @ = None THEN valueOf(StoreGet(t, k)) ELSE @]
    /\ UNCHANGED <<disk, history, seq, writesSinceCkpt, pend, job, ckpt, mode,
                   crashes>>

\* The capacity limit or the TTL drops an entry.
Evict(k) ==
    /\ mode = "up" /\ cache[k] # None
    /\ cache' = [cache EXCEPT ![k] = None]
    /\ UNCHANGED <<disk, history, seq, writesSinceCkpt, pend, job, ckpt, mode,
                   crashes>>

\* Adapter.GetBySecondaryKey flushes before it reads; so does, without
\* Adapter.mu, the periodic flush of deferred writes.
Flush ==
    /\ mode = "up"
    /\ job = Idle \/ Defer
    /\ flushAllLocked(pend)
    /\ UNCHANGED <<wal, lastSeq, tables, history, seq, writesSinceCkpt, cache,
                   job, ckpt, mode, crashes>>

-----------------------------------------------------------------------------
(* WAL.Checkpoint: by the periodic task, by a write, and at the end of Load *)

mayCheckpoint(by) ==
    \/ by = "task"  /\ Periodic /\ mode = "up" /\ job.at # "auto"
    \/ by = "write" /\ job.at = "auto"
    \/ by = "load"  /\ mode = "loading"

\* WAL.mu is released; the caller goes on.
checkpointDone ==
    /\ ckpt' = NoCkpt
    /\ writesSinceCkpt' = 0
    /\ job'  = IF ckpt.by = "write" THEN [job EXCEPT !.at = "logged"] ELSE job
    /\ mode' = IF ckpt.by = "load" THEN "up" ELSE mode

\* Mutant: BeforeCheckpoint is not set.
CheckpointUnflushed(by) ==
    /\ ckpt.at = "idle"
    /\ mayCheckpoint(by)
    /\ ckpt' = [at |-> "flushed", by |-> by]
    /\ UNCHANGED <<disk, history, seq, writesSinceCkpt, pend, cache, job, mode,
                   crashes>>

\* BeforeCheckpoint.  When it fails the checkpoint is abandoned, and a write
\* that was making it returns the error without touching the store.
CheckpointFlush(by) ==
    /\ ckpt.at = "idle"
    /\ mayCheckpoint(by)
    /\ flushAllLocked(pend)
    /\ IF failing(pend) = {}
       THEN ckpt' = [at |-> "flushed", by |-> by] /\ UNCHANGED job
       ELSE /\ job' = IF by = "write" THEN Idle ELSE job
            /\ UNCHANGED ckpt
    /\ UNCHANGED <<wal, lastSeq, tables, history, seq, writesSinceCkpt, cache,
                   mode, crashes>>

SaveLastSeq ==
    /\ ckpt.at = "flushed"
    /\ lastSeq' = seq
    /\ IF Truncate
       THEN /\ ckpt' = [ckpt EXCEPT !.at = "saved"]
            /\ UNCHANGED <<writesSinceCkpt, job, mode>>
       ELSE checkpointDone
    /\ UNCHANGED <<wal, tables, files, history, seq, pend, cache, crashes>>

TruncateWal ==
    /\ ckpt.at = "saved"
    /\ wal' = <<>>
    /\ checkpointDone
    /\ UNCHANGED <<lastSeq, tables, files, history, seq, pend, cache, crashes>>

-----------------------------------------------------------------------------
(* Start, crash, shutdown *)

\* Load up to its checkpoint: each entry's table is created and the entry
\* goes through the batcher.
Load ==
    LET is == replayed(wal, lastSeq)
        p  == merged(wal, is)
    IN  /\ mode = "down"
        /\ mode' = "loading"
        /\ tables' = tables \cup {wal[i].table : i \in is}
        /\ IF Defer THEN pend' = p /\ UNCHANGED files
                    ELSE files' = replayedInto(files, wal, is) /\ UNCHANGED pend
        /\ seq' = restoredSeq(wal, lastSeq)
        /\ UNCHANGED <<wal, lastSeq, history, writesSinceCkpt, cache, job, ckpt,
                       crashes>>

\* The process dies in Load: the entries up to the m-th are in the files, and
\* of those up to the n-th, with DeferWrites a full buffer, some may be.
CrashInLoad ==
    /\ mode = "down"
    /\ \E n \in replayed(wal, lastSeq) : \E m \in 0..n :
          LET is   == {i \in replayed(wal, lastSeq) : i <= m}
              next == {i \in replayed(wal, lastSeq) : m < i /\ i <= n}
              p    == merged(wal, next)
          IN  /\ Defer \/ n <= m + 1
              /\ tables' = tables \cup {wal[i].table : i \in is \cup next}
              /\ \E j \in 0..Len(Order) :
                    files' \in cut(replayedInto(files, wal, is), p,
                                   buffered(p, j), buffered(p, j + 1))
    /\ Down
    /\ UNCHANGED <<wal, lastSeq, history>>

\* The process dies while the frames of r are appended; a torn frame is cut
\* off by the next Load.
CrashInLog(r) ==
    /\ mayLog(r)
    /\ \E o \in listings(r) : \E n \in 0..(Cardinality(DOMAIN r.items) - 1) :
          appendLocked(r, o, n)
    /\ Down
    /\ UNCHANGED <<lastSeq, tables, files>>

\* It dies anywhere else: n counts how far a flush in progress had come, of
\* the buffer or of the buffer with the operation at hand.
Crash ==
    /\ mode # "down"
    /\ \E p \in {pend} \cup {upsertLocked(pend, r) : r \in atHand} :
          \E n \in 0..Len(Order) :
              files' \in cut(files, p, written(p, n), written(p, n + 1))
    /\ Down
    /\ UNCHANGED <<wal, lastSeq, tables, history>>

\* Adapter.Close: one flush, whose error is ignored; no checkpoint.
Close ==
    /\ mode = "up" /\ job = Idle /\ ckpt.at = "idle"
    /\ files' = filesAfter(files, pend, written(pend, Len(Order)))
    /\ Down
    /\ UNCHANGED <<wal, lastSeq, tables, history>>

-----------------------------------------------------------------------------
Next ==
    \/ \E r \in requests : LogRequest(r) \/ CrashInLog(r)
    \/ ApplyRequest
    \/ \E t \in Table : CreateTable(t)
    \/ \E t \in Table, k \in Key : Get(t, k)
    \/ \E k \in Key : Evict(k)
    \/ Flush
    \/ \E by \in {"task", "write", "load"} : CheckpointFlush(by)
    \/ SaveLastSeq \/ TruncateWal
    \/ Load \/ CrashInLoad \/ Crash \/ Close

Spec == Init /\ [][Next]_vars

-----------------------------------------------------------------------------
(* Properties *)

\* "durable on-disk state and BeforeCheckpoint completion must cover every
\* Seq <= w.seq before SaveLastSeq; otherwise recovery could skip WAL entries
\* that were never materialized" (wal.go:266): at every moment, a crash and
\* Load would bring back the value of the last entry appended for each key.
CheckpointCovers ==
    \A t \in Table, k \in Key : recovered(t, k) = logged[t][k]

\* What a client was told is done survives: at every moment, a crash and Load
\* would leave each key with the value of its last acknowledged write or of a
\* later one that was not acknowledged, although the checkpoint's lastSeq may
\* be ahead of the files by the write that is between WAL and store.  That
\* write may tear the file, if the process dies in os.WriteFile (base.go:286);
\* no other file is ever found torn, except where a delete counts as done.
AcknowledgedSurvive ==
    \A t \in Table, k \in Key :
        LET v == restored(t, k)
        IN  v \in owed[t][k] \/ (v = Torn /\ None \in owed[t][k])

\* A write with an optimistic-lock version is logged only over a value of the
\* version it names, also when that value is still in the batcher's buffer or
\* was brought back by Load.
OverExpected ==
    job = Idle /\ job' # Idle =>
        LET r == job'.req
        IN  r.old # NoVersion =>
                \A k \in DOMAIN r.items : version(logged[r.table][k]) = r.old

NoLostUpdate == [][OverExpected]_vars

visible(t, k) == IF cache[k] # None THEN cache[k] ELSE valueOf(StoreGet(t, k))

\* Between operations Get answers with the last value logged for the key,
\* through cache fills, evictions, flushes, crashes and recovery.  (For a key
\* whose last operation is a delete the answer may be an error: a torn file.)
ServesLatest ==
    mode = "up" /\ job = Idle =>
        \A t \in tables, k \in Key : visible(t, k) = logged[t][k]

DurableMap == INSTANCE Store WITH
    val    <- [t \in Table |-> [k \in Key |-> recovered(t, k)]],
    number <- restoredSeq(wal, lastSeq)

\* What the WAL, the checkpoint file, the buffer and the key files make
\* together is the map of module Store: what a restart would bring back
\* changes when a request's entries are appended, in the keys of those
\* entries, and never in a flush, a checkpoint, a truncation, a crash or Load.
ImplementsStore == DurableMap!Spec
=============================================================================
