-------------------------------- MODULE Fsdb --------------------------------
(***************************************************************************)
(* One table of fsdb.Db under the WriteBatcher, with its secondary         *)
(* indexes: a file per item and a file per secondary key that lists the    *)
(* keys of its items.  A Set or Del of the store is two file writes, and a *)
(* crash may come between them or inside one.                              *)
(*                                                                         *)
(* Three goroutines may be at work: a client operation, which holds        *)
(* Adapter.mu to its end, the periodic flush, and the periodic checkpoint, *)
(* which holds WAL.mu to its end.  They meet at WriteBatcher.mu ("batch"   *)
(* is who holds it and how far the flush is) and at the table's RWMutex,   *)
(* which is held for writing from "file" on and for reading while a        *)
(* GetBySk is at "items".                                                  *)
(*                                                                         *)
(* An item is abstracted to its secondary key.  The table exists, and the  *)
(* WAL is what Load would replay, the entries after LastSeq: how they are  *)
(* numbered and when the file is truncated is in KV.                       *)
(***************************************************************************)
EXTENDS Integers, Sequences, FiniteSets, SequencesExt

CONSTANTS
    Key, Sk,
    NoSk,           \* the secondary key "" of an item without one
    None,           \* no file for the key; as an operation, a delete
    Torn,           \* a file that a crash left truncated: it cannot be decoded
    NotPending,     \* no operation in the batcher's map
    Order,          \* the keys as flushAllLocked sorts them
    DeferWrites,    \* the values the option of that name may have
    MaxOps,         \* bound: entries ever logged
    MaxCreates,     \* bound: CreateTable calls by clients
    MaxCrashes      \* bound: crashes

Item == Sk \cup {NoSk}
Op   == Item \cup {None}

ASSUME OrderSorts == /\ Order \in Seq(Key)
                     /\ \A k \in Key : \E i \in DOMAIN Order : Order[i] = k
ASSUME NoItems == /\ NoSk \notin Sk /\ None \notin Item
                  /\ Torn \notin Op /\ \A ks \in SUBSET Key : ks # Torn
                  /\ NotPending \notin Op
ASSUME FsdbOptions == /\ DeferWrites \subseteq BOOLEAN /\ MaxOps \in Nat
                      /\ MaxCreates \in Nat /\ MaxCrashes \in Nat

VARIABLES
    disk,           \* the files: key, and sk (no file when empty)
    wal,            \* the entries Load would replay
    mode, replayed, \* the process, and how many entries Load has applied
    pend,           \* WriteBatcher.pend
    batch,          \* WriteBatcher.mu and the flush that holds it
    ckpt,           \* whether a checkpoint is between flush and SaveLastSeq
    client,         \* the operation that holds Adapter.mu
    defer,          \* WriteBatcherOptions.DeferWrites
    mapped,         \* whether TbMutex has an entry for the table
    ops, creates, crashes,
    clean,          \* history: no item changed its secondary key, no crash
                    \* cut a flush in the middle of an operation
    early           \* history: the keys for which a checkpoint has saved a
                    \* LastSeq ahead of the files, and no operation is done
                    \* since

bounds == <<ops, creates, crashes, defer>>
history == <<clean, early>>
vars == <<disk, wal, mode, replayed, pend, batch, ckpt, client, mapped, bounds, history>>

-----------------------------------------------------------------------------
(* Types *)

Batches  == UNION {[ks -> Op] : ks \in SUBSET Key}
NoBatch  == [by |-> "nobody"]
Idle     == [at |-> "idle"]

Batch == {NoBatch} \cup
    [by : {"client", "task", "checkpoint", "load"}, at : {"lock", "waiting", "file", "index"},
     key : Key, sk : Item, replaced : BOOLEAN]

Client == {Idle}
    \cup [at : {"logged"}, items : Batches]
    \cup [at : {"writing"}]
    \cup [at : {"flushing", "rlock"}, sk : Sk]
    \cup [at : {"items"}, sk : Sk, todo : SUBSET Key, found : SUBSET Key]
    \cup [at : {"found"}, sk : Sk, found : SUBSET Key]
    \cup [at : {"get", "reading"}]

TypeOK ==
    /\ disk \in [key : [Key -> Op \cup {Torn}], sk : [Sk -> (SUBSET Key) \cup {Torn}]]
    /\ wal \in Seq([key : Key, op : Op])
    /\ mode \in {"down", "loading", "up"} /\ replayed \in 0..Len(wal)
    /\ pend \in [Key -> Op \cup {NotPending}]
    /\ batch \in Batch /\ client \in Client
    /\ ckpt \in {"idle", "flushed"}
    /\ mapped \in BOOLEAN /\ clean \in BOOLEAN /\ defer \in DeferWrites
    /\ early \subseteq Key
    /\ ops \in 0..MaxOps /\ creates \in 0..MaxCreates /\ crashes \in 0..MaxCrashes

-----------------------------------------------------------------------------
(* Files *)

writeKeyFile(d, k, item) == [d EXCEPT !.key[k] = item]
removeKeyFile(d, k)      == [d EXCEPT !.key[k] = None]

\* Whether getKeys decodes the index file, a missing one included.
readable(d, sk) == d.sk[sk] # Torn

appendKeysToSk(d, sk, ks) == [d EXCEPT !.sk[sk] = @ \cup ks]

\* An emptied index file is removed.
removeKeysFromSk(d, sk, ks) == [d EXCEPT !.sk[sk] = @ \ ks]

\* Db.get: the item can be read.
exists(d, k) == d.key[k] \in Item

-----------------------------------------------------------------------------
(* BulkSet and BulkDel of Db, as functions of the files.  The node reaches
   Db through the batcher, which calls Set and Del only.  The concurrent
   writes of the key files and their errors are not here. *)

\* Mutant: the first entity of a key counts.
dedupeKeepsFirst(es) == [k \in {es[i].key : i \in DOMAIN es} |->
    LET is == {i \in DOMAIN es : es[i].key = k}
    IN  es[CHOOSE i \in is : \A j \in is : i <= j].item]

\* The last entity of a key counts.
dedupeByKey(es) == [k \in {es[i].key : i \in DOMAIN es} |->
    LET is == {i \in DOMAIN es : es[i].key = k}
    IN  es[CHOOSE i \in is : \A j \in is : i >= j].item]

BulkSet(d, es) ==
    LET last    == dedupeByKey(es)
        keys(s) == {k \in DOMAIN last : last[k] = s}
    IN  [key |-> [k \in Key |-> IF k \in DOMAIN last THEN last[k] ELSE d.key[k]],
         sk  |-> [s \in Sk |-> d.sk[s] \cup keys(s)]]

BulkDel(d, ks) ==
    LET victims == {k \in ks : exists(d, k)}
        gone(s) == {k \in victims : d.key[k] = s}
    IN  [key |-> [k \in Key |-> IF k \in victims THEN None ELSE d.key[k]],
         sk  |-> [s \in Sk |-> d.sk[s] \ gone(s)]]

\* The same by Set and Del, one after the other.
setOne(d, e) ==
    LET w == writeKeyFile(d, e.key, e.item)
    IN  IF e.item = NoSk THEN w ELSE appendKeysToSk(w, e.item, {e.key})

\* Without the error of a missing index file: the files are the same.
delOne(d, k) ==
    IF ~exists(d, k) THEN d
    ELSE LET r == removeKeyFile(d, k)
         IN  IF d.key[k] = NoSk THEN r ELSE removeKeysFromSk(r, d.key[k], {k})

doOne(d, e) == IF e.item = None THEN delOne(d, e.key) ELSE setOne(d, e)

doAll(d, es) ==
    LET after[n \in 0..Len(es)] == IF n = 0 THEN d ELSE doOne(after[n - 1], es[n])
    IN  after[Len(es)]

-----------------------------------------------------------------------------
Init ==
    /\ disk = [key |-> [k \in Key |-> None], sk |-> [s \in Sk |-> {}]]
    /\ wal = <<>> /\ mode = "down" /\ replayed = 0
    /\ pend = [k \in Key |-> NotPending]
    /\ batch = NoBatch /\ ckpt = "idle" /\ client = Idle /\ mapped = FALSE
    /\ ops = 0 /\ creates = 0 /\ crashes = 0 /\ clean = TRUE /\ early = {}
    /\ defer \in DeferWrites

pending(p) == {k \in Key : p[k] # NotPending}

first(p) == Order[CHOOSE i \in DOMAIN Order :
    /\ Order[i] \in pending(p)
    /\ \A j \in 1..(i - 1) : Order[j] \notin pending(p)]

\* flushAllLocked begins, or goes on with the next key.
flushFrom(by, p) == [by |-> by, at |-> "lock", key |-> first(p), sk |-> NoSk,
                     replaced |-> FALSE]

\* The process is gone, and its memory.
Down ==
    /\ mode' = "down" /\ replayed' = 0 /\ mapped' = FALSE
    /\ pend' = [k \in Key |-> NotPending]
    /\ batch' = NoBatch /\ ckpt' = "idle" /\ client' = Idle

-----------------------------------------------------------------------------
(* Writes of a client *)

\* Adapter.mu is free: it is held through every operation.
mayStart == mode = "up" /\ client = Idle

\* No checkpoint holds WAL.mu.
walFree == ckpt = "idle" /\ batch.by # "checkpoint"

requests == {r \in Batches : /\ DOMAIN r # {}
                             /\ \/ \A k \in DOMAIN r : r[k] = None
                                \/ \A k \in DOMAIN r : r[k] # None}

\* Adapter.Set, Delete, BulkSet or BulkDel: the WAL has its entries.
LogRequest(r) ==
    LET ks == SetToSeq(DOMAIN r)
    IN  /\ mayStart /\ walFree
        /\ ops + Len(ks) <= MaxOps
        /\ ops' = ops + Len(ks)
        /\ wal' = wal \o [i \in DOMAIN ks |-> [key |-> ks[i], op |-> r[ks[i]]]]
        /\ client' = [at |-> "logged", items |-> r]
        /\ UNCHANGED <<disk, mode, replayed, pend, batch, mapped, creates, crashes, defer, ckpt, history>>

\* Mutant: an operation that waits in the buffer is not replaced.
mergeKeepsOlder(r) ==
    [k \in Key |-> IF k \in DOMAIN r /\ pend[k] = NotPending THEN r[k] ELSE pend[k]]

merge(r) == [k \in Key |-> IF k \in DOMAIN r THEN r[k] ELSE pend[k]]

\* WriteBatcher.Set, Del, BulkSet, BulkDel up to the flush, if there is one:
\* always without DeferWrites, with it when a limit is reached.
Merge ==
    /\ client.at = "logged" /\ batch = NoBatch
    /\ pend' = merge(client.items)
    /\ \/ defer /\ client' = Idle /\ UNCHANGED batch
       \/ client' = [at |-> "writing"] /\ batch' = flushFrom("client", pend')
    /\ UNCHANGED <<disk, wal, mode, replayed, mapped, ckpt, bounds, history>>

\* Adapter.CreateTable for the table that exists: a new mutex in the map.
CreateTable ==
    /\ mayStart /\ creates < MaxCreates
    /\ creates' = creates + 1
    /\ mapped' = TRUE
    /\ batch' = IF batch # NoBatch /\ batch.at # "lock"
                THEN [batch EXCEPT !.replaced = TRUE] ELSE batch
    /\ UNCHANGED <<disk, wal, mode, replayed, pend, client, ops, crashes, defer, ckpt, history>>

-----------------------------------------------------------------------------
(* A flush, by whoever holds WriteBatcher.mu *)

\* RunPeriodicFSFlush
TaskFlush ==
    /\ mode = "up" /\ defer /\ batch = NoBatch /\ pending(pend) # {}
    /\ batch' = flushFrom("task", pend)
    /\ UNCHANGED <<disk, wal, mode, replayed, pend, client, mapped, ckpt, bounds, history>>

\* WAL.Checkpoint by RunPeriodicWALCheckpoint: BeforeCheckpoint flushes.
CheckpointFlush ==
    /\ mode = "up" /\ walFree /\ batch = NoBatch
    /\ IF pending(pend) = {}
       THEN ckpt' = "flushed" /\ UNCHANGED batch
       ELSE batch' = flushFrom("checkpoint", pend) /\ UNCHANGED ckpt
    /\ UNCHANGED <<disk, wal, mode, replayed, pend, client, mapped, bounds, history>>

\* The client's request is logged and has not reached the buffer.
atHand(k) == client.at = "logged" /\ k \in DOMAIN client.items

\* An operation on k is logged and not in the files.
unwritten(k) == pend[k] # NotPending \/ atHand(k)

\* Load will skip every entry that is in the WAL now.
SaveLastSeq ==
    /\ ckpt = "flushed"
    /\ ckpt' = "idle"
    /\ wal' = <<>>
    /\ early' = early \cup {k \in Key : unwritten(k)}
    /\ UNCHANGED <<disk, mode, replayed, pend, batch, client, mapped, bounds, clean>>

reading == client.at \in {"items", "reading"}

\* TbMutex.Lock finds a reader: new readers wait from now on.
LockWaits ==
    /\ batch # NoBatch /\ batch.at = "lock" /\ reading
    /\ batch' = [batch EXCEPT !.at = "waiting"]
    /\ mapped' = TRUE
    /\ UNCHANGED <<disk, wal, mode, replayed, pend, client, ckpt, bounds, history>>

Lock ==
    /\ batch # NoBatch /\ batch.at \in {"lock", "waiting"}
    /\ batch.replaced \/ ~reading
    /\ batch' = [batch EXCEPT !.at = "file"]
    /\ mapped' = TRUE
    /\ UNCHANGED <<disk, wal, mode, replayed, pend, client, ckpt, bounds, history>>

\* applyOneLocked and TbMutex.Unlock: the operation succeeded, its entry is
\* deleted and the flush goes on; or it failed and the flush returns, which
\* ends a checkpoint.  When Load gets the error the process exits.  Unlock of
\* a mutex that is not the one that was locked is a fatal error of the runtime.
endOp(ok) ==
    LET p     == IF ok THEN [pend EXCEPT ![batch.key] = NotPending] ELSE pend
        ended == ~ok \/ pending(p) = {}
    IN  IF batch.replaced \/ (~ok /\ batch.by = "load")
        THEN Down /\ UNCHANGED early
        ELSE /\ pend' = p
             /\ batch' = IF ended THEN NoBatch ELSE flushFrom(batch.by, p)
             /\ ckpt' = IF ok /\ ended /\ batch.by = "checkpoint"
                        THEN "flushed" ELSE ckpt
             /\ early' = IF ok /\ ~atHand(batch.key) THEN early \ {batch.key} ELSE early
             /\ client' = IF ~ended \/ batch.by # "client" THEN client
                          ELSE IF ok /\ client.at = "flushing"
                          THEN [client EXCEPT !.at = "rlock"] ELSE Idle
             /\ UNCHANGED <<mode, replayed, mapped>>

goToIndex(sk) ==
    /\ batch' = [batch EXCEPT !.at = "index", !.sk = sk]
    /\ UNCHANGED <<mode, replayed, pend, ckpt, client, mapped, early>>

inFile == batch # NoBatch /\ batch.at = "file"

\* Db.setLocked: the key file is written.
SetFile ==
    LET k == batch.key
    IN  /\ inFile /\ pend[k] # None
        /\ disk' = writeKeyFile(disk, k, pend[k])
        /\ clean' = (clean /\ (disk.key[k] \in Sk => pend[k] = disk.key[k]))
        /\ IF pend[k] = NoSk THEN endOp(TRUE) ELSE goToIndex(pend[k])
        /\ UNCHANGED <<wal, bounds>>

\* Mutant: a key that is not there fails the flush.
missingFails == FALSE

\* applyOneLocked on ErrNotFound
missingIsDone == TRUE

\* Db.Del: an item that cannot be read is ErrNotFound; else its file goes.
DelFile ==
    LET k == batch.key
    IN  /\ inFile /\ pend[k] = None
        /\ IF ~exists(disk, k)
           THEN endOp(missingIsDone) /\ UNCHANGED disk
           ELSE /\ disk' = removeKeyFile(disk, k)
                /\ IF disk.key[k] = NoSk THEN endOp(TRUE) ELSE goToIndex(disk.key[k])
        /\ UNCHANGED <<wal, bounds, clean>>

inIndex == batch # NoBatch /\ batch.at = "index"

\* The secondary index is rewritten.  An index that cannot be decoded is an
\* error, and for Del so is a missing one (ErrNotFoundSk).
SetIndex ==
    /\ inIndex /\ pend[batch.key] # None
    /\ IF readable(disk, batch.sk)
       THEN disk' = appendKeysToSk(disk, batch.sk, {batch.key}) /\ endOp(TRUE)
       ELSE UNCHANGED disk /\ endOp(FALSE)
    /\ UNCHANGED <<wal, bounds, clean>>

\* Mutant: the key stays in the index.
DelIndexSkipped ==
    /\ inIndex /\ pend[batch.key] = None
    /\ endOp(TRUE)
    /\ UNCHANGED <<disk, wal, bounds, clean>>

DelIndex ==
    /\ inIndex /\ pend[batch.key] = None
    /\ IF readable(disk, batch.sk) /\ disk.sk[batch.sk] # {}
       THEN disk' = removeKeysFromSk(disk, batch.sk, {batch.key}) /\ endOp(TRUE)
       ELSE UNCHANGED disk /\ endOp(FALSE)
    /\ UNCHANGED <<wal, bounds, clean>>

-----------------------------------------------------------------------------
(* Reads of a client *)

\* Mutant: the buffer is not flushed.
GetBySkUnflushed(s) ==
    /\ mayStart /\ batch = NoBatch
    /\ client' = [at |-> "rlock", sk |-> s]
    /\ UNCHANGED <<disk, wal, mode, replayed, pend, batch, mapped, ckpt, bounds, history>>

\* Adapter.GetBySecondaryKey: WriteBatcher.GetBySk flushes first.
GetBySk(s) ==
    /\ mayStart /\ batch = NoBatch
    /\ IF pending(pend) = {}
       THEN client' = [at |-> "rlock", sk |-> s] /\ UNCHANGED batch
       ELSE /\ client' = [at |-> "flushing", sk |-> s]
            /\ batch' = flushFrom("client", pend)
    /\ UNCHANGED <<disk, wal, mode, replayed, pend, mapped, ckpt, bounds, history>>

\* A writer holds the mutex, or waits for it.
rlockBlocked == /\ batch # NoBatch /\ ~batch.replaced
                /\ batch.at \in {"waiting", "file", "index"}

\* Db.GetBySk: RLock and the index file, whose errors end the request.
ReadIndex ==
    /\ client.at = "rlock" /\ ~rlockBlocked
    /\ client' = IF readable(disk, client.sk) /\ disk.sk[client.sk] # {}
                 THEN [at |-> "items", sk |-> client.sk,
                       todo |-> disk.sk[client.sk], found |-> {}]
                 ELSE Idle
    /\ mapped' = TRUE
    /\ UNCHANGED <<disk, wal, mode, replayed, pend, batch, ckpt, bounds, history>>

\* Mutant: the last key is left out.
ReadItemStopsEarly(k) ==
    /\ client.at = "items" /\ k \in client.todo /\ ~rlockBlocked
    /\ client' = IF ~exists(disk, k) THEN Idle
                 ELSE [at |-> "found", sk |-> client.sk, found |-> {k}]
    /\ UNCHANGED <<disk, wal, mode, replayed, pend, batch, mapped, ckpt, bounds, history>>

\* Db.Get of a listed key, which takes the read lock a second time.  The
\* first that is missing ends the request.
ReadItem(k) ==
    /\ client.at = "items" /\ k \in client.todo /\ ~rlockBlocked
    /\ client' = IF ~exists(disk, k) THEN Idle
                 ELSE IF client.todo = {k}
                 THEN [at |-> "found", sk |-> client.sk, found |-> client.found \cup {k}]
                 ELSE [client EXCEPT !.todo = @ \ {k}, !.found = @ \cup {k}]
    /\ UNCHANGED <<disk, wal, mode, replayed, pend, batch, mapped, ckpt, bounds, history>>

\* The items are sent to the client.
Answer ==
    /\ client.at = "found"
    /\ client' = Idle
    /\ UNCHANGED <<disk, wal, mode, replayed, pend, batch, mapped, ckpt, bounds, history>>

\* WriteBatcher.Get: b.mu for a look at the buffer, then Db.Get without it.
Get(k) ==
    /\ mayStart /\ batch = NoBatch
    /\ ~(defer /\ pend[k] # NotPending)
    /\ client' = [at |-> "get"]
    /\ UNCHANGED <<disk, wal, mode, replayed, pend, batch, mapped, ckpt, bounds, history>>

RLock ==
    /\ client.at = "get" /\ ~rlockBlocked
    /\ client' = [at |-> "reading"]
    /\ mapped' = TRUE
    /\ UNCHANGED <<disk, wal, mode, replayed, pend, batch, ckpt, bounds, history>>

RUnlock ==
    /\ client.at = "reading"
    /\ client' = Idle
    /\ UNCHANGED <<disk, wal, mode, replayed, pend, batch, mapped, ckpt, bounds, history>>

-----------------------------------------------------------------------------
(* Start, and the ends of a process *)

\* The process starts with WAL.Load.
Load ==
    /\ mode = "down"
    /\ mode' = "loading"
    /\ UNCHANGED <<disk, wal, replayed, pend, batch, client, mapped, ckpt, bounds, history>>

\* Mutant: an entry is skipped when its key file is as it says.
ReplaySkipsWritten ==
    /\ mode = "loading" /\ batch = NoBatch /\ replayed < Len(wal)
    /\ replayed' = replayed + 1
    /\ LET e == wal[replayed + 1]
       IN  pend' = IF disk.key[e.key] = e.op THEN pend ELSE [pend EXCEPT ![e.key] = e.op]
    /\ \/ (defer \/ pending(pend') = {}) /\ UNCHANGED batch
       \/ pending(pend') # {} /\ batch' = flushFrom("load", pend')
    /\ mapped' = TRUE
    /\ UNCHANGED <<disk, wal, mode, client, ckpt, bounds, history>>

\* applyEntry: CreateTable, and the entry goes to the batcher.
Replay ==
    /\ mode = "loading" /\ batch = NoBatch /\ replayed < Len(wal)
    /\ replayed' = replayed + 1
    /\ LET e == wal[replayed + 1]
       IN  pend' = [pend EXCEPT ![e.key] = e.op]
    /\ \/ defer /\ UNCHANGED batch
       \/ batch' = flushFrom("load", pend')
    /\ mapped' = TRUE
    /\ UNCHANGED <<disk, wal, mode, client, ckpt, bounds, history>>

\* Mutant: the next Load begins where this one stopped.
LoadKeepsPosition ==
    /\ mode = "loading" /\ batch = NoBatch /\ replayed = Len(wal)
    /\ IF pending(pend) # {}
       THEN batch' = flushFrom("load", pend) /\ UNCHANGED <<wal, mode>>
       ELSE wal' = <<>> /\ mode' = "up" /\ UNCHANGED batch
    /\ UNCHANGED <<disk, pend, client, mapped, ckpt, bounds, history, replayed>>

\* Mutant: the WAL's entries are done with although some are in the buffer.
LoadUnflushed ==
    /\ mode = "loading" /\ batch = NoBatch /\ replayed = Len(wal)
    /\ wal' = <<>> /\ mode' = "up" /\ replayed' = 0
    /\ UNCHANGED <<disk, pend, batch, client, mapped, ckpt, bounds, history>>

\* Its checkpoint: flush, then the WAL's entries are done with.
LoadCheckpoint ==
    /\ mode = "loading" /\ batch = NoBatch /\ replayed = Len(wal)
    /\ IF pending(pend) # {}
       THEN batch' = flushFrom("load", pend) /\ UNCHANGED <<wal, mode, replayed>>
       ELSE wal' = <<>> /\ mode' = "up" /\ replayed' = 0 /\ UNCHANGED batch
    /\ UNCHANGED <<disk, pend, client, mapped, ckpt, bounds, history>>

\* Whether the index step writes the file, and does not remove it.
rewrites == /\ inIndex /\ readable(disk, batch.sk)
            /\ IF pend[batch.key] = None THEN disk.sk[batch.sk] \ {batch.key} # {}
               ELSE batch.key \notin disk.sk[batch.sk]

\* The process dies, perhaps in os.WriteFile, which truncates first.
Crash ==
    /\ mode # "down" /\ crashes < MaxCrashes
    /\ crashes' = crashes + 1
    /\ \/ disk' = disk
       \/ inFile /\ pend[batch.key] # None /\ disk' = writeKeyFile(disk, batch.key, Torn)
       \/ rewrites /\ disk' = [disk EXCEPT !.sk[batch.sk] = Torn]
    /\ clean' = (clean /\ disk' = disk /\ ~(inIndex /\ pend[batch.key] = None))
    /\ Down
    /\ UNCHANGED <<wal, ops, creates, defer, early>>

\* Two goroutines look up a table that the map lacks and both insert: the
\* runtime detects the race, or one of them unlocks the other's mutex.
MapRace ==
    /\ ~mapped /\ client.at \in {"rlock", "get"}
    /\ batch # NoBatch /\ batch.at = "lock"
    /\ Down
    /\ UNCHANGED <<disk, wal, bounds, history>>

-----------------------------------------------------------------------------
FlushStep == Lock \/ LockWaits \/ SetFile \/ DelFile \/ SetIndex \/ DelIndex

LoadStep == Load \/ Replay \/ LoadCheckpoint

Next ==
    \/ \E r \in requests : LogRequest(r)
    \/ Merge
    \/ CreateTable
    \/ TaskFlush
    \/ CheckpointFlush \/ SaveLastSeq
    \/ FlushStep
    \/ \E s \in Sk : GetBySk(s)
    \/ ReadIndex
    \/ \E k \in Key : ReadItem(k)
    \/ Answer
    \/ \E k \in Key : Get(k)
    \/ RLock
    \/ RUnlock
    \/ LoadStep
    \/ Crash
    \/ MapRace

\* A process that is started goes on with Load and with the flush it makes.
Fairness == WF_vars(LoadStep) /\ WF_vars(FlushStep)

Spec == Init /\ [][Next]_vars /\ Fairness

-----------------------------------------------------------------------------
(* Properties *)

quiet == mode = "up" /\ batch = NoBatch

\* Every item is in the index of its secondary key once its operation has
\* been applied, also when a crash came between its two files: Set writes the
\* key file before the index, and Load repeats what was cut, unless a
\* checkpoint had saved a LastSeq that covers the operation before it was in
\* the files (wal.go:290).
IndexComplete ==
    quiet => \A k \in Key \ early : disk.key[k] \in Sk /\ pend[k] = NotPending =>
        \/ ~readable(disk, disk.key[k])
        \/ k \in disk.sk[disk.key[k]]

\* "SK files are shared across entities" (base.go:117): as long as no item
\* has changed its secondary key, and no crash has cut a delete or a file, an
\* index names the items of its secondary key and no others, through crashes
\* in Set, failed flushes and replays.  It may lack a key with an operation
\* that a checkpoint covered before it was in the files (wal.go:290).
IndexExact ==
    quiet /\ clean => \A s \in Sk : readable(disk, s) /\
        \A k \in Key : /\ k \in disk.sk[s] => disk.key[k] = s
                       /\ disk.key[k] = s => k \in disk.sk[s] \/ k \in early

\* The newest operation of the process on k, or the file.
newest(k) == IF pend[k] # NotPending THEN pend[k] ELSE disk.key[k]

\* "secondary index reads need a materialized table view"
\* (write_batcher.go:336): an answer by secondary key has every item that has
\* that key when the answer is given, buffered writes included, whatever a
\* periodic flush or checkpoint did in between, and although crashes cut
\* writes in two.  The exception is as in IndexComplete.
FindsAll ==
    client.at = "found" =>
        \A k \in Key \ early : newest(k) = client.sk => k \in client.found

\* GetBySk takes the table's read lock twice (base.go:399, 376): a writer that
\* comes between waits for the first and blocks the second.  No flush ever
\* waits for the table while a GetBySk reads it.
NoSelfWait == ~(client.at = "items" /\ rlockBlocked)

\* A node whose process died comes up again, unless an index file was left
\* truncated: what Load repeats is done with or can be done again, although
\* the first Load after a crash may fail (Del without an index).
Recovers == mode = "down" ~> (mode = "up" \/ \E s \in Sk : ~readable(disk, s))

Entities == [key : Key, item : Item]

\* BulkSet leaves the items that the same calls of Set would, lists them all,
\* and lists no more than those calls.
setsMatch(d, es) ==
    LET b == BulkSet(d, es)
        q == doAll(d, es)
    IN  /\ b.key = q.key
        /\ \A s \in Sk : /\ b.sk[s] \subseteq q.sk[s]
                          /\ \A k \in q.sk[s] \ b.sk[s] : b.key[k] # s

\* BulkDel leaves the files that a Del of each key would, in any order.
deletes(ks) == [i \in DOMAIN ks |-> [key |-> ks[i], item |-> None]]

delsMatch(d, ks) == BulkDel(d, ks) = doAll(d, deletes(SetToSeq(ks)))

\* "last-write-wins matches the old sequential behavior" (base.go:71): on
\* whatever files a process may find, BulkSet and BulkDel leave the items that
\* the same calls of Set and Del would, list them all, and list no more.
BulkMatches ==
    mode = "down" /\ (\A s \in Sk : readable(disk, s)) =>
        /\ \A es \in UNION {[1..n -> Entities] : n \in 1..2} : setsMatch(disk, es)
        /\ \A ks \in SUBSET Key : delsMatch(disk, ks)

-----------------------------------------------------------------------------
(* The table as Store promises it: what Load would leave of the files *)

entriesOf(w, k) == {i \in DOMAIN w : w[i].key = k}

\* The last entry of the WAL for the key, else its file if it can be read.
recovered(w, d, k) ==
    LET is == entriesOf(w, k)
    IN  IF is # {} THEN w[CHOOSE i \in is : \A j \in is : i >= j].op
        ELSE IF exists(d, k) THEN d.key[k] ELSE None

Contents == [t \in {"table"} |-> [k \in Key |-> recovered(wal, disk, k)]]

TableMap == INSTANCE Store
    WITH Table <- {"table"}, Value <- Item, val <- Contents, number <- ops

\* The two files per item, the buffer, flushes that fail in the middle and
\* crashes between and inside the writes implement one durable map: a request
\* changes it in one step, when it is logged, and nothing else does, as long
\* as no checkpoint saves a LastSeq that is ahead of the files (wal.go:290).
ImplementsTable ==
    /\ TableMap!Init
    /\ [][early = {} /\ early' = {} => [TableMap!Next]_(TableMap!vars)]_vars

\* What WriteBatcher.Get finds for k, in the buffer only with DeferWrites.
current(k) == IF defer /\ pend[k] # NotPending THEN pend[k] ELSE disk.key[k]

\* What a read answers for a key is what a restart would bring back, once the
\* request at hand has reached the buffer: no flush, failed flush, recovery or
\* torn file leaves an older value in sight.  Left out are, without
\* DeferWrites, a key whose flush is under way or has failed, which the
\* client was told, and a key that a checkpoint covered too early.
CurrentIsDurable ==
    mode = "up" /\ client.at # "logged" =>
        \A k \in Key \ early : defer \/ pend[k] = NotPending =>
            LET c == current(k)
            IN  recovered(wal, disk, k) = IF c = Torn THEN None ELSE c
=============================================================================
