----------------------------- MODULE FsdbProofs -----------------------------
(***************************************************************************)
(* Theorems about Fsdb, for any keys and secondary keys, either setting of *)
(* DeferWrites and any bounds.                                             *)
(***************************************************************************)
EXTENDS Fsdb, DataLemmas, FiniteSetTheorems, SequenceTheorems, TLAPS

-----------------------------------------------------------------------------
(* Facts about the operators *)

Entry == [key : Key, op : Op]
Disk  == [key : [Key -> Op \cup {Torn}], sk : [Sk -> (SUBSET Key) \cup {Torn}]]

LEMMA KeyFinite == IsFiniteSet(Key)
<1> DEFINE n == Len(Order)
<1>1. n \in Nat /\ DOMAIN Order = 1..n /\ Order \in [1..n -> Key]
  BY OrderSorts
<1>2. Order \in Surjection(1..n, Key)
  BY <1>1, OrderSorts DEF Surjection
<1>3. IsFiniteSet(1..n)
  BY <1>1, FS_Interval
<1> HIDE DEF n
<1> QED BY <1>2, <1>3, FS_Surjection

\* A flush begins with a pending key.
LEMMA FirstPending ==
    ASSUME NEW p, pending(p) # {}
    PROVE  first(p) \in pending(p) /\ first(p) \in Key
<1> DEFINE S == {i \in DOMAIN Order : Order[i] \in pending(p)}
<1>1. Len(Order) \in Nat /\ DOMAIN Order = 1..Len(Order)
  BY OrderSorts
<1>2. S \in SUBSET Nat /\ S # {}
  <2>1. PICK k \in pending(p) : TRUE
    OBVIOUS
  <2>2. PICK i \in DOMAIN Order : Order[i] = k
    BY <2>1, OrderSorts DEF pending
  <2> QED BY <1>1, <2>1, <2>2
<1>3. PICK i \in S : \A j \in S : i <= j
  <2> HIDE DEF S
  <2> QED BY <1>2, LeastNatural
<1>4. \A j \in 1..(i - 1) : Order[j] \notin pending(p)
  <2>1. i \in 1..Len(Order)
    BY <1>1
  <2>2. \A j \in 1..(i - 1) : j \in DOMAIN Order /\ ~ (i <= j)
    BY <1>1, <2>1
  <2> QED BY <1>3, <2>2
<1>5. \E x \in DOMAIN Order : /\ Order[x] \in pending(p)
                             /\ \A j \in 1..(x - 1) : Order[j] \notin pending(p)
  BY <1>4
<1>6. first(p) \in pending(p)
  BY <1>5, Zenon DEF first
<1> QED BY <1>6 DEF pending

LEMMA FlushType ==
    ASSUME NEW p, pending(p) # {}, NEW by \in {"client", "task", "checkpoint", "load"}
    PROVE  LET b == flushFrom(by, p)
           IN  /\ b \in Batch /\ b # NoBatch /\ b.by = by /\ b.at = "lock"
               /\ b.key \in pending(p)
<1>1. first(p) \in pending(p) /\ first(p) \in Key
  BY FirstPending
<1> DEFINE b == flushFrom(by, p)
<1>2. b = [by |-> by, at |-> "lock", key |-> first(p), sk |-> NoSk,
           replaced |-> FALSE]
  BY DEF flushFrom
<1>3. b \in [by : {"client", "task", "checkpoint", "load"}, at : {"lock", "waiting", "file", "index"},
             key : Key, sk : Item, replaced : BOOLEAN]
  BY <1>1, <1>2 DEF Item
<1>4. b.by = by /\ b.by # NoBatch.by
  BY <1>2 DEF NoBatch
<1> HIDE DEF b
<1>5. b # NoBatch /\ b \in Batch /\ b.at = "lock" /\ b.key = first(p)
  BY <1>2, <1>3, <1>4 DEF Batch
<1> QED BY <1>1, <1>4, <1>5 DEF b

BusyBatch == [by : {"client", "task", "checkpoint", "load"}, at : {"lock", "waiting", "file", "index"},
              key : Key, sk : Item, replaced : BOOLEAN]

LEMMA BatchType ==
    ASSUME NEW b \in Batch
    PROVE  /\ b = NoBatch => b.by = "nobody"
           /\ b # NoBatch =>
                 /\ b \in BusyBatch
                 /\ b.by \in {"client", "task", "checkpoint", "load"} /\ b.key \in Key
                 /\ b.at \in {"lock", "waiting", "file", "index"}
                 /\ b.sk \in Item /\ b.replaced \in BOOLEAN
<1>1. NoBatch.by = "nobody"
  BY DEF NoBatch
<1>2. b = NoBatch \/ b \in BusyBatch
  BY DEF Batch, BusyBatch
<1>3. b \in BusyBatch =>
         /\ b.by \in {"client", "task", "checkpoint", "load"} /\ b.key \in Key
         /\ b.at \in {"lock", "waiting", "file", "index"}
         /\ b.sk \in Item /\ b.replaced \in BOOLEAN
  BY DEF BusyBatch
<1> QED BY <1>1, <1>2, <1>3

ItemsRead == [at : {"items"}, sk : Sk, todo : SUBSET Key, found : SUBSET Key]

LEMMA ClientType ==
    ASSUME NEW c \in Client
    PROVE  /\ c = Idle <=> c.at = "idle"
           /\ c.at = "logged" => c.items \in Batches
           /\ c.at \in {"flushing", "rlock"} =>
                 c.sk \in Sk /\ c = [at |-> c.at, sk |-> c.sk]
           /\ c.at = "items" =>
                 /\ c \in ItemsRead
                 /\ c.sk \in Sk /\ c.todo \in SUBSET Key /\ c.found \in SUBSET Key
           /\ c.at = "found" => c.sk \in Sk /\ c.found \in SUBSET Key
           /\ c.at \in {"idle", "logged", "writing", "flushing", "rlock", "items",
                        "found", "get", "reading"}
<1>1. CASE c = Idle
  BY <1>1 DEF Idle
<1>2. CASE c \in [at : {"logged"}, items : Batches]
  BY <1>2 DEF Idle
<1>3. CASE c \in [at : {"writing"}]
  BY <1>3 DEF Idle
<1>4. CASE c \in [at : {"flushing", "rlock"}, sk : Sk]
  BY <1>4 DEF Idle
<1>5. CASE c \in [at : {"items"}, sk : Sk, todo : SUBSET Key, found : SUBSET Key]
  BY <1>5 DEF Idle, ItemsRead
<1>6. CASE c \in [at : {"found"}, sk : Sk, found : SUBSET Key]
  BY <1>6 DEF Idle
<1>7. CASE c \in [at : {"get", "reading"}]
  BY <1>7 DEF Idle
<1> QED BY <1>1, <1>2, <1>3, <1>4, <1>5, <1>6, <1>7 DEF Client

LEMMA BatchesType ==
    ASSUME NEW r \in Batches
    PROVE  DOMAIN r \subseteq Key /\ \A k \in DOMAIN r : r[k] \in Op
<1>1. PICK ks \in SUBSET Key : r \in [ks -> Op]
  BY DEF Batches
<1> QED BY <1>1

\* What a request adds to the WAL.
LEMMA Logs ==
    ASSUME NEW r \in requests
    PROVE  LET ks == SetToSeq(DOMAIN r)
               es == [i \in DOMAIN ks |-> [key |-> ks[i], op |-> r[ks[i]]]]
           IN  /\ r \in Batches /\ DOMAIN r # {} /\ Len(ks) \in Nat
               /\ es \in Seq(Entry) /\ Len(es) = Len(ks)
               /\ \A k \in DOMAIN r : \E i \in 1..Len(es) : es[i].key = k
<1> DEFINE ks == SetToSeq(DOMAIN r)
           es == [i \in DOMAIN ks |-> [key |-> ks[i], op |-> r[ks[i]]]]
           n  == Cardinality(DOMAIN r)
<1>1. r \in Batches /\ DOMAIN r # {}
  BY DEF requests
<1>2. DOMAIN r \subseteq Key /\ \A k \in DOMAIN r : r[k] \in Op
  BY <1>1, BatchesType
<1>3. IsFiniteSet(DOMAIN r)
  BY <1>2, KeyFinite, FS_Subset
<1>4. /\ ks \in Seq(DOMAIN r) /\ Len(ks) = n /\ DOMAIN ks = 1..n /\ n \in Nat
      /\ \A k \in DOMAIN r : \E i \in 1..n : ks[i] = k
  BY <1>3, SetListed
<1> HIDE DEF ks, n
<1>5. \A i \in 1..n : ks[i] \in DOMAIN r
  BY <1>4
<1>6. es \in [1..n -> Entry]
  BY <1>2, <1>4, <1>5 DEF Entry
<1>7. \A i \in 1..n : es[i].key = ks[i]
  BY <1>4
<1>8. es \in Seq(Entry) /\ Len(es) = n
  <2> HIDE DEF es
  <2> QED BY <1>4, <1>6
<1> HIDE DEF es
<1>9. \A k \in DOMAIN r : \E i \in 1..Len(es) : es[i].key = k
  BY <1>4, <1>7, <1>8
<1> QED BY <1>1, <1>4, <1>8, <1>9 DEF ks, es

-----------------------------------------------------------------------------
(* Who is at work: the mutexes *)

Control ==
    /\ mode = "down" => batch = NoBatch
    /\ mode # "up" => client = Idle
    /\ batch # NoBatch => batch.key \in pending(pend)
    /\ batch.by = "client" <=> client.at \in {"flushing", "writing"}
    /\ client.at \in {"rlock", "items", "found"} => batch = NoBatch /\ pending(pend) = {}
    /\ client.at = "logged" => DOMAIN client.items # {}
    /\ inIndex => batch.sk \in Sk
    /\ mode # "loading" => replayed = 0
    /\ ckpt = "flushed" \/ batch.by = "checkpoint" => mode = "up"

Ops  == [Key -> Op \cup {NotPending}]

Memory ==
    /\ mode \in {"down", "loading", "up"} /\ replayed \in 0..Len(wal)
    /\ pend \in Ops /\ batch \in Batch /\ client \in Client /\ mapped \in BOOLEAN
    /\ ckpt \in {"idle", "flushed"}

Stored ==
    /\ disk \in Disk /\ wal \in Seq(Entry)
    /\ clean \in BOOLEAN /\ early \subseteq Key /\ defer \in DeferWrites
    /\ ops \in 0..MaxOps /\ creates \in 0..MaxCreates /\ crashes \in 0..MaxCrashes

CtlInv == Stored /\ Memory /\ Control

LEMMA TypeParts == TypeOK <=> Stored /\ Memory
BY DEF TypeOK, Stored, Memory, Disk, Entry, Ops

LEMMA DownCtl ==
    ASSUME wal' \in Seq(Entry), Down
    PROVE  Memory' /\ Control'
<1>1. /\ mode' = "down" /\ replayed' = 0 /\ mapped' = FALSE
      /\ pend' = [k \in Key |-> NotPending] /\ batch' = NoBatch /\ client' = Idle
      /\ ckpt' = "idle"
  BY DEF Down
<1>2. Idle.at = "idle" /\ NoBatch.by = "nobody"
  BY DEF Idle, NoBatch
<1>3. Len(wal') \in Nat
  OBVIOUS
<1>4. NoBatch \in Batch /\ Idle \in Client
  BY DEF Batch, Client
<1>5. pend' \in Ops
  BY <1>1 DEF Ops
<1>6. /\ mode' \in {"down", "loading", "up"} /\ mapped' \in BOOLEAN
      /\ ckpt' \in {"idle", "flushed"}
  BY <1>1
<1>7. replayed' \in 0..Len(wal')
  BY <1>1, <1>3
<1>8. batch' \in Batch /\ client' \in Client
  BY <1>1, <1>4
<1>9. Memory'
  BY <1>5, <1>6, <1>7, <1>8, Zenon DEF Memory
<1>10. Control'
  BY <1>1, <1>2 DEF Control, inIndex
<1> QED BY <1>9, <1>10

\* The ways in which an operation of a flush can end.
LEMMA EndOp ==
    ASSUME Memory, batch # NoBatch, NEW ok \in BOOLEAN, endOp(ok)
    PROVE  \/ Down /\ early' = early
           \/ /\ mode' = mode /\ replayed' = replayed /\ mapped' = mapped
              /\ pend' = IF ok THEN [pend EXCEPT ![batch.key] = NotPending] ELSE pend
              /\ \/ early' = early
                 \/ ok /\ ~atHand(batch.key) /\ early' = early \ {batch.key}
              /\ \/ ckpt' = ckpt
                 \/ ckpt' = "flushed" /\ batch.by = "checkpoint"
              /\ \/ /\ ok /\ pending(pend') # {}
                    /\ batch' = flushFrom(batch.by, pend') /\ client' = client
                 \/ /\ batch' = NoBatch
                    /\ \/ batch.by # "client" /\ client' = client
                       \/ batch.by = "client" /\ client' = Idle
                       \/ /\ batch.by = "client" /\ client.at = "flushing"
                          /\ client' = [client EXCEPT !.at = "rlock"]
                          /\ pending(pend') = {}
<1> DEFINE p == IF ok THEN [pend EXCEPT ![batch.key] = NotPending] ELSE pend
<1>1. \/ Down /\ early' = early
      \/ /\ pend' = p
         /\ ckpt' = ckpt \/ (ckpt' = "flushed" /\ batch.by = "checkpoint")
         /\ \/ early' = early
            \/ ok /\ ~atHand(batch.key) /\ early' = early \ {batch.key}
         /\ batch' = IF ~ok \/ pending(p) = {} THEN NoBatch ELSE flushFrom(batch.by, p)
         /\ client' = IF ~(~ok \/ pending(p) = {}) \/ batch.by # "client" THEN client
                      ELSE IF ok /\ client.at = "flushing"
                      THEN [client EXCEPT !.at = "rlock"] ELSE Idle
         /\ mode' = mode /\ replayed' = replayed /\ mapped' = mapped
  BY DEF endOp
<1> HIDE DEF p
<1>2. CASE Down /\ early' = early
  BY <1>2
<1>3. CASE ~ (Down /\ early' = early)
  <2>1. /\ pend' = p /\ mode' = mode /\ replayed' = replayed /\ mapped' = mapped
        /\ \/ early' = early
           \/ ok /\ ~atHand(batch.key) /\ early' = early \ {batch.key}
        /\ \/ ckpt' = ckpt
           \/ ckpt' = "flushed" /\ batch.by = "checkpoint"
    BY <1>1, <1>3
  <2>2. CASE ok /\ pending(p) # {}
    BY <1>1, <1>3, <2>1, <2>2 DEF p
  <2>3. CASE ~ (ok /\ pending(p) # {})
    BY <1>1, <1>3, <2>1, <2>3 DEF p
  <2> QED BY <2>2, <2>3
<1> QED BY <1>2, <1>3

LEMMA EndCtl ==
    ASSUME CtlInv, wal' = wal, batch # NoBatch, NEW ok \in BOOLEAN, endOp(ok)
    PROVE  Memory' /\ Control' /\ early' \subseteq Key
<1> SUFFICES Memory' /\ Control'
  BY EndOp DEF CtlInv, Stored
<1>1. CASE Down
  BY <1>1, DownCtl DEF CtlInv, Stored
<1>2. ASSUME /\ mode' = mode /\ replayed' = replayed /\ mapped' = mapped
             /\ pend' = IF ok THEN [pend EXCEPT ![batch.key] = NotPending] ELSE pend
             /\ ckpt' = ckpt \/ (ckpt' = "flushed" /\ batch.by = "checkpoint")
      PROVE  /\ mode' \in {"loading", "up"} /\ replayed' \in 0..Len(wal')
             /\ pend' \in Ops /\ mapped' \in BOOLEAN /\ ckpt' \in {"idle", "flushed"}
             /\ ckpt' = "flushed" => mode' = "up"
             /\ mode' # "loading" => replayed' = 0
  BY <1>2 DEF CtlInv, Control, inIndex, Memory, Ops
<1>3. CASE /\ mode' = mode /\ replayed' = replayed /\ mapped' = mapped
           /\ pend' = IF ok THEN [pend EXCEPT ![batch.key] = NotPending] ELSE pend
           /\ ckpt' = ckpt \/ (ckpt' = "flushed" /\ batch.by = "checkpoint")
           /\ ok /\ pending(pend') # {}
           /\ batch' = flushFrom(batch.by, pend') /\ client' = client
  <2>1. batch.by \in {"client", "task", "checkpoint", "load"}
    BY BatchType DEF CtlInv, Memory
  <2>2. /\ batch' \in Batch /\ batch' # NoBatch /\ batch'.by = batch.by
        /\ batch'.key \in pending(pend') /\ batch'.at = "lock"
    BY <1>3, <2>1, FlushType
  <2>3. Memory'
    BY <1>2, <1>3, <2>2 DEF CtlInv, Memory
  <2>4. Control'
    <3>1. pending(pend)' = pending(pend')
      OBVIOUS
    <3> QED BY <1>2, <1>3, <2>2, <3>1 DEF CtlInv, Control, inIndex
  <2> QED BY <2>3, <2>4
<1>4. CASE /\ mode' = mode /\ replayed' = replayed /\ mapped' = mapped
           /\ pend' = IF ok THEN [pend EXCEPT ![batch.key] = NotPending] ELSE pend
           /\ ckpt' = ckpt \/ (ckpt' = "flushed" /\ batch.by = "checkpoint")
           /\ batch' = NoBatch
           /\ \/ batch.by # "client" /\ client' = client
              \/ batch.by = "client" /\ client' = Idle
              \/ /\ batch.by = "client" /\ client.at = "flushing"
                 /\ client' = [client EXCEPT !.at = "rlock"]
                 /\ pending(pend') = {}
  <2>1. batch'.by = "nobody" /\ batch' \in Batch
    BY <1>4 DEF Batch, NoBatch
  <2>2. client \in Client
    BY DEF CtlInv, Memory
  <2>3. CASE batch.by # "client" /\ client' = client
    BY <1>2, <1>4, <2>1, <2>2, <2>3, ClientType DEF CtlInv, Memory, Control, inIndex
  <2>4. CASE batch.by = "client" /\ client' = Idle
    <3>1. client'.at = "idle" /\ client' \in Client
      BY <2>4 DEF Idle, Client
    <3> QED BY <1>2, <1>4, <2>1, <2>4, <3>1 DEF CtlInv, Memory, Control, inIndex
  <2>5. CASE /\ batch.by = "client" /\ client.at = "flushing"
             /\ client' = [client EXCEPT !.at = "rlock"]
             /\ pending(pend') = {}
    <3>1. client = [at |-> client.at, sk |-> client.sk] /\ client.sk \in Sk
      BY <2>2, <2>5, ClientType
    <3>2. client' = [at |-> "rlock", sk |-> client.sk]
      BY <2>5, <3>1
    <3>3. client' \in Client /\ client'.at = "rlock"
      BY <3>1, <3>2 DEF Client
    <3>4. client # Idle
      BY <2>5 DEF Idle
    <3> QED BY <1>2, <1>4, <2>1, <2>5, <3>3, <3>4 DEF CtlInv, Memory, Control, inIndex
  <2> QED BY <1>4, <2>3, <2>4, <2>5
<1> QED BY <1>1, <1>3, <1>4, EndOp DEF CtlInv

\* Steps that leave the buffer, the flush and the process alone.
LEMMA ClientCtl ==
    ASSUME CtlInv, client' \in Client, mode = "up", mapped' \in BOOLEAN,
           UNCHANGED <<disk, wal, mode, replayed, pend, batch, ckpt, bounds, history>>,
           client.at \notin {"flushing", "writing"},
           client'.at \notin {"flushing", "writing", "logged"},
           client'.at \in {"rlock", "items", "found"} =>
               batch = NoBatch /\ pending(pend) = {}
    PROVE  CtlInv'
<1>1. Stored'
  BY DEF CtlInv, Stored, bounds, history
<1>2. Memory'
  BY DEF CtlInv, Memory
<1>3. Control'
  BY DEF CtlInv, Control, inIndex
<1> QED BY <1>1, <1>2, <1>3 DEF CtlInv

\* A running client has the process up.
LEMMA ClientUp ==
    ASSUME CtlInv, client.at # "idle"
    PROVE  mode = "up"
<1>1. client # Idle
  BY DEF Idle
<1> QED BY <1>1 DEF CtlInv, Control, inIndex

LEMMA LogCtl ==
    ASSUME CtlInv, NEW r \in requests, LogRequest(r)
    PROVE  CtlInv'
<1> DEFINE ks == SetToSeq(DOMAIN r)
           es == [i \in DOMAIN ks |-> [key |-> ks[i], op |-> r[ks[i]]]]
<1>1. /\ r \in Batches /\ DOMAIN r # {} /\ Len(ks) \in Nat
      /\ es \in Seq(Entry)
  BY Logs
<1>2. /\ wal' = wal \o es /\ ops' = ops + Len(ks) /\ ops + Len(ks) <= MaxOps
      /\ mode = "up" /\ client = Idle /\ client' = [at |-> "logged", items |-> r]
      /\ UNCHANGED <<disk, mode, replayed, pend, batch, mapped, creates, crashes,
                     defer, ckpt, history>>
  BY DEF LogRequest, mayStart
<1> HIDE DEF ks, es
<1>3. wal \in Seq(Entry) /\ ops \in 0..MaxOps /\ replayed \in 0..Len(wal)
  BY DEF CtlInv, Stored, Memory
<1>4. wal' \in Seq(Entry) /\ Len(wal') = Len(wal) + Len(es) /\ Len(es) \in Nat
  BY <1>1, <1>2, <1>3
<1>5. Stored'
  <2>1. ops' \in 0..MaxOps
    BY <1>1, <1>2, <1>3, FsdbOptions
  <2> QED BY <1>2, <1>4, <2>1 DEF CtlInv, Stored, history
<1>6. client' \in Client /\ client'.at = "logged" /\ client'.items = r
  BY <1>1, <1>2 DEF Client
<1>7. replayed' \in 0..Len(wal')
  BY <1>2, <1>3, <1>4
<1>8. Memory'
  BY <1>2, <1>6, <1>7 DEF CtlInv, Memory
<1>9. Control'
  <2>1. client.at = "idle"
    BY <1>2 DEF Idle
  <2> QED BY <1>1, <1>2, <1>6, <2>1 DEF CtlInv, Control, inIndex
<1> QED BY <1>5, <1>8, <1>9 DEF CtlInv

LEMMA MergeType ==
    ASSUME CtlInv, client.at = "logged"
    PROVE  /\ merge(client.items) \in Ops /\ pending(merge(client.items)) # {}
           /\ client.items \in Batches
<1> DEFINE r == client.items
<1>1. r \in Batches /\ DOMAIN r # {} /\ pend \in Ops
  BY ClientType DEF CtlInv, Memory, Control, inIndex
<1>2. DOMAIN r \subseteq Key /\ \A k \in DOMAIN r : r[k] \in Op
  BY <1>1, BatchesType
<1>3. merge(r) \in Ops
  BY <1>1, <1>2 DEF merge, Ops
<1>4. PICK k \in DOMAIN r : TRUE
  BY <1>1
<1>5. k \in Key /\ merge(r)[k] = r[k] /\ r[k] # NotPending
  BY <1>2, <1>4, NoItems DEF merge
<1> QED BY <1>1, <1>3, <1>5 DEF pending

LEMMA MergeCtl ==
    ASSUME CtlInv, Merge
    PROVE  CtlInv'
<1>1. /\ client.at = "logged" /\ batch = NoBatch /\ pend' = merge(client.items)
      /\ \/ client' = Idle /\ batch' = batch
         \/ client' = [at |-> "writing"] /\ batch' = flushFrom("client", pend')
      /\ UNCHANGED <<disk, wal, mode, replayed, mapped, ckpt, bounds, history>>
  BY DEF Merge
<1>2. pend' \in Ops /\ pending(pend') # {} /\ mode = "up"
  BY <1>1, MergeType, ClientUp
<1>3. Stored'
  BY <1>1 DEF CtlInv, Stored, bounds, history
<1>4. CASE client' = Idle /\ batch' = batch
  <2>1. client'.at = "idle" /\ client' \in Client /\ batch.by = "nobody"
    BY <1>1, <1>4 DEF Idle, Client, NoBatch
  <2> QED BY <1>1, <1>2, <1>3, <1>4, <2>1 DEF CtlInv, Memory, Control, inIndex
<1>5. CASE client' = [at |-> "writing"] /\ batch' = flushFrom("client", pend')
  <2>1. /\ batch' \in Batch /\ batch' # NoBatch /\ batch'.by = "client"
        /\ batch'.key \in pending(pend') /\ batch'.at = "lock"
    BY <1>2, <1>5, FlushType
  <2>2. client' \in Client /\ client'.at = "writing"
    BY <1>5 DEF Client
  <2>3. Memory'
    BY <1>1, <1>2, <2>1, <2>2 DEF CtlInv, Memory
  <2>4. Control'
    BY <1>1, <1>2, <2>1, <2>2 DEF CtlInv, Control, inIndex
  <2> QED BY <1>3, <2>3, <2>4 DEF CtlInv
<1> QED BY <1>1, <1>4, <1>5

\* Steps that change no more than where a flush is.
LEMMA BatchCtl ==
    ASSUME CtlInv, batch' \in Batch, mapped' \in BOOLEAN, creates' \in 0..MaxCreates,
           batch # NoBatch, batch' # NoBatch, batch'.by = batch.by, batch'.key = batch.key,
           batch'.at = "index" => batch'.sk \in Sk \/ (batch.at = "index" /\ batch'.sk = batch.sk),
           UNCHANGED <<disk, wal, mode, replayed, pend, client, ops, crashes, defer, ckpt, history>>
    PROVE  CtlInv'
<1>1. Stored'
  BY DEF CtlInv, Stored, history
<1>2. Memory'
  BY DEF CtlInv, Memory
<1>3. Control'
  BY DEF CtlInv, Control, inIndex
<1> QED BY <1>1, <1>2, <1>3 DEF CtlInv

\* What is left of a flush by the steps that change a part of it.
LEMMA BatchGoesOn ==
    ASSUME NEW b \in Batch, b # NoBatch, NEW c,
           \/ \E x \in {"waiting", "file"} : c = [b EXCEPT !.at = x]
           \/ \E s \in Sk : c = [b EXCEPT !.at = "index", !.sk = s]
           \/ c = [b EXCEPT !.replaced = TRUE]
    PROVE  /\ c \in Batch /\ c # NoBatch /\ c.by = b.by /\ c.key = b.key
           /\ c.at = "index" => c.sk \in Sk \/ (b.at = "index" /\ c.sk = b.sk)
<1>1. b \in BusyBatch
  BY BatchType
<1>2. NoBatch \notin BusyBatch
  <2>1. NoBatch.by = "nobody"
    BY DEF NoBatch
  <2>2. \A y \in BusyBatch : y.by # "nobody"
    BY DEF BusyBatch
  <2> QED BY <2>1, <2>2
<1>3. BusyBatch \subseteq Batch
  BY DEF Batch, BusyBatch
<1>4. /\ c \in BusyBatch /\ c.by = b.by /\ c.key = b.key
      /\ c.at = "index" => c.sk \in Sk \/ (b.at = "index" /\ c.sk = b.sk)
  BY <1>1 DEF BusyBatch, Item
<1> QED BY <1>2, <1>3, <1>4

LEMMA LockCtl ==
    ASSUME CtlInv, Lock \/ LockWaits
    PROVE  CtlInv'
<1>1. /\ batch # NoBatch /\ mapped' = TRUE
      /\ \E x \in {"waiting", "file"} : batch' = [batch EXCEPT !.at = x]
      /\ UNCHANGED <<disk, wal, mode, replayed, pend, client, ckpt, bounds, history>>
  BY DEF Lock, LockWaits
<1>2. batch \in Batch /\ creates \in 0..MaxCreates
  BY DEF CtlInv, Memory, Stored
<1>3. /\ batch' \in Batch /\ batch' # NoBatch /\ batch'.by = batch.by
      /\ batch'.key = batch.key
      /\ batch'.at = "index" => batch'.sk \in Sk \/ (batch.at = "index" /\ batch'.sk = batch.sk)
  BY <1>1, <1>2, BatchGoesOn
<1> QED BY <1>1, <1>2, <1>3, BatchCtl DEF bounds, history

LEMMA CreateCtl ==
    ASSUME CtlInv, CreateTable
    PROVE  CtlInv'
<1>1. /\ creates < MaxCreates /\ creates' = creates + 1 /\ mapped' = TRUE
      /\ batch' = batch \/ (batch # NoBatch /\ batch' = [batch EXCEPT !.replaced = TRUE])
      /\ UNCHANGED <<disk, wal, mode, replayed, pend, client, ops, crashes, defer, ckpt, history>>
  BY DEF CreateTable
<1>2. batch \in Batch /\ creates \in 0..MaxCreates
  BY DEF CtlInv, Memory, Stored
<1>3. creates' \in 0..MaxCreates
  BY <1>1, <1>2, FsdbOptions
<1>4. CASE batch' = batch
  <2>1. Stored'
    BY <1>1, <1>3 DEF CtlInv, Stored, history
  <2> QED BY <1>1, <1>4, <2>1 DEF CtlInv, Memory, Control, inIndex
<1>5. CASE batch # NoBatch /\ batch' = [batch EXCEPT !.replaced = TRUE]
  <2>1. /\ batch' \in Batch /\ batch' # NoBatch /\ batch'.by = batch.by
        /\ batch'.key = batch.key
        /\ batch'.at = "index" => batch'.sk \in Sk \/ (batch.at = "index" /\ batch'.sk = batch.sk)
    BY <1>2, <1>5, BatchGoesOn
  <2> QED BY <1>1, <1>3, <1>5, <2>1, BatchCtl
<1> QED BY <1>1, <1>4, <1>5

LEMMA StartCtl ==
    ASSUME CtlInv, TaskFlush \/ \E s \in Sk : GetBySk(s)
    PROVE  CtlInv'
<1>1. /\ mode = "up" /\ batch = NoBatch /\ batch.by = "nobody"
      /\ UNCHANGED <<disk, wal, mode, replayed, pend, mapped, ckpt, bounds, history>>
  BY DEF TaskFlush, GetBySk, mayStart, NoBatch
<1>2. Stored'
  BY <1>1 DEF CtlInv, Stored, bounds, history
<1>3. CASE TaskFlush
  <2>1. pending(pend) # {} /\ batch' = flushFrom("task", pend) /\ client' = client
    BY <1>3 DEF TaskFlush
  <2>2. /\ batch' \in Batch /\ batch' # NoBatch /\ batch'.by = "task"
        /\ batch'.key \in pending(pend) /\ batch'.at = "lock"
    BY <2>1, FlushType
  <2>3. Memory'
    BY <1>1, <2>1, <2>2 DEF CtlInv, Memory
  <2>4. Control'
    BY <1>1, <2>1, <2>2 DEF CtlInv, Control, inIndex
  <2> QED BY <1>2, <2>3, <2>4 DEF CtlInv
<1>4. ASSUME NEW s \in Sk, GetBySk(s) PROVE CtlInv'
  <2>1. client = Idle /\ client.at = "idle"
    BY <1>4 DEF GetBySk, mayStart, Idle
  <2>2. CASE pending(pend) = {}
    <3>1. client' = [at |-> "rlock", sk |-> s] /\ batch' = batch
      BY <1>4, <2>2 DEF GetBySk
    <3>2. client' \in Client /\ client'.at = "rlock"
      BY <3>1 DEF Client
    <3> QED BY <1>1, <1>2, <2>1, <2>2, <3>1, <3>2 DEF CtlInv, Memory, Control, inIndex
  <2>3. CASE pending(pend) # {}
    <3>1. /\ client' = [at |-> "flushing", sk |-> s]
          /\ batch' = flushFrom("client", pend)
      BY <1>4, <2>3 DEF GetBySk
    <3>2. client' \in Client /\ client'.at = "flushing"
      BY <3>1 DEF Client
    <3>3. /\ batch' \in Batch /\ batch' # NoBatch /\ batch'.by = "client"
          /\ batch'.key \in pending(pend) /\ batch'.at = "lock"
      BY <2>3, <3>1, FlushType
    <3>4. Memory'
      BY <1>1, <3>2, <3>3 DEF CtlInv, Memory
    <3>5. Control'
      BY <1>1, <3>2, <3>3 DEF CtlInv, Control, inIndex
    <3> QED BY <1>2, <3>4, <3>5 DEF CtlInv
  <2> QED BY <2>2, <2>3
<1> QED BY <1>3, <1>4

LEMMA CheckpointCtl ==
    ASSUME CtlInv, CheckpointFlush \/ SaveLastSeq
    PROVE  CtlInv'
<1>1. CASE CheckpointFlush
  <2>1. /\ mode = "up" /\ batch = NoBatch
        /\ \/ ckpt' = "flushed" /\ batch' = batch
           \/ /\ pending(pend) # {} /\ ckpt' = ckpt
              /\ batch' = flushFrom("checkpoint", pend)
        /\ UNCHANGED <<disk, wal, mode, replayed, pend, client, mapped, bounds, history>>
    BY <1>1 DEF CheckpointFlush
  <2>2. Stored'
    BY <2>1 DEF CtlInv, Stored, bounds, history
  <2>3. batch.by = "nobody"
    BY <2>1 DEF NoBatch
  <2>4. CASE ckpt' = "flushed" /\ batch' = batch
    BY <2>1, <2>2, <2>4 DEF CtlInv, Memory, Control, inIndex
  <2>5. CASE /\ pending(pend) # {} /\ ckpt' = ckpt
             /\ batch' = flushFrom("checkpoint", pend)
    <3>1. /\ batch' \in Batch /\ batch' # NoBatch /\ batch'.by = "checkpoint"
          /\ batch'.key \in pending(pend) /\ batch'.at = "lock"
      BY <2>5, FlushType
    <3>2. Memory'
      BY <2>1, <2>5, <3>1 DEF CtlInv, Memory
    <3>3. Control'
      BY <2>1, <2>3, <2>5, <3>1 DEF CtlInv, Control, inIndex
    <3> QED BY <2>2, <3>2, <3>3 DEF CtlInv
  <2> QED BY <2>1, <2>4, <2>5
<1>2. CASE SaveLastSeq
  <2>1. /\ ckpt = "flushed" /\ ckpt' = "idle" /\ wal' = <<>>
        /\ early' = early \cup {k \in Key : unwritten(k)}
        /\ UNCHANGED <<disk, mode, replayed, pend, batch, client, mapped, bounds, clean>>
    BY <1>2 DEF SaveLastSeq
  <2>2. wal' \in Seq(Entry) /\ Len(wal') = 0 /\ mode = "up" /\ replayed = 0
    BY <2>1 DEF CtlInv, Control
  <2>3. Stored'
    BY <2>1, <2>2 DEF CtlInv, Stored, bounds
  <2>4. Memory'
    BY <2>1, <2>2 DEF CtlInv, Memory
  <2>5. Control'
    BY <2>1, <2>2 DEF CtlInv, Control, inIndex
  <2> QED BY <2>3, <2>4, <2>5 DEF CtlInv
<1> QED BY <1>1, <1>2

\* The files that a flush writes.
LEMMA Files ==
    ASSUME NEW d \in Disk, NEW k \in Key, NEW o \in Op \cup {Torn}, NEW s \in Sk
    PROVE  /\ writeKeyFile(d, k, o) \in Disk /\ removeKeyFile(d, k) \in Disk
           /\ [d EXCEPT !.sk[s] = Torn] \in Disk
           /\ readable(d, s) => /\ appendKeysToSk(d, s, {k}) \in Disk
                                /\ removeKeysFromSk(d, s, {k}) \in Disk
                                /\ d.sk[s] \in SUBSET Key
<1>1. d.key \in [Key -> Op \cup {Torn}] /\ d.sk \in [Sk -> (SUBSET Key) \cup {Torn}]
  BY DEF Disk
<1>2. writeKeyFile(d, k, o) \in Disk
  BY DEF writeKeyFile, Disk
<1>3. removeKeyFile(d, k) \in Disk
  BY DEF removeKeyFile, Disk, Op
<1>4. [d EXCEPT !.sk[s] = Torn] \in Disk
  BY DEF Disk
<1>5. ASSUME readable(d, s)
      PROVE  /\ appendKeysToSk(d, s, {k}) \in Disk /\ removeKeysFromSk(d, s, {k}) \in Disk
             /\ d.sk[s] \in SUBSET Key
  <2>1. d.sk[s] \in SUBSET Key
    BY <1>1, <1>5 DEF readable
  <2>2. d.sk[s] \cup {k} \in SUBSET Key /\ d.sk[s] \ {k} \in SUBSET Key
    BY <2>1
  <2>3. \A x \in SUBSET Key : [d EXCEPT !.sk[s] = x] \in Disk
    BY DEF Disk
  <2> QED BY <2>1, <2>2, <2>3 DEF appendKeysToSk, removeKeysFromSk
<1> QED BY <1>2, <1>3, <1>4, <1>5

\* What a flush is about to write.
LEMMA AtKey ==
    ASSUME CtlInv, batch # NoBatch
    PROVE  /\ batch.key \in Key /\ pend[batch.key] \in Op /\ disk \in Disk
           /\ disk.key[batch.key] \in Op \cup {Torn}
           /\ pend[batch.key] # None => pend[batch.key] \in Item
<1>1. batch.key \in pending(pend) /\ pend \in Ops /\ disk \in Disk
  BY DEF CtlInv, Control, inIndex, Memory, Stored
<1>2. batch.key \in Key /\ pend[batch.key] \in Op
  BY <1>1, NoItems DEF pending, Ops
<1> QED BY <1>1, <1>2 DEF Disk, Op

LEMMA ToIndexCtl ==
    ASSUME CtlInv, batch # NoBatch, NEW s \in Sk, goToIndex(s), wal' = wal
    PROVE  Memory' /\ Control' /\ early' \subseteq Key
<1>1. /\ batch' = [batch EXCEPT !.at = "index", !.sk = s]
      /\ UNCHANGED <<mode, replayed, pend, ckpt, client, mapped, early>>
  BY DEF goToIndex
<1>2. batch \in Batch
  BY DEF CtlInv, Memory
<1>3. /\ batch' \in Batch /\ batch' # NoBatch /\ batch'.by = batch.by
      /\ batch'.key = batch.key
      /\ batch'.at = "index" => batch'.sk \in Sk \/ (batch.at = "index" /\ batch'.sk = batch.sk)
  BY <1>1, <1>2, BatchGoesOn
<1>4. Memory'
  BY <1>1, <1>3 DEF CtlInv, Memory
<1>5. Control'
  BY <1>1, <1>3 DEF CtlInv, Control, inIndex
<1> QED BY <1>1, <1>4, <1>5 DEF CtlInv, Stored

LEMMA SetFileCtl ==
    ASSUME CtlInv, SetFile
    PROVE  CtlInv'
<1> DEFINE k == batch.key
<1>1. /\ batch # NoBatch /\ pend[k] # None /\ wal' = wal
      /\ disk' = writeKeyFile(disk, k, pend[k]) /\ clean' \in BOOLEAN
      /\ endOp(TRUE) \/ (pend[k] # NoSk /\ goToIndex(pend[k]))
      /\ UNCHANGED <<wal, bounds>>
  BY DEF SetFile, inFile
<1>2. k \in Key /\ disk \in Disk /\ pend[k] \in Op /\ pend[k] \in Item
  BY <1>1, AtKey
<1>3. disk' \in Disk
  BY <1>1, <1>2 DEF writeKeyFile, Disk
<1>4. Memory' /\ Control' /\ early' \subseteq Key
  <2> HIDE DEF k
  <2>1. CASE endOp(TRUE)
    BY <1>1, <2>1, EndCtl
  <2>2. CASE pend[k] # NoSk /\ goToIndex(pend[k])
    <3>1. pend[k] \in Sk
      BY <1>2, <2>2 DEF Item
    <3> QED BY <1>1, <2>2, <3>1, ToIndexCtl
  <2> QED BY <1>1, <2>1, <2>2
<1>5. Stored'
  BY <1>1, <1>3, <1>4 DEF CtlInv, Stored, bounds
<1> QED BY <1>4, <1>5 DEF CtlInv

LEMMA DelFileCtl ==
    ASSUME CtlInv, DelFile
    PROVE  CtlInv'
<1> DEFINE k == batch.key
<1>1. /\ batch # NoBatch /\ wal' = wal
      /\ disk' = disk \/ disk' = removeKeyFile(disk, k)
      /\ endOp(TRUE) \/ (exists(disk, k) /\ disk.key[k] # NoSk /\ goToIndex(disk.key[k]))
      /\ UNCHANGED <<wal, bounds, clean>>
  BY DEF DelFile, inFile, missingIsDone
<1>2. k \in Key /\ disk \in Disk
  BY <1>1, AtKey
<1>3. disk' \in Disk
  BY <1>1, <1>2 DEF removeKeyFile, Disk, Op
<1>4. Memory' /\ Control' /\ early' \subseteq Key
  <2> HIDE DEF k
  <2>1. CASE endOp(TRUE)
    BY <1>1, <2>1, EndCtl
  <2>2. CASE exists(disk, k) /\ disk.key[k] # NoSk /\ goToIndex(disk.key[k])
    <3>1. disk.key[k] \in Sk
      BY <2>2 DEF exists, Item
    <3> QED BY <1>1, <2>2, <3>1, ToIndexCtl
  <2> QED BY <1>1, <2>1, <2>2
<1>5. Stored'
  BY <1>1, <1>3, <1>4 DEF CtlInv, Stored, bounds
<1> QED BY <1>4, <1>5 DEF CtlInv

LEMMA IndexCtl ==
    ASSUME CtlInv, SetIndex \/ DelIndex
    PROVE  CtlInv'
<1>1. /\ inIndex /\ batch # NoBatch /\ wal' = wal
      /\ \/ disk' = disk
         \/ /\ readable(disk, batch.sk)
            /\ \/ disk' = appendKeysToSk(disk, batch.sk, {batch.key})
               \/ disk' = removeKeysFromSk(disk, batch.sk, {batch.key})
      /\ endOp(TRUE) \/ endOp(FALSE)
      /\ UNCHANGED <<wal, bounds, clean>>
  BY DEF SetIndex, DelIndex, inIndex
<1>2. batch.sk \in Sk /\ batch.key \in Key /\ disk \in Disk
  BY <1>1, AtKey DEF CtlInv, Control
<1>3. disk' \in Disk
  <2>1. None \in Op \cup {Torn}
    BY DEF Op
  <2> QED BY <1>1, <1>2, <2>1, Files
<1>4. Memory' /\ Control' /\ early' \subseteq Key
  BY <1>1, EndCtl
<1>5. Stored'
  BY <1>1, <1>3, <1>4 DEF CtlInv, Stored, bounds
<1> QED BY <1>4, <1>5 DEF CtlInv

LEMMA ReadCtl ==
    ASSUME CtlInv,
           \/ ReadIndex \/ Answer \/ RLock \/ RUnlock
           \/ \E k \in Key : ReadItem(k)
           \/ \E k \in Key : Get(k)
    PROVE  CtlInv'
<1>1. client \in Client /\ mapped \in BOOLEAN /\ Idle \in Client /\ Idle.at = "idle"
  BY DEF CtlInv, Memory, Client, Idle
<1>2. CASE ReadIndex
  <2>1. /\ client.at = "rlock" /\ mapped' = TRUE
        /\ \/ client' = Idle
           \/ /\ readable(disk, client.sk)
              /\ client' = [at |-> "items", sk |-> client.sk,
                            todo |-> disk.sk[client.sk], found |-> {}]
        /\ UNCHANGED <<disk, wal, mode, replayed, pend, batch, ckpt, bounds, history>>
    BY <1>2 DEF ReadIndex
  <2>2. client.sk \in Sk /\ mode = "up" /\ batch = NoBatch /\ pending(pend) = {}
    BY <1>1, <2>1, ClientType, ClientUp DEF CtlInv, Control
  <2>3. client' \in Client /\ client'.at \in {"idle", "items"}
    <3>1. readable(disk, client.sk) => disk.sk[client.sk] \in SUBSET Key
      BY <2>2 DEF CtlInv, Stored, Disk, readable
    <3> QED BY <1>1, <2>1, <2>2, <3>1 DEF Client
  <2> QED BY <2>1, <2>2, <2>3, ClientCtl
<1>3. CASE Answer \/ RUnlock
  <2>1. /\ client.at \in {"found", "reading"} /\ client' = Idle /\ mapped' = mapped
        /\ UNCHANGED <<disk, wal, mode, replayed, pend, batch, ckpt, bounds, history>>
    BY <1>3 DEF Answer, RUnlock
  <2>2. mode = "up"
    BY <2>1, ClientUp
  <2> QED BY <1>1, <2>1, <2>2, ClientCtl
<1>4. CASE RLock \/ \E k \in Key : Get(k)
  <2>1. /\ client.at \notin {"flushing", "writing"} /\ mapped' \in BOOLEAN
        /\ client' = [at |-> "get"] \/ client' = [at |-> "reading"]
        /\ UNCHANGED <<disk, wal, mode, replayed, pend, batch, ckpt, bounds, history>>
    <3>1. CASE RLock
      BY <3>1 DEF RLock
    <3>2. CASE \E k \in Key : Get(k)
      BY <1>1, <3>2 DEF Get, mayStart
    <3> QED BY <1>4, <3>1, <3>2
  <2>2. mode = "up"
    BY <1>4, ClientUp DEF RLock, Get, mayStart
  <2>3. client' \in Client /\ client'.at \in {"get", "reading"}
    BY <2>1 DEF Client
  <2> QED BY <2>1, <2>2, <2>3, ClientCtl
<1>5. ASSUME NEW k \in Key, ReadItem(k) PROVE CtlInv'
  <2>1. /\ client.at = "items" /\ k \in client.todo /\ mapped' = mapped
        /\ UNCHANGED <<disk, wal, mode, replayed, pend, batch, ckpt, bounds, history>>
        /\ \/ client' = Idle
           \/ client' = [at |-> "found", sk |-> client.sk, found |-> client.found \cup {k}]
           \/ client' = [client EXCEPT !.todo = @ \ {k}, !.found = @ \cup {k}]
    BY <1>5 DEF ReadItem
  <2>2. client \in ItemsRead
    BY <1>1, <2>1, ClientType
  <2>3. /\ client.found \cup {k} \in SUBSET Key /\ client.todo \ {k} \in SUBSET Key
        /\ mode = "up" /\ batch = NoBatch /\ pending(pend) = {} /\ client.sk \in Sk
    BY <2>1, <2>2, ClientUp DEF CtlInv, Control, ItemsRead
  <2>4. ASSUME client' = [client EXCEPT !.todo = @ \ {k}, !.found = @ \cup {k}]
        PROVE  client' \in ItemsRead /\ client'.at = "items"
    BY <2>2, <2>3, <2>4 DEF ItemsRead
  <2>5. client' \in Client /\ client'.at \in {"idle", "items", "found"}
    BY <1>1, <2>1, <2>3, <2>4 DEF Client, ItemsRead
  <2> QED BY <1>1, <2>1, <2>3, <2>5, ClientCtl
<1> QED BY <1>2, <1>3, <1>4, <1>5

LEMMA LoadCtl ==
    ASSUME CtlInv, LoadStep
    PROVE  CtlInv'
<1>1. /\ client' = client
      /\ UNCHANGED <<disk, ckpt, bounds, history>>
  BY DEF LoadStep, Load, Replay, LoadCheckpoint
<1>2. /\ ckpt \in {"idle", "flushed"} /\ wal \in Seq(Entry) /\ replayed \in 0..Len(wal) /\ pend \in Ops
      /\ mapped \in BOOLEAN /\ client \in Client /\ NoBatch.by = "nobody"
      /\ Idle.at = "idle" /\ NoBatch \in Batch /\ Len(wal) \in Nat
  BY DEF CtlInv, Memory, Stored, NoBatch, Idle, Batch
<1>3. mode # "up" /\ client = Idle /\ batch = NoBatch /\ ckpt # "flushed"
  BY DEF LoadStep, Load, Replay, LoadCheckpoint, CtlInv, Control
<1>4. wal' \in Seq(Entry) => Stored'
  BY <1>1 DEF CtlInv, Stored, bounds, history
<1>5. ASSUME wal' \in Seq(Entry), mode' \in {"loading", "up"},
             replayed' \in 0..Len(wal'), pend' \in Ops, mapped' \in BOOLEAN,
             mode' = "up" => replayed' = 0,
             \/ batch' = NoBatch
             \/ pending(pend') # {} /\ batch' = flushFrom("load", pend')
      PROVE  CtlInv'
  <2>1. /\ batch' \in Batch /\ batch'.by \in {"nobody", "load"}
        /\ batch' # NoBatch => batch'.key \in pending(pend') /\ batch'.at = "lock"
    BY <1>2, <1>5, FlushType
  <2>2. Memory'
    BY <1>1, <1>2, <1>5, <2>1 DEF Memory
  <2>3. Control'
    BY <1>1, <1>2, <1>3, <1>5, <2>1 DEF Control, inIndex
  <2> QED BY <1>4, <1>5, <2>2, <2>3 DEF CtlInv
<1>6. CASE Load
  <2>1. /\ mode' = "loading" /\ batch' = batch
        /\ UNCHANGED <<wal, replayed, pend, mapped>>
    BY <1>6 DEF Load
  <2> QED BY <1>2, <1>3, <1>5, <2>1
<1>7. CASE Replay
  <2> DEFINE e == wal[replayed + 1]
  <2>1. /\ replayed < Len(wal) /\ replayed' = replayed + 1 /\ mode = "loading"
        /\ pend' = [pend EXCEPT ![e.key] = e.op] /\ mapped' = TRUE
        /\ batch' = batch \/ batch' = flushFrom("load", pend')
        /\ UNCHANGED <<wal, mode>>
    BY <1>7 DEF Replay
  <2>2. e \in Entry /\ replayed' \in 0..Len(wal')
    BY <1>2, <2>1
  <2>3. e.key \in Key /\ e.op \in Op
    BY <2>2 DEF Entry
  <2> HIDE DEF e
  <2>4. pend' \in Ops /\ pend'[e.key] = e.op
    BY <1>2, <2>1, <2>3 DEF Ops
  <2>5. e.key \in pending(pend')
    BY <2>3, <2>4, NoItems DEF pending
  <2> QED BY <1>2, <1>3, <1>5, <2>1, <2>2, <2>4, <2>5
<1>8. CASE LoadCheckpoint
  <2>1. /\ mode = "loading" /\ replayed = Len(wal) /\ UNCHANGED <<pend, mapped>>
        /\ \/ /\ pending(pend) # {} /\ batch' = flushFrom("load", pend)
              /\ UNCHANGED <<wal, mode, replayed>>
           \/ wal' = <<>> /\ mode' = "up" /\ replayed' = 0 /\ batch' = batch
    BY <1>8 DEF LoadCheckpoint
  <2>2. CASE /\ pending(pend) # {} /\ batch' = flushFrom("load", pend)
             /\ UNCHANGED <<wal, mode, replayed>>
    BY <1>2, <1>5, <2>1, <2>2
  <2>3. CASE wal' = <<>> /\ mode' = "up" /\ replayed' = 0 /\ batch' = batch
    <3>1. wal' \in Seq(Entry) /\ Len(wal') = 0
      BY <2>3
    <3> QED BY <1>2, <1>3, <1>5, <2>1, <2>3, <3>1
  <2> QED BY <2>1, <2>2, <2>3
<1> QED BY <1>6, <1>7, <1>8 DEF LoadStep

LEMMA EndsCtl ==
    ASSUME CtlInv, Crash \/ MapRace
    PROVE  CtlInv'
<1>1. /\ Down /\ wal' = wal /\ clean' \in BOOLEAN
      /\ crashes' = crashes \/ (crashes < MaxCrashes /\ crashes' = crashes + 1)
      /\ UNCHANGED <<ops, creates, defer, early>>
      /\ \/ disk' = disk
         \/ batch # NoBatch /\ disk' = writeKeyFile(disk, batch.key, Torn)
         \/ inIndex /\ disk' = [disk EXCEPT !.sk[batch.sk] = Torn]
  BY DEF Crash, MapRace, CtlInv, Stored, bounds, history, inFile, rewrites
<1>2. disk \in Disk /\ wal \in Seq(Entry) /\ crashes \in 0..MaxCrashes
  BY DEF CtlInv, Stored
<1>3. disk' \in Disk
  <2>1. CASE batch # NoBatch /\ disk' = writeKeyFile(disk, batch.key, Torn)
    <3>1. batch.key \in Key
      BY <2>1, AtKey
    <3> QED BY <1>2, <2>1, <3>1 DEF writeKeyFile, Disk
  <2>2. CASE inIndex /\ disk' = [disk EXCEPT !.sk[batch.sk] = Torn]
    <3>1. batch.sk \in Sk
      BY <2>2 DEF CtlInv, Control
    <3> QED BY <1>2, <2>2, <3>1 DEF Disk
  <2> QED BY <1>1, <1>2, <2>1, <2>2
<1>4. crashes' \in 0..MaxCrashes
  BY <1>1, <1>2, FsdbOptions
<1>5. Stored'
  BY <1>1, <1>3, <1>4 DEF CtlInv, Stored
<1>6. Memory' /\ Control'
  BY <1>1, <1>2, DownCtl
<1> QED BY <1>5, <1>6 DEF CtlInv

LEMMA InitCtl == Init => CtlInv
<1> SUFFICES ASSUME Init PROVE CtlInv
  OBVIOUS
<1>1. /\ mode = "down" /\ replayed = 0 /\ wal = <<>> /\ mapped = FALSE
      /\ pend = [k \in Key |-> NotPending] /\ batch = NoBatch /\ client = Idle
      /\ ckpt = "idle" /\ early = {}
      /\ disk = [key |-> [k \in Key |-> None], sk |-> [s \in Sk |-> {}]]
      /\ ops = 0 /\ creates = 0 /\ crashes = 0 /\ clean = TRUE /\ defer \in DeferWrites
  BY DEF Init
<1>2. disk \in Disk
  BY <1>1 DEF Disk, Op
<1>3. Stored
  BY <1>1, <1>2, FsdbOptions DEF Stored
<1>4. /\ Idle.at = "idle" /\ NoBatch.by = "nobody" /\ pend \in Ops
      /\ NoBatch \in Batch /\ Idle \in Client /\ Len(wal) = 0
  BY <1>1 DEF Idle, NoBatch, Batch, Client, Ops
<1>5. Memory
  <2>1. replayed = 0 /\ Len(wal) = 0 /\ mapped = FALSE
    BY <1>1, <1>4, Zenon
  <2>2. replayed \in 0..Len(wal)
    <3>1. replayed = 0 /\ Len(wal) = 0
      BY <2>1, Zenon
    <3> QED BY <3>1
  <2>3. mapped \in BOOLEAN
    BY <2>1, Zenon
  <2> QED BY <1>1, <1>4, <2>2, <2>3, Zenon DEF Memory
<1>6. Control
  BY <1>1, <1>4 DEF Control, inIndex
<1> QED BY <1>3, <1>5, <1>6 DEF CtlInv

LEMMA NextCtl == CtlInv /\ [Next]_vars => CtlInv'
<1> SUFFICES ASSUME CtlInv, [Next]_vars PROVE CtlInv'
  OBVIOUS
<1>1. ASSUME NEW r \in requests, LogRequest(r) PROVE CtlInv'
  BY <1>1, LogCtl
<1>2. CASE Merge
  BY <1>2, MergeCtl
<1>3. CASE CreateTable
  BY <1>3, CreateCtl
<1>4. CASE TaskFlush \/ \E s \in Sk : GetBySk(s)
  BY <1>4, StartCtl
<1>5. CASE FlushStep
  BY <1>5, LockCtl, SetFileCtl, DelFileCtl, IndexCtl DEF FlushStep
<1>6. CASE \/ ReadIndex \/ Answer \/ RLock \/ RUnlock
           \/ \E k \in Key : ReadItem(k)
           \/ \E k \in Key : Get(k)
  BY <1>6, ReadCtl
<1>7. CASE LoadStep
  BY <1>7, LoadCtl
<1>8. CASE Crash \/ MapRace
  BY <1>8, EndsCtl
<1>9. CASE CheckpointFlush \/ SaveLastSeq
  BY <1>9, CheckpointCtl
<1>10. CASE UNCHANGED vars
  BY <1>10 DEF vars, bounds, history, CtlInv, Stored, Memory, Control, inIndex
<1> QED BY <1>1, <1>2, <1>3, <1>4, <1>5, <1>6, <1>7, <1>8, <1>9, <1>10 DEF Next

LEMMA ControlHolds == Spec => []CtlInv
BY InitCtl, NextCtl, PTL DEF Spec

\* The files, the buffer, the flush and the client's request are of their types
\* after every interleaving of a client, a flush by a periodic task, a Load and
\* a crash of the table's store (write_batcher.go, base.go).
THEOREM TypeCorrect == Spec => []TypeOK
BY ControlHolds, TypeParts, PTL DEF CtlInv

\* GetBySk takes the table's read lock again for every item (base.go:376): it
\* never meets a writer that waits for the first one, because its own flush has
\* emptied the buffer and Adapter.mu keeps every other writer of it out.
THEOREM NeverSelfWaits == Spec => []NoSelfWait
<1>1. CtlInv => NoSelfWait
  BY DEF CtlInv, Control, NoSelfWait, rlockBlocked
<1> QED BY <1>1, ControlHolds, PTL

-----------------------------------------------------------------------------
(* What a crash leaves to be repeated *)

\* The item's index can be read and does not name it.
Uncovered(k) ==
    /\ disk.key[k] \in Sk /\ readable(disk, disk.key[k])
    /\ k \notin disk.sk[disk.key[k]]

Logged(k)   == \E i \in 1..Len(wal) : wal[i].key = k
ToReplay(k) == \E i \in 1..Len(wal) : i > replayed /\ wal[i].key = k

\* What is in the buffer or about to be is in the WAL, and an item that its
\* index lacks is in the buffer, or Load comes to it; else a checkpoint came
\* before its operation.
Repeats(k) ==
    \/ k \in early
    \/ /\ pend[k] # NotPending => Logged(k)
       /\ atHand(k) => Logged(k)
       /\ Uncovered(k) => pend[k] # NotPending \/ (mode # "up" /\ ToReplay(k))

\* Between its two writes, the key file is as the operation leaves it.
HalfDone ==
    inIndex => /\ disk.key[batch.key] = pend[batch.key]
               /\ pend[batch.key] # None => batch.sk = pend[batch.key]

FileInv == CtlInv /\ HalfDone /\ \A k \in Key : Repeats(k)

\* A reader by secondary key works through the index file as it is.
ReadInv ==
    /\ client.at \in {"items", "found"} => readable(disk, client.sk)
    /\ client.at = "items" => disk.sk[client.sk] \subseteq client.todo \cup client.found
    /\ client.at = "found" => disk.sk[client.sk] \subseteq client.found

deleting(k, s) == inIndex /\ pend[k] = None /\ batch.key = k /\ batch.sk = s

\* While the history is clean an index names other keys only during a delete,
\* and an item that its index lacks is being written, or a checkpoint came
\* before its operation.
ExactInv ==
    clean => /\ \A s \in Sk : readable(disk, s)
             /\ \A k \in Key, s \in Sk :
                   k \in disk.sk[s] => disk.key[k] = s \/ deleting(k, s)
             /\ \A k \in Key : mode = "up" /\ Uncovered(k) =>
                                 (inIndex /\ batch.key = k) \/ k \in early

\* What a write of an index does to the files.
LEMMA IndexAppend ==
    ASSUME disk \in Disk, NEW s \in Sk, NEW k \in Key, disk' = appendKeysToSk(disk, s, {k})
    PROVE  /\ disk'.key = disk.key /\ disk'.sk[s] = disk.sk[s] \cup {k}
           /\ \A t \in Sk : t # s => disk'.sk[t] = disk.sk[t]
<1>1. PICK x : x = disk.sk[s] \cup {k}
  OBVIOUS
<1>2. disk' = [disk EXCEPT !.sk[s] = x]
  BY <1>1 DEF appendKeysToSk
<1>3. disk'.key = disk.key /\ disk'.sk[s] = x /\ \A t \in Sk : t # s => disk'.sk[t] = disk.sk[t]
  BY <1>2 DEF Disk
<1> QED BY <1>1, <1>3

LEMMA IndexRemove ==
    ASSUME disk \in Disk, NEW s \in Sk, NEW k \in Key, disk' = removeKeysFromSk(disk, s, {k})
    PROVE  /\ disk'.key = disk.key /\ disk'.sk[s] = disk.sk[s] \ {k}
           /\ \A t \in Sk : t # s => disk'.sk[t] = disk.sk[t]
<1>1. PICK x : x = disk.sk[s] \ {k}
  OBVIOUS
<1>2. disk' = [disk EXCEPT !.sk[s] = x]
  BY <1>1 DEF removeKeysFromSk
<1>3. disk'.key = disk.key /\ disk'.sk[s] = x /\ \A t \in Sk : t # s => disk'.sk[t] = disk.sk[t]
  BY <1>2 DEF Disk
<1> QED BY <1>1, <1>3

\* A process that dies leaves to Load what it had in its buffer.
LEMMA DownFile ==
    ASSUME FileInv, CtlInv', Down, wal' = wal, early' = early,
           \A k \in Key : Uncovered(k)' => Uncovered(k) \/ pend[k] # NotPending
    PROVE  FileInv'
<1>1. /\ mode' = "down" /\ replayed' = 0 /\ batch' = NoBatch /\ client' = Idle
      /\ pend' = [k \in Key |-> NotPending]
  BY DEF Down
<1>2. HalfDone'
  BY <1>1 DEF HalfDone, inIndex
<1>3. ASSUME NEW k \in Key PROVE Repeats(k)'
  <2>1. pend'[k] = NotPending /\ client'.at = "idle" /\ replayed' = 0
    BY <1>1 DEF Idle
  <2>2. \A i \in 1..Len(wal) : i > 0
    OBVIOUS
  <2>3. Logged(k) => ToReplay(k)'
    BY <1>1, <2>2 DEF Logged, ToReplay
  <2>4. ToReplay(k) => Logged(k)
    BY DEF Logged, ToReplay
  <2>5. Repeats(k)
    BY DEF FileInv
  <2>6. ~ atHand(k)' /\ (k \in early' <=> k \in early)
    BY <2>1 DEF atHand
  <2> QED BY <1>1, <2>1, <2>3, <2>4, <2>5, <2>6 DEF Repeats
<1> QED BY <1>2, <1>3 DEF FileInv

\* An operation that ends leaves its key's files complete or stays in the buffer.
LEMMA EndFile ==
    ASSUME FileInv, CtlInv', batch # NoBatch, wal' = wal,
           NEW ok \in BOOLEAN, endOp(ok),
           \A k \in Key : Uncovered(k)' => Uncovered(k),
           \A k \in Key : ok /\ k = batch.key => ~ Uncovered(k)'
    PROVE  FileInv'
<1>1. CASE Down /\ early' = early
  BY <1>1, DownFile
<1>2. CASE ~ (Down /\ early' = early)
  <2>1. Memory /\ pend \in Ops /\ client \in Client
    BY DEF FileInv, CtlInv, Memory
  <2>2. /\ mode' = mode /\ replayed' = replayed
        /\ pend' = IF ok THEN [pend EXCEPT ![batch.key] = NotPending] ELSE pend
        /\ \/ early' = early
           \/ ok /\ ~atHand(batch.key) /\ early' = early \ {batch.key}
        /\ \/ /\ ok /\ pending(pend') # {}
              /\ batch' = flushFrom(batch.by, pend') /\ client' = client
           \/ /\ batch' = NoBatch
              /\ \/ client' = client
                 \/ client' = Idle
                 \/ client.at = "flushing" /\ client' = [client EXCEPT !.at = "rlock"]
    BY <1>2, <2>1, EndOp
  <2>3. HalfDone'
    <3>1. batch' = NoBatch \/ batch'.at = "lock"
      BY <2>2 DEF flushFrom
    <3> QED BY <3>1 DEF HalfDone, inIndex
  <2>4. client'.at = "logged" => client' = client
    <3>1. client.at = "flushing" => client = [at |-> client.at, sk |-> client.sk]
      BY <2>1, ClientType
    <3>2. client.at = "flushing" => [client EXCEPT !.at = "rlock"].at = "rlock"
      BY <3>1
    <3>3. Idle.at = "idle"
      BY DEF Idle
    <3>4. \/ client' = client \/ client' = Idle
          \/ client.at = "flushing" /\ client' = [client EXCEPT !.at = "rlock"]
      BY <2>2, Zenon
    <3> QED BY <3>2, <3>3, <3>4
  <2>5. ASSUME NEW k \in Key PROVE Repeats(k)'
    <3>1. pend'[k] = pend[k] \/ (ok /\ k = batch.key /\ pend'[k] = NotPending)
      BY <2>1, <2>2 DEF Ops
    <3>2. atHand(k)' => atHand(k)
      BY <2>4 DEF atHand
    <3>3. Logged(k)' = Logged(k) /\ ToReplay(k)' = ToReplay(k) /\ mode' = mode
      BY <2>2 DEF Logged, ToReplay
    <3>4. Repeats(k) /\ (Uncovered(k)' => Uncovered(k))
      BY DEF FileInv
    <3>5. CASE ok /\ k = batch.key
      <4>1. pend'[k] = NotPending /\ ~ Uncovered(k)'
        BY <2>1, <2>2, <3>5 DEF Ops
      <4>2. CASE k \in early'
        BY <4>2 DEF Repeats
      <4>3. CASE k \notin early' /\ k \in early
        <5>1. ~ atHand(k)
          BY <2>2, <3>5, <4>3
        <5> QED BY <3>2, <4>1, <5>1 DEF Repeats
      <4>4. CASE k \notin early
        BY <3>2, <3>3, <3>4, <4>1, <4>4 DEF Repeats
      <4> QED BY <4>2, <4>3, <4>4
    <3>6. CASE ~ (ok /\ k = batch.key)
      <4>1. pend'[k] = pend[k] /\ (k \in early' <=> k \in early)
        BY <2>2, <3>1, <3>6
      <4> QED BY <3>2, <3>3, <3>4, <4>1 DEF Repeats
    <3> QED BY <3>5, <3>6
  <2> QED BY <2>3, <2>5 DEF FileInv
<1> QED BY <1>1, <1>2

\* Steps that write nothing.
LEMMA FrameFile ==
    ASSUME FileInv, CtlInv', UNCHANGED <<disk, wal, replayed, pend, early>>,
           mode' = mode \/ (mode' # "up" /\ mode # "up"),
           client' = client \/ client'.at # "logged",
           \/ batch' = batch
           \/ batch'.at # "index" 
           \/ batch'.at = batch.at /\ batch'.key = batch.key /\ batch'.sk = batch.sk
              /\ batch # NoBatch
    PROVE  FileInv'
<1>1. HalfDone'
  BY DEF FileInv, HalfDone, inIndex
<1>2. ASSUME NEW k \in Key PROVE Repeats(k)'
  <2>1. /\ Logged(k)' = Logged(k) /\ ToReplay(k)' = ToReplay(k)
        /\ Uncovered(k)' = Uncovered(k) /\ pend'[k] = pend[k]
        /\ atHand(k)' => atHand(k)
    BY DEF Logged, ToReplay, Uncovered, readable, atHand
  <2> QED BY <2>1 DEF FileInv, Repeats
<1> QED BY <1>1, <1>2 DEF FileInv

LEMMA SetFileInv ==
    ASSUME FileInv, CtlInv', SetFile
    PROVE  FileInv'
<1> DEFINE b == batch.key
<1>1. /\ inFile /\ batch # NoBatch /\ pend[b] # None /\ wal' = wal
      /\ disk' = writeKeyFile(disk, b, pend[b])
      /\ IF pend[b] = NoSk THEN endOp(TRUE) ELSE goToIndex(pend[b])
  BY DEF SetFile, inFile
<1>2. b \in Key /\ disk \in Disk /\ pend[b] \in Op /\ pend[b] \in Item /\ batch \in Batch
  BY <1>1, AtKey DEF FileInv, CtlInv, Memory
<1>3. /\ disk'.sk = disk.sk
      /\ \A j \in Key : disk'.key[j] = IF j = b THEN pend[b] ELSE disk.key[j]
  BY <1>1, <1>2 DEF writeKeyFile, Disk
<1>4. \A k \in Key : k # b => (Uncovered(k)' <=> Uncovered(k))
  BY <1>3 DEF Uncovered, readable
<1>5. CASE pend[b] = NoSk
  <2>1. ASSUME NEW k \in Key, k = b PROVE ~ Uncovered(k)'
    BY <1>3, <1>5, <2>1, NoItems DEF Uncovered
  <2>2. endOp(TRUE)
    BY <1>1, <1>5
  <2> QED BY <1>1, <1>4, <2>1, <2>2, EndFile
<1>6. CASE pend[b] # NoSk
  <2>1. /\ batch' = [batch EXCEPT !.at = "index", !.sk = pend[b]]
        /\ UNCHANGED <<mode, replayed, pend, client, mapped, early>>
    BY <1>1, <1>6 DEF goToIndex
  <2>2. batch'.key = b /\ batch'.sk = pend[b]
    <3>1. batch \in BusyBatch
      BY <1>1, <1>2, BatchType
    <3> QED BY <2>1, <3>1 DEF BusyBatch
  <2>3. HalfDone'
    BY <1>2, <1>3, <2>1, <2>2 DEF HalfDone
  <2>4. ASSUME NEW k \in Key PROVE Repeats(k)'
    <3>1. /\ Logged(k)' = Logged(k) /\ ToReplay(k)' = ToReplay(k) /\ Repeats(k)
          /\ atHand(k)' = atHand(k)
      BY <1>1, <2>1 DEF Logged, ToReplay, FileInv, atHand
    <3>2. k = b => pend[k] # NotPending
      BY <1>2, NoItems
    <3> QED BY <1>4, <2>1, <3>1, <3>2 DEF Repeats
  <2> QED BY <2>3, <2>4 DEF FileInv
<1> QED BY <1>5, <1>6

LEMMA DelFileInv ==
    ASSUME FileInv, CtlInv', DelFile
    PROVE  FileInv'
<1> DEFINE b == batch.key
<1>1. batch # NoBatch /\ pend[b] = None /\ wal' = wal
  BY DEF DelFile, inFile
<1>2. b \in Key /\ disk \in Disk /\ batch \in Batch /\ None \in Op \cup {Torn}
  BY <1>1, AtKey DEF FileInv, CtlInv, Memory, Op
<1>3. CASE ~ exists(disk, b)
  <2>1. endOp(TRUE) /\ disk' = disk
    BY <1>3 DEF DelFile, missingIsDone
  <2>2. \A k \in Key : Uncovered(k)' <=> Uncovered(k)
    BY <2>1 DEF Uncovered, readable
  <2>3. ~ Uncovered(b)
    BY <1>3 DEF Uncovered, exists, Item
  <2>4. \A k \in Key : k = b => ~ Uncovered(k)'
    BY <2>2, <2>3
  <2> QED BY <1>1, <2>1, <2>2, <2>4, EndFile
<1>4. CASE exists(disk, b)
  <2>1. /\ disk' = removeKeyFile(disk, b)
        /\ IF disk.key[b] = NoSk THEN endOp(TRUE) ELSE goToIndex(disk.key[b])
    BY <1>4 DEF DelFile
  <2>2. /\ disk'.sk = disk.sk
        /\ \A j \in Key : disk'.key[j] = IF j = b THEN None ELSE disk.key[j]
    BY <1>2, <2>1 DEF removeKeyFile, Disk
  <2>3. \A k \in Key : k # b => (Uncovered(k)' <=> Uncovered(k))
    BY <2>2 DEF Uncovered, readable
  <2>4. \A k \in Key : k = b => ~ Uncovered(k)'
    BY <2>2, NoItems DEF Uncovered, Item
  <2>5. CASE disk.key[b] = NoSk
    BY <1>1, <2>1, <2>3, <2>4, <2>5, EndFile
  <2>6. CASE disk.key[b] # NoSk
    <3>1. /\ batch' = [batch EXCEPT !.at = "index", !.sk = disk.key[b]]
          /\ UNCHANGED <<mode, replayed, pend, client, mapped, early>>
      BY <2>1, <2>6 DEF goToIndex
    <3>2. batch'.key = b
      <4>1. batch \in BusyBatch
        BY <1>1, <1>2, BatchType
      <4> QED BY <3>1, <4>1 DEF BusyBatch
    <3>3. HalfDone'
      BY <1>1, <1>2, <2>2, <3>1, <3>2 DEF HalfDone
    <3>4. ASSUME NEW k \in Key PROVE Repeats(k)'
      <4>1. /\ Logged(k)' = Logged(k) /\ ToReplay(k)' = ToReplay(k) /\ Repeats(k)
            /\ atHand(k)' = atHand(k)
        BY <1>1, <3>1 DEF Logged, ToReplay, FileInv, atHand
      <4> QED BY <2>3, <2>4, <3>1, <4>1 DEF Repeats
    <3> QED BY <3>3, <3>4 DEF FileInv
  <2> QED BY <2>5, <2>6
<1> QED BY <1>3, <1>4

LEMMA SetIndexInv ==
    ASSUME FileInv, CtlInv', SetIndex
    PROVE  FileInv'
<1> DEFINE b == batch.key
<1>1. /\ inIndex /\ batch # NoBatch /\ wal' = wal /\ pend[b] # None
  BY DEF SetIndex, inIndex
<1>2. /\ b \in Key /\ disk \in Disk /\ batch.sk \in Sk /\ None \in Op \cup {Torn}
      /\ disk.key[b] = batch.sk
  BY <1>1, AtKey DEF FileInv, CtlInv, Control, HalfDone, Op
<1>3. CASE readable(disk, batch.sk)
  <2>1. disk' = appendKeysToSk(disk, batch.sk, {b}) /\ endOp(TRUE)
    BY <1>3 DEF SetIndex
  <2>2. /\ disk'.key = disk.key /\ disk'.sk[batch.sk] = disk.sk[batch.sk] \cup {b}
        /\ \A t \in Sk : t # batch.sk => disk'.sk[t] = disk.sk[t]
    BY <1>2, <2>1, IndexAppend, Zenon
  <2>3. b \in disk'.sk[batch.sk]
    BY <2>2
  <2>4. \A k \in Key, t \in Sk : k \notin disk'.sk[t] => k \notin disk.sk[t]
    BY <2>2
  <2>5. ASSUME NEW k \in Key PROVE Uncovered(k)' => Uncovered(k)
    BY <1>3, <2>2, <2>4 DEF Uncovered, readable
  <2>6. ASSUME NEW k \in Key, k = b PROVE ~ Uncovered(k)'
    BY <1>2, <2>2, <2>3, <2>6 DEF Uncovered
  <2> QED BY <1>1, <2>1, <2>5, <2>6, EndFile
<1>4. CASE ~ readable(disk, batch.sk)
  <2>1. disk' = disk /\ endOp(FALSE)
    BY <1>4 DEF SetIndex
  <2>2. \A k \in Key : Uncovered(k)' <=> Uncovered(k)
    BY <2>1 DEF Uncovered, readable
  <2> QED BY <1>1, <2>1, <2>2, EndFile
<1> QED BY <1>3, <1>4

LEMMA DelIndexInv ==
    ASSUME FileInv, CtlInv', DelIndex
    PROVE  FileInv'
<1> DEFINE b == batch.key
<1>1. inIndex /\ batch # NoBatch /\ wal' = wal /\ pend[b] = None
  BY DEF DelIndex, inIndex
<1>2. b \in Key /\ disk \in Disk /\ batch.sk \in Sk /\ disk.key[b] = None
  BY <1>1, AtKey DEF FileInv, CtlInv, Control, HalfDone
<1>3. CASE readable(disk, batch.sk) /\ disk.sk[batch.sk] # {}
  <2>1. disk' = removeKeysFromSk(disk, batch.sk, {b}) /\ endOp(TRUE)
    BY <1>3 DEF DelIndex
  <2>2. /\ disk'.key = disk.key /\ disk'.sk[batch.sk] = disk.sk[batch.sk] \ {b}
        /\ \A t \in Sk : t # batch.sk => disk'.sk[t] = disk.sk[t]
    BY <1>2, <2>1, IndexRemove, Zenon
  <2>3. \A k \in Key, t \in Sk : k # b /\ k \notin disk'.sk[t] => k \notin disk.sk[t]
    BY <2>2
  <2>4. ASSUME NEW k \in Key, k = b PROVE ~ Uncovered(k)'
    BY <1>2, <2>2, <2>4, NoItems DEF Uncovered, Item
  <2>5. ASSUME NEW k \in Key PROVE Uncovered(k)' => Uncovered(k)
    BY <1>3, <2>2, <2>3, <2>4 DEF Uncovered, readable
  <2> QED BY <1>1, <2>1, <2>4, <2>5, EndFile
<1>4. CASE ~ (readable(disk, batch.sk) /\ disk.sk[batch.sk] # {})
  <2>1. disk' = disk /\ endOp(FALSE)
    BY <1>4 DEF DelIndex
  <2>2. \A k \in Key : Uncovered(k)' <=> Uncovered(k)
    BY <2>1 DEF Uncovered, readable
  <2> QED BY <1>1, <2>1, <2>2, EndFile
<1> QED BY <1>3, <1>4

LEMMA LogFile ==
    ASSUME FileInv, CtlInv', NEW r \in requests, LogRequest(r)
    PROVE  FileInv'
<1> DEFINE ks == SetToSeq(DOMAIN r)
           es == [i \in DOMAIN ks |-> [key |-> ks[i], op |-> r[ks[i]]]]
<1>1. /\ es \in Seq(Entry)
      /\ \A k \in DOMAIN r : \E i \in 1..Len(es) : es[i].key = k
  BY Logs
<1>2. /\ wal' = wal \o es /\ mode = "up" /\ client' = [at |-> "logged", items |-> r]
      /\ UNCHANGED <<disk, mode, replayed, pend, batch, early>>
  BY DEF LogRequest, mayStart, history
<1> HIDE DEF es, ks
<1>3. wal \in Seq(Entry)
  BY DEF FileInv, CtlInv, Stored
<1>4. /\ Len(wal') = Len(wal) + Len(es) /\ Len(wal) \in Nat /\ Len(es) \in Nat
      /\ \A i \in 1..Len(wal) : wal'[i] = wal[i]
      /\ \A i \in 1..Len(es) : wal'[Len(wal) + i] = es[i]
  BY <1>1, <1>2, <1>3
<1>5. HalfDone'
  BY <1>2 DEF FileInv, HalfDone, inIndex
<1>6. ASSUME NEW k \in Key PROVE Repeats(k)'
  <2>1. Logged(k) => Logged(k)'
    <3>1. ASSUME NEW i \in 1..Len(wal), wal[i].key = k
          PROVE  i \in 1..Len(wal') /\ wal'[i].key = k
      BY <1>4, <3>1
    <3> QED BY <3>1 DEF Logged
  <2>2. k \in DOMAIN r => Logged(k)'
    <3>1. ASSUME NEW i \in 1..Len(es), es[i].key = k
          PROVE  Len(wal) + i \in 1..Len(wal') /\ wal'[Len(wal) + i].key = k
      BY <1>4, <3>1
    <3> QED BY <1>1, <3>1 DEF Logged
  <2>3. atHand(k)' => k \in DOMAIN r
    BY <1>2 DEF atHand
  <2>4. Uncovered(k)' = Uncovered(k) /\ pend'[k] = pend[k] /\ Repeats(k)
    BY <1>2 DEF Uncovered, readable, FileInv
  <2> QED BY <1>2, <2>1, <2>2, <2>3, <2>4 DEF Repeats
<1> QED BY <1>5, <1>6 DEF FileInv

LEMMA MergeFile ==
    ASSUME FileInv, CtlInv', Merge
    PROVE  FileInv'
<1>1. /\ client.at = "logged" /\ batch = NoBatch /\ pend' = merge(client.items)
      /\ \/ client' = Idle /\ batch' = batch
         \/ client' = [at |-> "writing"] /\ batch' = flushFrom("client", pend')
      /\ UNCHANGED <<disk, wal, mode, replayed, early>>
  BY DEF Merge, history
<1>2. mode = "up"
  BY <1>1, ClientUp DEF FileInv
<1>3. client'.at # "logged" /\ (batch' = NoBatch \/ batch'.at = "lock")
  BY <1>1 DEF Idle, flushFrom
<1>4. HalfDone'
  BY <1>3 DEF HalfDone, inIndex
<1>5. ASSUME NEW k \in Key PROVE Repeats(k)'
  <2>1. pend'[k] = IF k \in DOMAIN client.items THEN client.items[k] ELSE pend[k]
    BY <1>1 DEF merge
  <2>2. Logged(k)' = Logged(k) /\ Uncovered(k)' = Uncovered(k) /\ Repeats(k)
    BY <1>1 DEF Logged, Uncovered, readable, FileInv
  <2>3. k \in DOMAIN client.items => client.items[k] # NotPending /\ atHand(k)
    <3>1. client.items \in Batches
      BY <1>1, MergeType DEF FileInv
    <3> QED BY <1>1, <3>1, BatchesType, NoItems DEF atHand
  <2>4. ~ atHand(k)'
    BY <1>3 DEF atHand
  <2> QED BY <1>1, <1>2, <2>1, <2>2, <2>3, <2>4 DEF Repeats
<1> QED BY <1>4, <1>5 DEF FileInv

LEMMA LoadFile ==
    ASSUME FileInv, CtlInv', LoadStep
    PROVE  FileInv'
<1>1. /\ client' = client /\ disk' = disk /\ early' = early
      /\ wal \in Seq(Entry) /\ replayed \in 0..Len(wal) /\ Len(wal) \in Nat
  BY DEF LoadStep, Load, Replay, LoadCheckpoint, FileInv, CtlInv, Stored, Memory, history
<1>2. mode # "up" /\ client = Idle /\ client.at = "idle" /\ batch = NoBatch
  BY DEF LoadStep, Load, Replay, LoadCheckpoint, FileInv, CtlInv, Control, Idle
<1>3. HalfDone'
  <2>1. batch' = NoBatch \/ batch'.at = "lock"
    BY <1>2 DEF LoadStep, Load, Replay, LoadCheckpoint, flushFrom
  <2> QED BY <2>1 DEF HalfDone, inIndex
<1>4. ASSUME NEW k \in Key PROVE Repeats(k)'
  <2>1. Uncovered(k)' = Uncovered(k) /\ Repeats(k) /\ ~ atHand(k)'
    BY <1>1, <1>2 DEF Uncovered, readable, FileInv, atHand
  <2>2. CASE Load \/ (LoadCheckpoint /\ pending(pend) # {})
    <3>1. /\ wal' = wal /\ replayed' = replayed /\ pend' = pend
          /\ mode' # "up"
      BY <1>2, <2>2 DEF Load, LoadCheckpoint
    <3>2. Logged(k)' = Logged(k) /\ ToReplay(k)' = ToReplay(k)
      BY <3>1 DEF Logged, ToReplay
    <3> QED BY <1>1, <1>2, <2>1, <3>1, <3>2 DEF Repeats
  <2>3. CASE Replay
    <3> DEFINE e == wal[replayed + 1]
    <3>1. /\ replayed < Len(wal) /\ replayed' = replayed + 1 /\ mode' = mode
          /\ pend' = [pend EXCEPT ![e.key] = e.op] /\ wal' = wal
      BY <2>3 DEF Replay
    <3>2. e \in Entry /\ replayed + 1 \in 1..Len(wal) /\ pend \in Ops
      BY <1>1, <3>1 DEF FileInv, CtlInv, Memory
    <3>3. e.key \in Key /\ e.op # NotPending
      BY <3>2, NoItems DEF Entry
    <3>4. Logged(e.key) /\ Logged(k)' = Logged(k)
      BY <3>1, <3>2 DEF Logged
    <3>5. ASSUME k # e.key PROVE ToReplay(k) => ToReplay(k)'
      <4>1. ASSUME NEW i \in 1..Len(wal), i > replayed, wal[i].key = k
            PROVE  i > replayed'
        BY <1>1, <3>1, <3>5, <4>1
      <4> QED BY <3>1, <4>1 DEF ToReplay
    <3> HIDE DEF e
    <3>6. pend'[k] = IF k = e.key THEN e.op ELSE pend[k]
      BY <3>1, <3>2 DEF Ops
    <3> QED BY <1>1, <1>2, <2>1, <3>1, <3>3, <3>4, <3>5, <3>6 DEF Repeats
  <2>4. CASE LoadCheckpoint /\ pending(pend) = {}
    <3>1. replayed = Len(wal) /\ pend' = pend /\ pend[k] = NotPending
      BY <2>4 DEF LoadCheckpoint, pending
    <3>2. ~ ToReplay(k)
      BY <1>1, <3>1 DEF ToReplay
    <3> QED BY <1>1, <1>2, <2>1, <3>1, <3>2 DEF Repeats
  <2> QED BY <2>2, <2>3, <2>4 DEF LoadStep
<1> QED BY <1>3, <1>4 DEF FileInv

LEMMA EndsFile ==
    ASSUME FileInv, CtlInv', Crash \/ MapRace
    PROVE  FileInv'
<1>1. /\ Down /\ wal' = wal /\ early' = early /\ disk \in Disk
      /\ \/ disk' = disk
         \/ batch # NoBatch /\ disk' = writeKeyFile(disk, batch.key, Torn)
         \/ inIndex /\ disk' = [disk EXCEPT !.sk[batch.sk] = Torn]
  BY DEF Crash, MapRace, FileInv, CtlInv, Stored, inFile, rewrites, history
<1>2. ASSUME NEW k \in Key PROVE Uncovered(k)' => Uncovered(k)
  <2>1. CASE disk' = disk
    BY <2>1 DEF Uncovered, readable
  <2>2. CASE batch # NoBatch /\ disk' = writeKeyFile(disk, batch.key, Torn)
    <3>1. /\ disk'.sk = disk.sk
          /\ \A j \in Key : disk'.key[j] = IF j = batch.key THEN Torn ELSE disk.key[j]
      BY <1>1, <2>2 DEF writeKeyFile, Disk
    <3> QED BY <3>1, NoItems DEF Uncovered, readable, Op, Item
  <2>3. CASE inIndex /\ disk' = [disk EXCEPT !.sk[batch.sk] = Torn]
    <3>1. /\ disk'.key = disk.key
          /\ \A t \in Sk : disk'.sk[t] = IF t = batch.sk THEN Torn ELSE disk.sk[t]
      BY <1>1, <2>3 DEF Disk
    <3> QED BY <3>1 DEF Uncovered, readable
  <2> QED BY <1>1, <2>1, <2>2, <2>3
<1> QED BY <1>1, <1>2, DownFile

LEMMA CheckpointFile ==
    ASSUME FileInv, CtlInv', CheckpointFlush \/ SaveLastSeq
    PROVE  FileInv'
<1>1. CASE CheckpointFlush
  <2>1. /\ UNCHANGED <<disk, wal, mode, replayed, pend, client, early>>
        /\ batch' = batch \/ batch'.at = "lock"
    BY <1>1 DEF CheckpointFlush, flushFrom, history
  <2> QED BY <2>1, FrameFile
<1>2. CASE SaveLastSeq
  <2>1. /\ ckpt = "flushed" /\ early' = early \cup {k \in Key : unwritten(k)}
        /\ UNCHANGED <<disk, mode, replayed, pend, batch, client>>
    BY <1>2 DEF SaveLastSeq
  <2>2. mode = "up"
    BY <2>1 DEF FileInv, CtlInv, Control
  <2>3. HalfDone'
    BY <2>1 DEF FileInv, HalfDone, inIndex
  <2>4. ASSUME NEW k \in Key PROVE Repeats(k)'
    <3>1. /\ Uncovered(k)' = Uncovered(k) /\ pend'[k] = pend[k] /\ Repeats(k)
          /\ atHand(k)' = atHand(k)
      BY <2>1 DEF Uncovered, readable, FileInv, atHand
    <3>2. CASE unwritten(k)
      BY <2>1, <3>2 DEF Repeats
    <3>3. CASE ~ unwritten(k)
      <4>1. pend[k] = NotPending /\ ~ atHand(k)
        BY <3>3 DEF unwritten
      <4>2. k \in early => k \in early'
        BY <2>1
      <4> QED BY <2>1, <2>2, <3>1, <4>1, <4>2 DEF Repeats
    <3> QED BY <3>2, <3>3
  <2> QED BY <2>3, <2>4 DEF FileInv
<1> QED BY <1>1, <1>2

\* How far a reader is after an item.
LEMMA ItemRead ==
    ASSUME CtlInv, NEW k \in Key, ReadItem(k)
    PROVE  /\ client.at = "items" /\ client.sk \in Sk
           /\ UNCHANGED <<disk, wal, mode, replayed, pend, batch, ckpt, bounds, history>>
           /\ \/ client' = Idle
              \/ /\ client'.at = "found" /\ client'.sk = client.sk /\ client.todo = {k}
                 /\ client'.found = client.found \cup {k}
              \/ /\ client'.at = "items" /\ client'.sk = client.sk
                 /\ client'.todo = client.todo \ {k} /\ client'.found = client.found \cup {k}
<1>1. /\ client.at = "items"
      /\ UNCHANGED <<disk, wal, mode, replayed, pend, batch, ckpt, bounds, history>>
      /\ \/ client' = Idle
         \/ /\ client' = [at |-> "found", sk |-> client.sk, found |-> client.found \cup {k}]
            /\ client.todo = {k}
         \/ client' = [client EXCEPT !.todo = @ \ {k}, !.found = @ \cup {k}]
  BY DEF ReadItem
<1>2. client \in ItemsRead
  BY <1>1, ClientType DEF CtlInv, Memory
<1>3. PICK t, f : t = client.todo \ {k} /\ f = client.found \cup {k}
  OBVIOUS
<1>4. CASE client' = [client EXCEPT !.todo = @ \ {k}, !.found = @ \cup {k}]
  <2>1. client' = [client EXCEPT !.todo = t, !.found = f]
    BY <1>3, <1>4
  <2>2. /\ client'.at = "items" /\ client'.sk = client.sk
        /\ client'.todo = t /\ client'.found = f
    BY <1>2, <2>1 DEF ItemsRead
  <2> QED BY <1>1, <1>2, <1>3, <2>2 DEF ItemsRead
<1>5. CASE /\ client' = [at |-> "found", sk |-> client.sk, found |-> client.found \cup {k}]
           /\ client.todo = {k}
  BY <1>1, <1>2, <1>5 DEF ItemsRead
<1>6. CASE client' = Idle
  BY <1>1, <1>2, <1>6 DEF ItemsRead
<1> QED BY <1>1, <1>4, <1>5, <1>6

\* Steps that write no file and nothing to the buffer.
LEMMA QuietFile ==
    ASSUME FileInv, CtlInv',
           \/ CreateTable \/ TaskFlush \/ Lock \/ LockWaits
           \/ \E s \in Sk : GetBySk(s)
           \/ ReadIndex \/ Answer \/ RLock \/ RUnlock
           \/ \E k \in Key : ReadItem(k)
           \/ \E k \in Key : Get(k)
    PROVE  FileInv'
<1>1. batch \in Batch /\ client \in Client /\ Idle.at # "logged"
  BY DEF FileInv, CtlInv, Memory, Idle
<1>2. ASSUME batch # NoBatch
      PROVE  /\ \A x : [batch EXCEPT !.at = x].at = x
             /\ [batch EXCEPT !.replaced = TRUE].at = batch.at
             /\ [batch EXCEPT !.replaced = TRUE].key = batch.key
             /\ [batch EXCEPT !.replaced = TRUE].sk = batch.sk
  <2>1. batch \in BusyBatch
    BY <1>1, <1>2, BatchType
  <2> QED BY <2>1 DEF BusyBatch
<1>3. CASE CreateTable
  <2>1. /\ UNCHANGED <<disk, wal, mode, replayed, pend, client, early>>
        /\ \/ batch' = batch
           \/ batch # NoBatch /\ batch' = [batch EXCEPT !.replaced = TRUE]
    BY <1>3 DEF CreateTable, history
  <2> QED BY <1>2, <2>1, FrameFile
<1>4. CASE Lock \/ LockWaits
  <2>1. /\ UNCHANGED <<disk, wal, mode, replayed, pend, client, early>> /\ batch # NoBatch
        /\ \/ batch' = [batch EXCEPT !.at = "file"]
           \/ batch' = [batch EXCEPT !.at = "waiting"]
    BY <1>4 DEF Lock, LockWaits, history
  <2> QED BY <1>2, <2>1, FrameFile
<1>5. CASE TaskFlush \/ \E s \in Sk : GetBySk(s)
  <2>1. /\ UNCHANGED <<disk, wal, mode, replayed, pend, early>>
        /\ batch' = batch \/ batch'.at = "lock"
        /\ client' = client \/ client'.at \in {"rlock", "flushing"}
    BY <1>5 DEF TaskFlush, GetBySk, flushFrom, history
  <2> QED BY <2>1, FrameFile
<1>6. CASE \/ ReadIndex \/ Answer \/ RLock \/ RUnlock
           \/ \E k \in Key : Get(k)
  <2>1. /\ UNCHANGED <<disk, wal, mode, replayed, pend, batch, early>>
        /\ client'.at # "logged"
    BY <1>1, <1>6 DEF ReadIndex, Answer, RLock, RUnlock, Get, history
  <2> QED BY <2>1, FrameFile
<1>7. ASSUME NEW k \in Key, ReadItem(k) PROVE FileInv'
  <2>1. /\ UNCHANGED <<disk, wal, mode, replayed, pend, batch, early>>
        /\ client' = Idle \/ client'.at \in {"items", "found"}
    BY <1>7, ItemRead DEF FileInv, history
  <2> QED BY <1>1, <2>1, FrameFile
<1> QED BY <1>3, <1>4, <1>5, <1>6, <1>7

LEMMA InitFile == Init => FileInv
<1> SUFFICES ASSUME Init PROVE FileInv
  OBVIOUS
<1>1. /\ pend = [k \in Key |-> NotPending] /\ batch = NoBatch /\ client = Idle
      /\ disk = [key |-> [k \in Key |-> None], sk |-> [s \in Sk |-> {}]]
  BY DEF Init
<1>2. HalfDone
  BY <1>1 DEF HalfDone, inIndex
<1>3. ASSUME NEW k \in Key PROVE Repeats(k)
  <2>1. pend[k] = NotPending /\ client.at = "idle" /\ disk.key[k] = None
    BY <1>1 DEF Idle
  <2>2. ~ Uncovered(k)
    BY <2>1, NoItems DEF Uncovered, Item
  <2> QED BY <2>1, <2>2 DEF Repeats, atHand
<1> QED BY <1>2, <1>3, InitCtl DEF FileInv

LEMMA NextFile == FileInv /\ [Next]_vars => FileInv'
<1> SUFFICES ASSUME FileInv, [Next]_vars PROVE FileInv'
  OBVIOUS
<1>0. CtlInv'
  BY NextCtl DEF FileInv
<1>1. ASSUME NEW r \in requests, LogRequest(r) PROVE FileInv'
  BY <1>0, <1>1, LogFile
<1>2. CASE Merge
  BY <1>0, <1>2, MergeFile
<1>3. CASE SetFile \/ DelFile \/ SetIndex \/ DelIndex
  BY <1>0, <1>3, SetFileInv, DelFileInv, SetIndexInv, DelIndexInv
<1>4. CASE \/ CreateTable \/ TaskFlush \/ Lock \/ LockWaits
           \/ \E s \in Sk : GetBySk(s)
           \/ ReadIndex \/ Answer \/ RLock \/ RUnlock
           \/ \E k \in Key : ReadItem(k)
           \/ \E k \in Key : Get(k)
  BY <1>0, <1>4, QuietFile
<1>5. CASE LoadStep
  BY <1>0, <1>5, LoadFile
<1>6. CASE Crash \/ MapRace
  BY <1>0, <1>6, EndsFile
<1>7. CASE CheckpointFlush \/ SaveLastSeq
  BY <1>0, <1>7, CheckpointFile
<1>8. CASE UNCHANGED vars
  BY <1>0, <1>8, FrameFile DEF vars, history
<1> QED BY <1>1, <1>2, <1>3, <1>4, <1>5, <1>6, <1>7, <1>8 DEF Next, FlushStep

LEMMA FilesHold == Spec => []FileInv
BY InitFile, NextFile, PTL DEF Spec

LEMMA CompleteOf == FileInv => IndexComplete
<1> SUFFICES ASSUME FileInv, quiet, NEW k \in Key \ early,
                    disk.key[k] \in Sk, pend[k] = NotPending,
                    readable(disk, disk.key[k])
             PROVE  k \in disk.sk[disk.key[k]]
  BY DEF IndexComplete
<1>1. Repeats(k) /\ mode = "up"
  BY DEF FileInv, quiet
<1> QED BY <1>1 DEF Repeats, Uncovered

\* Whatever crash, failed flush or replay came between the two files of a Set
\* (base.go: the key file, then the index), an applied item is named by the
\* index of its secondary key once the node is up and no flush is under way,
\* unless a checkpoint covered its operation before it was in the files.
THEOREM IndexIsComplete == Spec => []IndexComplete
BY FilesHold, CompleteOf, PTL

-----------------------------------------------------------------------------
(* Answers by secondary key *)

\* No file is written while a GetBySk reads.
LEMMA NextRead == FileInv /\ FileInv' /\ ReadInv /\ [Next]_vars => ReadInv'
<1> SUFFICES ASSUME FileInv, FileInv', ReadInv, [Next]_vars PROVE ReadInv'
  OBVIOUS
<1>1. CtlInv /\ CtlInv' /\ client \in Client /\ Idle.at = "idle"
  BY DEF FileInv, CtlInv, Memory, Idle
<1>2. ASSUME client' = client, disk' = disk PROVE ReadInv'
  BY <1>2 DEF ReadInv, readable
<1>3. ASSUME client'.at \notin {"items", "found"} PROVE ReadInv'
  BY <1>3 DEF ReadInv
<1>4. ASSUME NEW r \in requests, LogRequest(r) PROVE ReadInv'
  BY <1>3, <1>4 DEF LogRequest
<1>5. CASE Merge
  <2>1. client'.at \notin {"items", "found"}
    BY <1>1, <1>5 DEF Merge
  <2> QED BY <1>3, <2>1
<1>6. CASE \/ CreateTable \/ TaskFlush \/ CheckpointFlush \/ SaveLastSeq
           \/ Lock \/ LockWaits \/ LoadStep
  BY <1>2, <1>6 DEF CreateTable, TaskFlush, CheckpointFlush, SaveLastSeq, Lock, LockWaits,
                    LoadStep, Load, Replay, LoadCheckpoint
<1>7. CASE SetFile \/ DelFile \/ SetIndex \/ DelIndex
  <2>1. /\ batch # NoBatch
        /\ \/ \E ok \in BOOLEAN : endOp(ok)
           \/ \E s : goToIndex(s)
    BY <1>7 DEF SetFile, DelFile, SetIndex, DelIndex, inFile, inIndex, missingIsDone
  <2>2. client.at \notin {"items", "found"}
    BY <1>1, <2>1 DEF CtlInv, Control
  <2>3. client' = client \/ client'.at \notin {"items", "found"}
    <3>1. CASE \E ok \in BOOLEAN : endOp(ok)
      <4>1. PICK ok \in BOOLEAN : endOp(ok)
        BY <3>1
      <4>2. \/ client' = client \/ client' = Idle
            \/ client.at = "flushing" /\ client' = [client EXCEPT !.at = "rlock"]
        BY <1>1, <2>1, <4>1, EndOp DEF CtlInv, Down
      <4>3. client.at = "flushing" => client = [at |-> client.at, sk |-> client.sk]
        BY <1>1, ClientType
      <4>4. client.at = "flushing" => [client EXCEPT !.at = "rlock"].at = "rlock"
        BY <4>3
      <4> QED BY <1>1, <4>2, <4>4
    <3>2. CASE \E s : goToIndex(s)
      BY <3>2 DEF goToIndex
    <3> QED BY <2>1, <3>1, <3>2
  <2> QED BY <1>3, <2>2, <2>3
<1>8. CASE \/ Answer \/ RLock \/ RUnlock
           \/ \E s \in Sk : GetBySk(s)
           \/ \E k \in Key : Get(k)
  <2>1. client'.at \notin {"items", "found"}
    BY <1>1, <1>8 DEF Answer, RLock, RUnlock, GetBySk, Get
  <2> QED BY <1>3, <2>1
<1>9. CASE ReadIndex
  <2>1. /\ disk' = disk
        /\ \/ client' = Idle
           \/ /\ readable(disk, client.sk)
              /\ client' = [at |-> "items", sk |-> client.sk,
                            todo |-> disk.sk[client.sk], found |-> {}]
    BY <1>9 DEF ReadIndex
  <2>2. CASE client' = Idle
    BY <1>1, <1>3, <2>2
  <2>3. CASE /\ readable(disk, client.sk)
             /\ client' = [at |-> "items", sk |-> client.sk,
                           todo |-> disk.sk[client.sk], found |-> {}]
    <3>1. /\ client'.at = "items" /\ client'.sk = client.sk
          /\ client'.todo = disk.sk[client.sk]
      BY <2>3
    <3> QED BY <2>1, <2>3, <3>1 DEF ReadInv, readable
  <2> QED BY <2>1, <2>2, <2>3
<1>10. ASSUME NEW k \in Key, ReadItem(k) PROVE ReadInv'
  <2>1. client.at = "items" /\ disk' = disk
    BY <1>1, <1>10, ItemRead
  <2>2. /\ readable(disk, client.sk)
        /\ disk.sk[client.sk] \subseteq client.todo \cup client.found
    BY <2>1 DEF ReadInv
  <2>3. CASE client' = Idle
    BY <1>1, <1>3, <2>3
  <2>4. CASE /\ client'.at = "found" /\ client'.sk = client.sk /\ client.todo = {k}
             /\ client'.found = client.found \cup {k}
    BY <2>1, <2>2, <2>4 DEF ReadInv, readable
  <2>5. CASE /\ client'.at = "items" /\ client'.sk = client.sk
             /\ client'.todo = client.todo \ {k} /\ client'.found = client.found \cup {k}
    BY <2>1, <2>2, <2>5 DEF ReadInv, readable
  <2> QED BY <1>1, <1>10, <2>3, <2>4, <2>5, ItemRead
<1>11. CASE Crash \/ MapRace
  BY <1>1, <1>3, <1>11 DEF Crash, MapRace, Down
<1>12. CASE UNCHANGED vars
  BY <1>2, <1>12 DEF vars
<1> QED BY <1>4, <1>5, <1>6, <1>7, <1>8, <1>9, <1>10, <1>11, <1>12 DEF Next, FlushStep

LEMMA FoundOf == FileInv /\ ReadInv => FindsAll
<1> SUFFICES ASSUME FileInv, ReadInv, client.at = "found", NEW k \in Key \ early,
                    newest(k) = client.sk
             PROVE  k \in client.found
  BY DEF FindsAll
<1>1. CtlInv /\ client \in Client
  BY DEF FileInv, CtlInv, Memory
<1>2. /\ mode = "up" /\ batch = NoBatch /\ pending(pend) = {} /\ client.sk \in Sk
  BY <1>1, ClientUp, ClientType DEF CtlInv, Control
<1>3. pend[k] = NotPending /\ disk.key[k] = client.sk
  BY <1>2 DEF pending, newest
<1>4. readable(disk, client.sk) /\ disk.sk[client.sk] \subseteq client.found
  BY DEF ReadInv
<1>5. k \in disk.sk[client.sk]
  BY <1>2, <1>3, <1>4, CompleteOf DEF IndexComplete, quiet
<1> QED BY <1>4, <1>5

\* An answer by secondary key has every item of that key, those that were in
\* the buffer when the request came included (write_batcher.go:336): GetBySk
\* flushes first, the index is complete then, and nothing is written until the
\* answer is sent; the exception is that of IndexIsComplete.
THEOREM AnswersAreComplete == Spec => []FindsAll
<1>1. Init => ReadInv
  BY DEF Init, ReadInv, Idle
<1> QED BY <1>1, NextRead, FoundOf, FilesHold, PTL DEF Spec

-----------------------------------------------------------------------------
(* The index names no others *)

\* The parts of ExactInv.
Readable == \A s \in Sk : readable(disk, s)
Names    == \A k \in Key, s \in Sk : k \in disk.sk[s] => disk.key[k] = s \/ deleting(k, s)
Covers   == \A k \in Key : mode = "up" /\ Uncovered(k) =>
                (inIndex /\ batch.key = k) \/ k \in early

LEMMA ExactParts == ExactInv <=> (clean => Readable /\ Names /\ Covers)
BY DEF ExactInv, Readable, Names, Covers

\* An operation that ends removes no key but its own from the history.
LEMMA EndEarly ==
    ASSUME CtlInv, batch # NoBatch, NEW ok \in BOOLEAN, endOp(ok)
    PROVE  /\ mode' = "up" => mode = "up"
           /\ \A k \in Key : k \in early => k \in early' \/ (ok /\ k = batch.key)
<1>1. Memory
  BY DEF CtlInv
<1> QED BY <1>1, EndOp DEF Down

\* The steps of a flush that write, and what is left of it after them.
LEMMA WriteExact ==
    ASSUME FileInv, ExactInv, CtlInv', SetFile \/ DelFile \/ SetIndex \/ DelIndex,
           clean'
    PROVE  Readable' /\ Names' /\ Covers'
<1> DEFINE b == batch.key
<1>1. /\ batch # NoBatch /\ clean /\ CtlInv
      /\ inFile <=> ~ inIndex
  BY DEF SetFile, DelFile, SetIndex, DelIndex, inFile, inIndex, FileInv, CtlInv, Stored
<1>2. /\ b \in Key /\ disk \in Disk /\ pend[b] \in Op /\ batch \in Batch
      /\ pend[b] # None => pend[b] \in Item
  BY <1>1, AtKey DEF CtlInv, Memory
<1>3. Readable /\ Names /\ Covers
  BY <1>1, ExactParts
<1>4. /\ \A s \in Sk : disk.sk[s] # Torn /\ disk.sk[s] \in SUBSET Key
  <2>1. disk.sk \in [Sk -> (SUBSET Key) \cup {Torn}]
    BY <1>2 DEF Disk
  <2> QED BY <1>3, <2>1 DEF Readable, readable
<1>5. CASE SetFile
  <2>1. /\ inFile /\ ~ inIndex /\ pend[b] # None
        /\ disk' = writeKeyFile(disk, b, pend[b])
        /\ disk.key[b] \in Sk => pend[b] = disk.key[b]
        /\ IF pend[b] = NoSk THEN endOp(TRUE) ELSE goToIndex(pend[b])
    BY <1>1, <1>5 DEF SetFile
  <2>2. /\ disk'.sk = disk.sk
        /\ \A j \in Key : disk'.key[j] = IF j = b THEN pend[b] ELSE disk.key[j]
    BY <1>2, <2>1 DEF writeKeyFile, Disk
  <2>3. Readable'
    BY <1>3, <2>2 DEF Readable, readable
  <2>4. Names'
    <3> SUFFICES ASSUME NEW k \in Key, NEW s \in Sk, k \in disk'.sk[s]
                 PROVE  disk'.key[k] = s
      BY DEF Names
    <3>1. disk.key[k] = s
      BY <1>3, <2>1, <2>2 DEF Names, deleting
    <3> QED BY <2>1, <2>2, <3>1
  <2>5. Covers'
    <3> SUFFICES ASSUME NEW k \in Key, mode' = "up", Uncovered(k)'
                 PROVE  (inIndex' /\ batch'.key = k) \/ k \in early'
      BY DEF Covers
    <3>1. mode = "up" /\ (k # b /\ k \in early => k \in early')
      <4>1. CASE endOp(TRUE)
        BY <1>1, <4>1, EndEarly
      <4>2. CASE goToIndex(pend[b])
        BY <4>2 DEF goToIndex
      <4> QED BY <2>1, <4>1, <4>2
    <3>2. CASE k # b
      <4>1. Uncovered(k)
        BY <2>2, <3>2 DEF Uncovered, readable
      <4> QED BY <1>3, <2>1, <3>1, <3>2, <4>1 DEF Covers
    <3>3. CASE k = b
      <4>1. pend[b] # NoSk
        BY <2>2, <3>3, NoItems DEF Uncovered
      <4>2. batch' = [batch EXCEPT !.at = "index", !.sk = pend[b]]
        BY <2>1, <4>1 DEF goToIndex
      <4>3. batch \in BusyBatch /\ pend[b] \in Sk
        BY <1>1, <1>2, <2>1, <4>1, BatchType DEF Item
      <4>4. batch'.at = "index" /\ batch'.key = b
        BY <4>2, <4>3 DEF BusyBatch
      <4>5. batch' # NoBatch
        BY <1>1, <1>2, <4>2, <4>3, BatchGoesOn
      <4> QED BY <3>3, <4>4, <4>5 DEF inIndex
    <3> QED BY <3>2, <3>3
  <2> QED BY <2>3, <2>4, <2>5
<1>6. CASE DelFile
  <2>1. inFile /\ ~ inIndex /\ pend[b] = None
    BY <1>1, <1>6 DEF DelFile
  <2>2. /\ mode' = "up" => mode = "up"
        /\ \A k \in Key : k # b /\ k \in early => k \in early'
    <3>1. endOp(TRUE) \/ goToIndex(disk.key[b])
      BY <1>6 DEF DelFile, missingIsDone
    <3>2. CASE endOp(TRUE)
      BY <1>1, <3>2, EndEarly
    <3>3. CASE goToIndex(disk.key[b])
      BY <3>3 DEF goToIndex
    <3> QED BY <3>1, <3>2, <3>3
  <2>3. \A k \in Key, s \in Sk : k \in disk.sk[s] => disk.key[k] = s
    BY <1>3, <2>1 DEF Names, deleting
  <2>4. mode = "up" => \A k \in Key : Uncovered(k) => k \in early
    BY <1>3, <2>1 DEF Covers
  <2>5. CASE ~ exists(disk, b)
    <3>1. disk' = disk
      BY <1>6, <2>5 DEF DelFile
    <3>2. \A k \in Key : Uncovered(k)' <=> Uncovered(k)
      BY <3>1 DEF Uncovered, readable
    <3>3. ~ Uncovered(b)
      BY <2>5 DEF Uncovered, exists, Item
    <3>4. Covers'
      BY <2>2, <2>4, <3>2, <3>3 DEF Covers
    <3> QED BY <1>3, <2>3, <3>1, <3>4 DEF Readable, readable, Names
  <2>6. CASE exists(disk, b)
    <3>1. /\ disk' = removeKeyFile(disk, b) /\ disk.key[b] \in Item
          /\ IF disk.key[b] = NoSk THEN endOp(TRUE) ELSE goToIndex(disk.key[b])
      BY <1>6, <2>6 DEF DelFile, exists
    <3>2. /\ disk'.sk = disk.sk
          /\ \A j \in Key : disk'.key[j] = IF j = b THEN None ELSE disk.key[j]
      BY <1>2, <3>1 DEF removeKeyFile, Disk
    <3>3. Readable'
      BY <1>3, <3>2 DEF Readable, readable
    <3>4. Covers'
      <4>1. \A k \in Key : Uncovered(k)' => Uncovered(k) /\ k # b
        BY <3>2, NoItems DEF Uncovered, readable, Item
      <4> QED BY <2>2, <2>4, <4>1 DEF Covers
    <3>5. Names'
      <4> SUFFICES ASSUME NEW k \in Key, NEW s \in Sk, k \in disk'.sk[s]
                   PROVE  disk'.key[k] = s \/ deleting(k, s)'
        BY DEF Names
      <4>1. disk.key[k] = s
        BY <2>3, <3>2
      <4>2. CASE k # b
        BY <3>2, <4>1, <4>2
      <4>3. CASE k = b
        <5>1. disk.key[b] = s /\ s # NoSk
          BY <4>1, <4>3, NoItems
        <5>2. /\ batch' = [batch EXCEPT !.at = "index", !.sk = s]
              /\ pend' = pend
          BY <3>1, <5>1 DEF goToIndex
        <5>3. batch \in BusyBatch /\ s \in Item
          BY <1>1, <1>2, BatchType DEF Item
        <5>4. batch'.at = "index" /\ batch'.key = b /\ batch'.sk = s
          BY <5>2, <5>3 DEF BusyBatch
        <5>5. batch' # NoBatch
          BY <1>1, <1>2, <5>2, BatchGoesOn
        <5> QED BY <2>1, <4>3, <5>2, <5>4, <5>5 DEF deleting, inIndex
      <4> QED BY <4>2, <4>3
    <3> QED BY <3>3, <3>4, <3>5
  <2> QED BY <2>5, <2>6
<1>7. CASE SetIndex
  <2>1. inIndex /\ pend[b] # None
    BY <1>7 DEF SetIndex
  <2>2. batch.sk \in Sk /\ disk.key[b] = batch.sk /\ readable(disk, batch.sk)
    BY <1>3, <2>1 DEF FileInv, CtlInv, Control, HalfDone, Readable
  <2>3. disk' = appendKeysToSk(disk, batch.sk, {b}) /\ endOp(TRUE)
    BY <1>7, <2>2 DEF SetIndex
  <2>4. /\ disk'.key = disk.key /\ disk'.sk[batch.sk] = disk.sk[batch.sk] \cup {b}
        /\ \A t \in Sk : t # batch.sk => disk'.sk[t] = disk.sk[t]
    BY <1>2, <2>2, <2>3, IndexAppend
  <2>5. Readable'
    <3>1. disk.sk[batch.sk] \cup {b} \in SUBSET Key
      BY <1>2, <1>4, <2>2
    <3>2. ASSUME NEW t \in Sk PROVE disk'.sk[t] # Torn
      <4>1. CASE t = batch.sk
        BY <2>4, <3>1, <4>1, NoItems
      <4>2. CASE t # batch.sk
        BY <1>4, <2>4, <4>2
      <4> QED BY <4>1, <4>2
    <3> QED BY <3>2 DEF Readable, readable
  <2>6. Names'
    <3> SUFFICES ASSUME NEW k \in Key, NEW s \in Sk, k \in disk'.sk[s]
                 PROVE  disk'.key[k] = s
      BY DEF Names
    <3>1. k \in disk.sk[s] \/ (k = b /\ s = batch.sk)
      BY <2>2, <2>4
    <3>2. ~ deleting(k, s)
      BY <2>1 DEF deleting
    <3> QED BY <1>3, <2>2, <2>4, <3>1, <3>2 DEF Names
  <2>7. Covers'
    <3> SUFFICES ASSUME NEW k \in Key, mode' = "up", k \notin early'
                 PROVE  ~ Uncovered(k)'
      BY DEF Covers
    <3>1. mode = "up" /\ (k \in early => k = b)
      BY <1>1, <2>3, EndEarly
    <3>2. k # b => ~ Uncovered(k)
      BY <1>3, <3>1 DEF Covers
    <3>3. \A t \in Sk : k \in disk.sk[t] => k \in disk'.sk[t]
      BY <2>4
    <3>4. b \in disk'.sk[batch.sk]
      BY <2>4
    <3> QED BY <1>3, <2>2, <2>4, <3>2, <3>3, <3>4 DEF Uncovered, Readable
  <2> QED BY <2>5, <2>6, <2>7
<1>8. CASE DelIndex
  <2>1. inIndex /\ pend[b] = None
    BY <1>8 DEF DelIndex
  <2>2. batch.sk \in Sk /\ disk.key[b] = None /\ readable(disk, batch.sk)
    BY <1>3, <2>1 DEF FileInv, CtlInv, Control, HalfDone, Readable
  <2>3. \E ok \in BOOLEAN : endOp(ok)
    BY <1>8 DEF DelIndex
  <2>4. /\ mode' = "up" => mode = "up"
        /\ \A k \in Key : k # b /\ k \in early => k \in early'
    BY <1>1, <2>3, EndEarly
  <2>5. /\ disk'.key = disk.key /\ disk'.sk[batch.sk] = disk.sk[batch.sk] \ {b}
        /\ \A t \in Sk : t # batch.sk => disk'.sk[t] = disk.sk[t]
    <3>1. CASE disk.sk[batch.sk] # {}
      <4>1. disk' = removeKeysFromSk(disk, batch.sk, {b})
        BY <1>8, <2>2, <3>1 DEF DelIndex
      <4> QED BY <1>2, <2>2, <4>1, IndexRemove
    <3>2. CASE disk.sk[batch.sk] = {}
      <4>1. disk' = disk
        BY <1>8, <3>2 DEF DelIndex
      <4> QED BY <3>2, <4>1
    <3> QED BY <3>1, <3>2
  <2>6. Readable'
    <3>1. disk.sk[batch.sk] \ {b} \in SUBSET Key
      BY <1>4, <2>2
    <3>2. ASSUME NEW t \in Sk PROVE disk'.sk[t] # Torn
      <4>1. CASE t = batch.sk
        BY <2>5, <3>1, <4>1, NoItems
      <4>2. CASE t # batch.sk
        BY <1>4, <2>5, <4>2
      <4> QED BY <4>1, <4>2
    <3> QED BY <3>2 DEF Readable, readable
  <2>7. Names'
    <3> SUFFICES ASSUME NEW k \in Key, NEW s \in Sk, k \in disk'.sk[s]
                 PROVE  disk'.key[k] = s
      BY DEF Names
    <3>1. k \in disk.sk[s] /\ ~ (k = b /\ s = batch.sk)
      BY <2>2, <2>5
    <3>2. ~ deleting(k, s)
      BY <3>1 DEF deleting
    <3> QED BY <1>3, <2>5, <3>1, <3>2 DEF Names
  <2>8. Covers'
    <3> SUFFICES ASSUME NEW k \in Key, mode' = "up", k \notin early'
                 PROVE  ~ Uncovered(k)'
      BY DEF Covers
    <3>1. k # b => ~ Uncovered(k)
      BY <1>3, <2>4 DEF Covers
    <3>2. \A t \in Sk : k # b /\ k \in disk.sk[t] => k \in disk'.sk[t]
      BY <2>5
    <3>3. k = b => ~ Uncovered(k)'
      BY <2>2, <2>5, NoItems DEF Uncovered, Item
    <3> QED BY <1>3, <2>5, <3>1, <3>2, <3>3 DEF Uncovered, Readable
  <2> QED BY <2>6, <2>7, <2>8
<1> QED BY <1>5, <1>6, <1>7, <1>8

LEMMA NextExact == FileInv /\ FileInv' /\ ExactInv /\ [Next]_vars => ExactInv'
<1> SUFFICES ASSUME FileInv, FileInv', ExactInv, [Next]_vars PROVE ExactInv'
  OBVIOUS
<1>1. CtlInv /\ CtlInv' /\ batch \in Batch
  BY DEF FileInv, CtlInv, Memory
<1>2. CASE SetFile \/ DelFile \/ SetIndex \/ DelIndex
  <2>1. clean' => Readable' /\ Names' /\ Covers'
    BY <1>1, <1>2, WriteExact
  <2> QED BY <2>1 DEF ExactInv, Readable, Names, Covers
<1>3. ASSUME UNCHANGED <<disk, mode, pend, batch, clean>>, early \subseteq early'
      PROVE  ExactInv'
  <2>1. \A k \in Key, s \in Sk : deleting(k, s) => deleting(k, s)'
    BY <1>3 DEF deleting, inIndex
  <2>2. (inIndex => inIndex') /\ batch' = batch
    BY <1>3 DEF inIndex
  <2>3. \A k \in Key : Uncovered(k)' <=> Uncovered(k)
    BY <1>3 DEF Uncovered, readable
  <2> QED BY <1>3, <2>1, <2>2, <2>3 DEF ExactInv, readable
<1>4. ASSUME UNCHANGED <<disk, mode, history>>, ~ inIndex PROVE ExactInv'
  <2>1. \A k \in Key, s \in Sk : ~ deleting(k, s)
    BY <1>4 DEF deleting
  <2>2. \A k \in Key : Uncovered(k)' <=> Uncovered(k)
    BY <1>4 DEF Uncovered, readable
  <2> QED BY <1>4, <2>1, <2>2 DEF ExactInv, readable, history
<1>5. CASE \/ \E r \in requests : LogRequest(r)
           \/ ReadIndex \/ Answer \/ RLock \/ RUnlock \/ SaveLastSeq
           \/ \E k \in Key : ReadItem(k)
           \/ \E k \in Key : Get(k)
  BY <1>3, <1>5 DEF LogRequest, ReadIndex, Answer, RLock, RUnlock, SaveLastSeq,
                    ReadItem, Get, history
<1>6. CASE \/ Merge \/ TaskFlush \/ CheckpointFlush \/ Lock \/ LockWaits
           \/ \E s \in Sk : GetBySk(s)
  <2>1. UNCHANGED <<disk, mode, history>>
    BY <1>6 DEF Merge, TaskFlush, CheckpointFlush, Lock, LockWaits, GetBySk
  <2>2. ~ inIndex
    BY <1>6 DEF Merge, TaskFlush, CheckpointFlush, Lock, LockWaits, GetBySk, inIndex
  <2> QED BY <1>4, <2>1, <2>2
<1>7. CASE CreateTable
  <2>1. /\ UNCHANGED <<disk, mode, pend, clean, early>>
        /\ \/ batch' = batch
           \/ batch # NoBatch /\ batch' = [batch EXCEPT !.replaced = TRUE]
    BY <1>7 DEF CreateTable, history
  <2>2. CASE batch' = batch
    BY <1>3, <2>1, <2>2
  <2>3. CASE batch # NoBatch /\ batch' = [batch EXCEPT !.replaced = TRUE]
    <3>1. batch \in BusyBatch
      BY <1>1, <2>3, BatchType
    <3>2. batch'.at = batch.at /\ batch'.key = batch.key /\ batch'.sk = batch.sk
      BY <2>3, <3>1 DEF BusyBatch
    <3>3. batch' # NoBatch
      BY <1>1, <2>3, BatchGoesOn
    <3>4. inIndex => inIndex'
      BY <3>2, <3>3 DEF inIndex
    <3>5. \A k \in Key, s \in Sk : deleting(k, s) => deleting(k, s)'
      BY <2>1, <3>2, <3>4 DEF deleting
    <3>6. \A k \in Key : Uncovered(k)' <=> Uncovered(k)
      BY <2>1 DEF Uncovered, readable
    <3> QED BY <2>1, <3>2, <3>4, <3>5, <3>6 DEF ExactInv, readable
  <2> QED BY <2>1, <2>2, <2>3
<1>8. CASE LoadStep
  <2>1. disk' = disk /\ clean' = clean /\ early' = early /\ batch = NoBatch
    BY <1>1, <1>8 DEF LoadStep, Load, Replay, LoadCheckpoint, CtlInv, Control, history
  <2>2. \A k \in Key, s \in Sk : ~ deleting(k, s)
    BY <2>1 DEF deleting, inIndex
  <2>3. \A k \in Key : Uncovered(k)' <=> Uncovered(k)
    BY <2>1 DEF Uncovered, readable
  <2>4. ASSUME NEW k \in Key, mode' = "up" PROVE Uncovered(k) => k \in early
    <3>1. /\ mode = "loading" /\ replayed = Len(wal) /\ pending(pend) = {}
      BY <1>8, <2>4 DEF LoadStep, Load, Replay, LoadCheckpoint
    <3>2. ~ ToReplay(k)
      <4>1. wal \in Seq(Entry)
        BY <1>1 DEF CtlInv, Stored
      <4> QED BY <3>1, <4>1 DEF ToReplay
    <3>3. pend[k] = NotPending /\ Repeats(k)
      BY <3>1 DEF pending, FileInv
    <3> QED BY <3>2, <3>3 DEF Repeats
  <2> QED BY <2>1, <2>2, <2>3, <2>4 DEF ExactInv, readable
<1>9. CASE Crash \/ MapRace
  <2>1. mode' = "down" /\ clean \in BOOLEAN
    BY <1>1, <1>9 DEF Crash, MapRace, Down, CtlInv, Stored
  <2>2. clean' => clean /\ disk' = disk /\ ~ (inIndex /\ pend[batch.key] = None)
    BY <1>9 DEF Crash, MapRace, inIndex, history
  <2>3. clean' => \A k \in Key, s \in Sk : ~ deleting(k, s)
    BY <2>2 DEF deleting
  <2> QED BY <2>1, <2>2, <2>3 DEF ExactInv, readable
<1>10. CASE UNCHANGED vars
  BY <1>3, <1>10 DEF vars, history
<1> QED BY <1>2, <1>5, <1>6, <1>7, <1>8, <1>9, <1>10 DEF Next, FlushStep

LEMMA ExactOf == CtlInv /\ ExactInv => IndexExact
<1> SUFFICES ASSUME CtlInv, ExactInv, quiet, clean, NEW s \in Sk, NEW k \in Key
             PROVE  /\ readable(disk, s)
                    /\ k \in disk.sk[s] => disk.key[k] = s
                    /\ disk.key[k] = s => k \in disk.sk[s] \/ k \in early
  BY ExactParts DEF IndexExact, Readable
<1>1. Readable /\ Names /\ Covers
  BY ExactParts
<1>2. mode = "up" /\ ~ inIndex
  BY DEF quiet, inIndex
<1>3. k \in disk.sk[s] => disk.key[k] = s
  BY <1>1, <1>2 DEF Names, deleting
<1>4. disk.key[k] = s => k \in disk.sk[s] \/ k \in early
  BY <1>1, <1>2 DEF Covers, Uncovered, Readable
<1> QED BY <1>1, <1>3, <1>4 DEF Readable

\* As long as no item has changed its secondary key and no crash has cut a
\* delete or truncated a file, an index names the items of its secondary key
\* and no others whenever no flush is under way (base.go:117): a Set that was
\* cut is repeated by Load, and a failed flush leaves its operation pending.
\* What an index may lack is an item whose operation a checkpoint covered
\* before it was in the files.
THEOREM IndexIsExact == Spec => []IndexExact
<1>1. Init => ExactInv
  <2> SUFFICES ASSUME Init PROVE ExactInv
    OBVIOUS
  <2>1. /\ disk = [key |-> [k \in Key |-> None], sk |-> [s \in Sk |-> {}]]
        /\ mode = "down"
    BY DEF Init
  <2>2. \A s \in Sk : disk.sk[s] = {} /\ {} \in SUBSET Key
    BY <2>1
  <2>3. \A s \in Sk : readable(disk, s)
    BY <2>2, NoItems DEF readable
  <2> QED BY <2>1, <2>2, <2>3 DEF ExactInv
<1>2. FileInv => CtlInv
  BY DEF FileInv
<1> QED BY <1>1, <1>2, NextExact, ExactOf, FilesHold, PTL DEF Spec
=============================================================================
