------------------------------ MODULE KVProofs ------------------------------
(***************************************************************************)
(* Theorems about KV, for any tables, keys and values, any size of the     *)
(* buffer and any bounds.                                                  *)
(***************************************************************************)
EXTENDS KV, DataLemmas, FiniteSetTheorems, SequenceTheorems, TLAPS

-----------------------------------------------------------------------------
(* The batcher *)

Buffer   == [MergeKey -> AnyValue \cup {NotPending}]
Contents == [Table -> [Key -> AnyValue]]
Files    == [Table -> [Key -> File]]

\* The value of a merge key, in the files or in a history.
At(f, mk) == f[mk[1]][mk[2]]

Dirty(p) == {mk \in MergeKey : p[mk] # NotPending}

\* The file f holds the value v; where there is none, it may be torn.
Reads(f, v) == f = v \/ (f = Torn /\ v = None)

\* A flush applies only what is buffered, and all of it when nothing fails.
LEMMA WrittenDirty ==
    ASSUME NEW p, NEW n
    PROVE  /\ written(p, n) \subseteq Dirty(p)
           /\ buffered(p, n) \subseteq Dirty(p)
           /\ failing(p) = {} => written(p, Len(Order)) = Dirty(p)
<1>1. Order \in Seq(MergeKey) /\ DOMAIN Order = 1..Len(Order)
  BY OrderSorts
<1>2. \A j \in DOMAIN Order : Order[j] \in MergeKey
  BY <1>1
<1>3. written(p, n) \subseteq Dirty(p) /\ buffered(p, n) \subseteq Dirty(p)
  BY <1>2 DEF written, buffered, Dirty
<1>4. ASSUME failing(p) = {} PROVE written(p, Len(Order)) = Dirty(p)
  <2>1. ASSUME NEW mk \in Dirty(p) PROVE mk \in written(p, Len(Order))
    <3>1. PICK i \in DOMAIN Order : Order[i] = mk
      BY OrderSorts DEF Dirty
    <3>2. i <= Len(Order) /\ p[Order[i]] # NotPending
      BY <1>1, <3>1 DEF Dirty
    <3> QED BY <1>4, <3>1, <3>2 DEF written
  <2>2. written(p, Len(Order)) \subseteq Dirty(p)
    BY <1>2 DEF written, Dirty
  <2> QED BY <2>1, <2>2
<1> QED BY <1>3, <1>4

LEMMA Pairs ==
    /\ \A t \in Table, k \in Key : <<t, k>> \in MergeKey
    /\ \A mk \in MergeKey : /\ mk[1] \in Table /\ mk[2] \in Key
                            /\ mk = <<mk[1], mk[2]>>
BY DEF MergeKey

\* What the files and the buffer hold when the operations done were applied.
LEMMA AfterFlush ==
    ASSUME NEW f \in Files, NEW p \in Buffer, NEW done \in SUBSET Dirty(p)
    PROVE  /\ filesAfter(f, p, done) \in Files
           /\ pendAfter(p, done) \in Buffer
           /\ \A mk \in MergeKey :
                 /\ IF mk \in done THEN Reads(At(filesAfter(f, p, done), mk), p[mk])
                    ELSE At(filesAfter(f, p, done), mk) = At(f, mk)
                 /\ pendAfter(p, done)[mk] =
                        IF mk \in done THEN NotPending ELSE p[mk]
<1>1. ASSUME NEW mk \in MergeKey PROVE mk \in done => p[mk] \in AnyValue
  BY DEF Buffer, Dirty
<1>2. pendAfter(p, done) \in Buffer
  BY DEF pendAfter, Buffer
<1> DEFINE g(t, k) == IF <<t, k>> \in done THEN fileAfter(f[t][k], p[<<t, k>>])
                      ELSE f[t][k]
<1>3. filesAfter(f, p, done) \in Files
  <2>1. ASSUME NEW t \in Table, NEW k \in Key PROVE g(t, k) \in File
    <3>1. CASE <<t, k>> \in done
      <4>1. <<t, k>> \in MergeKey
        BY DEF MergeKey
      <4> QED BY <1>1, <3>1, <4>1 DEF fileAfter, File
    <3>2. CASE <<t, k>> \notin done
      BY <3>2 DEF Files
    <3> QED BY <3>1, <3>2
  <2>2. filesAfter(f, p, done) = [t \in Table |-> [k \in Key |-> g(t, k)]]
    BY DEF filesAfter
  <2> HIDE DEF g
  <2> QED BY <2>1, <2>2 DEF Files
<1>4. ASSUME NEW mk \in MergeKey
      PROVE  IF mk \in done THEN Reads(At(filesAfter(f, p, done), mk), p[mk])
             ELSE At(filesAfter(f, p, done), mk) = At(f, mk)
  <2>1. mk[1] \in Table /\ mk[2] \in Key /\ mk = <<mk[1], mk[2]>>
    BY DEF MergeKey
  <2>2. filesAfter(f, p, done)[mk[1]][mk[2]] = g(mk[1], mk[2])
    BY <2>1 DEF filesAfter
  <2> QED BY <2>1, <2>2 DEF At, Reads, fileAfter
<1>5. \A mk \in MergeKey : pendAfter(p, done)[mk] =
          IF mk \in done THEN NotPending ELSE p[mk]
  BY DEF pendAfter
<1> QED BY <1>2, <1>3, <1>4, <1>5

\* What a death in a flush of p leaves: each file as it was, or as the flush
\* makes it, or torn.
LEMMA CutFiles ==
    ASSUME NEW f \in Files, NEW p \in Buffer, NEW done \in SUBSET Dirty(p),
           NEW next \in SUBSET Dirty(p), NEW g \in cut(f, p, done, next)
    PROVE  /\ g \in Files
           /\ \A mk \in MergeKey :
                 \/ At(g, mk) = At(f, mk)
                 \/ p[mk] # NotPending /\ At(g, mk) \in {p[mk], Torn}
<1> DEFINE h == filesAfter(f, p, done)
<1>1. /\ h \in Files
      /\ \A mk \in MergeKey : IF mk \in done THEN Reads(At(h, mk), p[mk])
                               ELSE At(h, mk) = At(f, mk)
  BY AfterFlush
<1>2. g = h \/ \E x \in next : g = [h EXCEPT ![x[1]][x[2]] = Torn]
  BY DEF cut
<1> HIDE DEF h
<1>3. \A mk \in done : p[mk] # NotPending
  BY DEF Dirty
<1>4. CASE g = h
  BY <1>1, <1>3, <1>4 DEF Reads
<1>5. ASSUME NEW x \in next, g = [h EXCEPT ![x[1]][x[2]] = Torn]
      PROVE  /\ g \in Files
             /\ \A mk \in MergeKey : \/ At(g, mk) = At(h, mk)
                                     \/ mk = x /\ At(g, mk) = Torn
  <2>1. x \in MergeKey /\ x[1] \in Table /\ x[2] \in Key
    BY Pairs DEF Dirty
  <2>2. Torn \in File
    BY DEF File
  <2>3. g \in Files
    BY <1>1, <1>5, <2>1, <2>2 DEF Files
  <2>4. ASSUME NEW mk \in MergeKey, mk # x PROVE At(g, mk) = At(h, mk)
    <3>1. mk[1] \in Table /\ mk[2] \in Key /\ (mk[1] # x[1] \/ mk[2] # x[2])
      BY <2>1, <2>4, Pairs
    <3> QED BY <1>1, <1>5, <2>1, <3>1 DEF Files, At
  <2>5. At(g, x) = Torn
    BY <1>1, <1>5, <2>1 DEF Files, At
  <2> QED BY <2>3, <2>4, <2>5
<1>6. \A x \in next : p[x] # NotPending
  BY DEF Dirty
<1> QED BY <1>1, <1>2, <1>3, <1>4, <1>5, <1>6 DEF Reads

\* The merge keys of a request.
Covers(r, mk) == mk[1] = r.table /\ mk[2] \in DOMAIN r.items

LEMMA RequestType ==
    ASSUME NEW r \in Request
    PROVE  /\ r.table \in Table /\ r.old \in Versioned \cup {None, NoVersion}
           /\ DOMAIN r.items \subseteq Key
           /\ \A k \in DOMAIN r.items : r.items[k] \in AnyValue
           /\ IsFiniteSet(DOMAIN r.items) /\ Cardinality(DOMAIN r.items) \in Nat
<1>1. r.items \in Items /\ r.table \in Table /\ r.old \in Versioned \cup {None, NoVersion}
  BY DEF Request
<1>2. PICK ks \in SUBSET Key : r.items \in [ks -> AnyValue]
  BY <1>1 DEF Items
<1>3. /\ DOMAIN r.items \subseteq Key
      /\ \A k \in DOMAIN r.items : r.items[k] \in AnyValue
  BY <1>2
<1>4. IsFiniteSet(DOMAIN r.items)
  BY <1>3, NamesFinite, FS_Subset
<1>5. Cardinality(DOMAIN r.items) \in Nat
  BY <1>4, FS_CardinalityType
<1> QED BY <1>1, <1>3, <1>4, <1>5

\* An operation replaces what the buffer had for its keys, and only that.
LEMMA Upserted ==
    ASSUME NEW p \in Buffer, NEW r \in Request
    PROVE  /\ upsertLocked(p, r) \in Buffer
           /\ \A mk \in MergeKey : upsertLocked(p, r)[mk] =
                 IF Covers(r, mk) THEN r.items[mk[2]] ELSE p[mk]
<1>1. \A k \in DOMAIN r.items : r.items[k] \in AnyValue
  BY RequestType
<1>2. upsertLocked(p, r) \in Buffer
  BY <1>1 DEF upsertLocked, Buffer
<1> QED BY <1>2 DEF upsertLocked, Covers

-----------------------------------------------------------------------------
(* The log *)

LEMMA EntryType ==
    ASSUME NEW w \in Seq(WalEntry)
    PROVE  \A i \in DOMAIN w : /\ w[i].seq \in Nat /\ w[i].seq > 0
                               /\ w[i].table \in Table /\ w[i].key \in Key
                               /\ w[i].val \in AnyValue
<1>1. \A i \in DOMAIN w : w[i] \in WalEntry
  OBVIOUS
<1> QED BY <1>1 DEF WalEntry

LEMMA SumBounds ==
    ASSUME NEW a \in Nat, NEW b \in Nat
    PROVE  a + b \in Nat /\ b <= a + b /\ \A x \in Nat : x <= a => x <= a + b
OBVIOUS

\* The numbers of a WAL are bounded.
LEMMA SeqBounded ==
    ASSUME NEW w \in Seq(WalEntry)
    PROVE  \E m \in Nat : \A i \in DOMAIN w : w[i].seq <= m
<1> DEFINE Bounds(n) == {m \in Nat : \A i \in 1..n : w[i].seq <= m}
           S == {n \in 0..Len(w) : Bounds(n) = {}}
<1>1. /\ Len(w) \in Nat /\ DOMAIN w = 1..Len(w)
      /\ \A i \in 1..Len(w) : w[i].seq \in Nat
  BY EntryType
<1>2. S = {}
  <2> SUFFICES ASSUME S # {} PROVE FALSE
    OBVIOUS
  <2>1. PICK n \in S : \A x \in S : n <= x
    <3>1. S \in SUBSET Nat
      BY <1>1
    <3> HIDE DEF S
    <3> QED BY <3>1, LeastNatural
  <2>2. 0 \in Bounds(0)
    OBVIOUS
  <2>3. n # 0 /\ n - 1 \in 0..Len(w) /\ n \in 1..Len(w)
    BY <1>1, <2>1, <2>2
  <2>4. PICK m \in Nat : \A i \in 1..(n - 1) : w[i].seq <= m
    <3>1. Bounds(n - 1) # {}
      <4>1. n \in Nat /\ ~ (n <= n - 1)
        BY <1>1, <2>1
      <4>2. n - 1 \notin S
        BY <2>1, <4>1
      <4> QED BY <2>3, <4>2
    <3> QED BY <3>1
  <2>5. m + w[n].seq \in Nat /\ \A i \in 1..n : w[i].seq <= m + w[n].seq
    <3>1. w[n].seq \in Nat /\ n \in Nat
      BY <1>1, <2>3
    <3>2. \A i \in 1..n : i \in 1..(n - 1) \/ i = n
      BY <3>1
    <3>3. \A i \in 1..n : w[i].seq \in Nat
      BY <1>1, <2>3
    <3>4. ASSUME NEW i \in 1..n PROVE w[i].seq <= m + w[n].seq
      <4>1. CASE i = n
        BY <3>1, <4>1, SumBounds
      <4>2. CASE i \in 1..(n - 1)
        <5>1. w[i].seq <= m
          BY <2>4, <4>2
        <5>2. w[i].seq \in Nat
          BY <3>3
        <5> QED BY <3>1, <5>1, <5>2, SumBounds
      <4> QED BY <3>2, <4>1, <4>2
    <3>5. m + w[n].seq \in Nat
      BY <3>1, SumBounds
    <3> QED BY <3>4, <3>5
  <2>6. m + w[n].seq \in Bounds(n)
    BY <2>5
  <2> QED BY <2>1, <2>6
<1>3. Bounds(Len(w)) # {}
  BY <1>1, <1>2
<1> QED BY <1>1, <1>3

\* The number Load restores is the greatest of the checkpoint's and the WAL's.
LEMMA Restored ==
    ASSUME NEW w \in Seq(WalEntry), NEW n \in Nat
    PROVE  /\ restoredSeq(w, n) \in Nat /\ n <= restoredSeq(w, n)
           /\ \A i \in DOMAIN w : w[i].seq <= restoredSeq(w, n)
           /\ replayed(w, restoredSeq(w, n)) = {}
<1> DEFINE S == {n} \cup {w[i].seq : i \in DOMAIN w}
<1>1. PICK m \in Nat : \A i \in DOMAIN w : w[i].seq <= m
  BY SeqBounded
<1>2. \A i \in DOMAIN w : w[i].seq \in Nat
  BY EntryType
<1>3. n + m \in Nat /\ S \in SUBSET Nat /\ S # {} /\ \A x \in S : x <= n + m
  BY <1>1, <1>2
<1>4. Max(S) \in S /\ \A x \in S : x <= Max(S)
  <2> HIDE DEF S
  <2> QED BY <1>3, MaxIn
<1>5. Max(S) \in Nat /\ n <= Max(S) /\ \A i \in DOMAIN w : w[i].seq <= Max(S)
  BY <1>3, <1>4
<1>6. restoredSeq(w, n) = Max(S)
  BY DEF restoredSeq
<1> HIDE DEF S
<1>7. replayed(w, Max(S)) = {}
  BY <1>2, <1>5 DEF replayed
<1> QED BY <1>5, <1>6, <1>7

LEMMA RestoredIn ==
    ASSUME NEW w \in Seq(WalEntry), NEW n \in Nat
    PROVE  restoredSeq(w, n) = n \/ \E i \in DOMAIN w : w[i].seq = restoredSeq(w, n)
<1> DEFINE S == {n} \cup {w[i].seq : i \in DOMAIN w}
<1>1. PICK m \in Nat : \A i \in DOMAIN w : w[i].seq <= m
  BY SeqBounded
<1>2. \A i \in DOMAIN w : w[i].seq \in Nat
  BY EntryType
<1>3. n + m \in Nat /\ S \in SUBSET Nat /\ S # {} /\ \A x \in S : x <= n + m
  BY <1>1, <1>2
<1>4. Max(S) \in S
  <2> HIDE DEF S
  <2> QED BY <1>3, MaxIn
<1> QED BY <1>4 DEF restoredSeq

LEMMA RestoredIs ==
    ASSUME NEW w \in Seq(WalEntry), NEW n \in Nat, NEW m \in Nat,
           m = n \/ \E i \in DOMAIN w : w[i].seq = m,
           n <= m, \A i \in DOMAIN w : w[i].seq <= m
    PROVE  restoredSeq(w, n) = m
<1> DEFINE S == {n} \cup {w[i].seq : i \in DOMAIN w}
<1>1. \A i \in DOMAIN w : w[i].seq \in Nat
  BY EntryType
<1>2. S \in SUBSET Int /\ m \in S /\ \A x \in S : x <= m
  BY <1>1
<1>3. Max(S) = m
  <2> HIDE DEF S
  <2> QED BY <1>2, MaxIs
<1> QED BY <1>3 DEF restoredSeq

\* What a replay leaves of a key is its last replayed entry.
LEMMA Merged ==
    ASSUME NEW w \in Seq(WalEntry), NEW is \in SUBSET (DOMAIN w),
           NEW mk \in MergeKey
    PROVE  LET e == entriesFor(w, is, mk)
           IN  /\ merged(w, is) \in Buffer
               /\ merged(w, is)[mk] = NotPending <=> e = {}
               /\ e # {} => /\ Max(e) \in e /\ \A i \in e : i <= Max(e)
                            /\ merged(w, is)[mk] = w[Max(e)].val
<1> DEFINE e(m) == entriesFor(w, is, m)
<1>1. Len(w) \in Nat /\ DOMAIN w = 1..Len(w)
  OBVIOUS
<1>2. ASSUME NEW m \in MergeKey, e(m) # {}
      PROVE  Max(e(m)) \in e(m) /\ \A i \in e(m) : i <= Max(e(m))
  <2>1. e(m) \in SUBSET Nat /\ \A i \in e(m) : i <= Len(w)
    BY <1>1 DEF entriesFor
  <2> HIDE DEF e
  <2> QED BY <1>1, <1>2, <2>1, MaxIn
<1>3. ASSUME NEW m \in MergeKey, e(m) # {} PROVE w[Max(e(m))].val \in AnyValue
  <2>1. Max(e(m)) \in DOMAIN w
    BY <1>2, <1>3 DEF entriesFor
  <2> HIDE DEF e
  <2> QED BY <2>1, EntryType
<1>4. NotPending \notin AnyValue
  BY NoValues
<1>5. merged(w, is) = [m \in MergeKey |-> IF e(m) = {} THEN NotPending
                                                    ELSE w[Max(e(m))].val]
  BY DEF merged
<1> HIDE DEF e
<1>6. merged(w, is) \in Buffer
  BY <1>3, <1>5 DEF Buffer
<1>7. merged(w, is)[mk] = NotPending <=> e(mk) = {}
  BY <1>3, <1>4, <1>5
<1>8. e(mk) # {} => merged(w, is)[mk] = w[Max(e(mk))].val
  BY <1>5
<1>9. e(mk) = entriesFor(w, is, mk)
  BY DEF e
<1> QED BY <1>2, <1>6, <1>7, <1>8, <1>9

\* What a replay entry by entry leaves in the files.
LEMMA ReplayedFiles ==
    ASSUME NEW f \in Files, NEW w \in Seq(WalEntry), NEW is \in SUBSET (DOMAIN w)
    PROVE  /\ replayedInto(f, w, is) \in Files
           /\ \A mk \in MergeKey :
                 IF merged(w, is)[mk] = NotPending
                 THEN At(replayedInto(f, w, is), mk) = At(f, mk)
                 ELSE Reads(At(replayedInto(f, w, is), mk), merged(w, is)[mk])
<1> DEFINE es(mk) == entriesFor(w, is, mk)
           old(mk) == IF \E i \in es(mk) : w[i].val \in Value THEN None ELSE At(f, mk)
           g(mk) == IF es(mk) = {} THEN At(f, mk)
                    ELSE fileAfter(old(mk), w[Max(es(mk))].val)
<1>1. ASSUME NEW mk \in MergeKey
      PROVE  /\ merged(w, is)[mk] = NotPending <=> es(mk) = {}
             /\ es(mk) # {} => /\ merged(w, is)[mk] = w[Max(es(mk))].val
                               /\ w[Max(es(mk))].val \in AnyValue
  <2>1. /\ merged(w, is)[mk] = NotPending <=> es(mk) = {}
        /\ es(mk) # {} => /\ Max(es(mk)) \in es(mk)
                          /\ merged(w, is)[mk] = w[Max(es(mk))].val
    BY Merged
  <2>2. es(mk) # {} => Max(es(mk)) \in DOMAIN w
    BY <2>1 DEF entriesFor
  <2> HIDE DEF es
  <2> QED BY <2>1, <2>2, EntryType
<1>2. replayedInto(f, w, is) = [t \in Table |-> [k \in Key |-> g(<<t, k>>)]]
  BY DEF replayedInto, At
<1>3. ASSUME NEW mk \in MergeKey PROVE g(mk) \in File
  <2>1. At(f, mk) \in File
    BY Pairs DEF Files, At
  <2> HIDE DEF es, old
  <2> QED BY <1>1, <2>1 DEF fileAfter, File
<1>4. ASSUME NEW mk \in MergeKey
      PROVE  IF merged(w, is)[mk] = NotPending THEN g(mk) = At(f, mk)
             ELSE Reads(g(mk), merged(w, is)[mk])
  <2> HIDE DEF es, old
  <2> QED BY <1>1 DEF fileAfter, Reads
<1> HIDE DEF g
<1>5. replayedInto(f, w, is) \in Files
  BY <1>2, <1>3, Pairs DEF Files
<1>6. ASSUME NEW mk \in MergeKey PROVE At(replayedInto(f, w, is), mk) = g(mk)
  BY <1>2, Pairs DEF At
<1> QED BY <1>4, <1>5, <1>6

\* What a restart would replay, per key.
Unsaved == merged(wal, replayed(wal, lastSeq))

\* The merge keys of the first n entries of a request.
Adds(r, o, n, mk) == mk[1] = r.table /\ \E i \in 1..n : o[i] = mk[2]

Owed == [Table -> [Key -> SUBSET File]]

LEMMA UnsavedType ==
    ASSUME TypeOK
    PROVE  /\ Unsaved \in Buffer
           /\ \A mk \in MergeKey : Unsaved[mk] # NotPending => Unsaved[mk] \in AnyValue
<1>1. wal \in Seq(WalEntry) /\ replayed(wal, lastSeq) \in SUBSET (DOMAIN wal)
  BY DEF TypeOK, replayed
<1>2. CASE MergeKey = {}
  BY <1>2 DEF Unsaved, merged, Buffer
<1>3. CASE MergeKey # {}
  BY <1>1, <1>3, Merged DEF Unsaved, Buffer
<1> QED BY <1>2, <1>3

\* After an append a restart would replay the new entries, over what it would
\* have replayed for their keys before.
LEMMA Appending ==
    ASSUME TypeOK, restoredSeq(wal, lastSeq) = seq,
           NEW r \in Request, NEW o \in listings(r),
           NEW n \in 0..Cardinality(DOMAIN r.items),
           appendLocked(r, o, n), lastSeq' = lastSeq
    PROVE  /\ wal' \in Seq(WalEntry)
           /\ restoredSeq(wal', lastSeq) = seq + n
           /\ \A mk \in MergeKey : Unsaved'[mk] =
                 IF Adds(r, o, n, mk) THEN r.items[mk[2]] ELSE Unsaved[mk]
<1> DEFINE R  == replayed(wal, lastSeq)
           R2 == replayed(wal', lastSeq)
           W  == wal'
           N  == Len(wal)
           new == [i \in 1..n |-> [seq |-> seq + i, table |-> r.table,
                                  key |-> o[i], val |-> r.items[o[i]]]]
<1>1. /\ wal \in Seq(WalEntry) /\ N \in Nat /\ DOMAIN wal = 1..N
      /\ seq \in Nat /\ lastSeq \in Nat /\ n \in Nat
  BY RequestType DEF TypeOK
<1>2. \A i \in 1..n : /\ o[i] \in DOMAIN r.items /\ o[i] \in Key
                      /\ r.items[o[i]] \in AnyValue /\ r.table \in Table
  BY RequestType DEF listings
<1>3. new \in Seq(WalEntry) /\ Len(new) = n
  <2>1. \A i \in 1..n : [seq |-> seq + i, table |-> r.table,
                         key |-> o[i], val |-> r.items[o[i]]] \in WalEntry
    BY <1>1, <1>2 DEF WalEntry
  <2>2. new \in [1..n -> WalEntry]
    BY <2>1
  <2> QED BY <1>1, <2>2
<1>4. W = wal \o new
  BY DEF appendLocked
<1>5. /\ W \in Seq(WalEntry) /\ Len(W) = N + n /\ DOMAIN W = 1..(N + n)
      /\ \A i \in 1..N : W[i] = wal[i]
      /\ \A i \in 1..n : W[N + i] = new[i]
  <2> HIDE DEF new, W, N
  <2>1. /\ W \in Seq(WalEntry) /\ Len(W) = N + n
        /\ \A i \in 1..(N + n) : W[i] = IF i <= N THEN wal[i] ELSE new[i - N]
    BY <1>1, <1>3, <1>4, ConcatProperties DEF N
  <2>2. DOMAIN W = 1..(N + n)
    BY <1>1, <2>1
  <2>3. \A i \in 1..N : i \in 1..(N + n) /\ i <= N
    BY <1>1
  <2>4. \A i \in 1..n : N + i \in 1..(N + n) /\ ~ (N + i <= N) /\ (N + i) - N = i
    BY <1>1
  <2>5. \A i \in 1..n : W[N + i] = new[i]
    BY <2>1, <2>4
  <2> QED BY <2>1, <2>2, <2>3, <2>5
<1>6. \A i \in 1..n : /\ W[N + i].seq = seq + i /\ W[N + i].table = r.table
                      /\ W[N + i].key = o[i] /\ W[N + i].val = r.items[o[i]]
  <2> SUFFICES ASSUME NEW i \in 1..n
               PROVE  /\ W[N + i].seq = seq + i /\ W[N + i].table = r.table
                      /\ W[N + i].key = o[i] /\ W[N + i].val = r.items[o[i]]
    OBVIOUS
  <2>1. new[i] = [seq |-> seq + i, table |-> r.table,
                  key |-> o[i], val |-> r.items[o[i]]]
    OBVIOUS
  <2>2. W[N + i] = new[i]
    BY <1>5
  <2> HIDE DEF new
  <2> QED BY <2>1, <2>2
<1>7. /\ lastSeq <= seq /\ \A i \in 1..N : wal[i].seq <= seq
  BY <1>1, Restored
<1>8. \A i \in DOMAIN W : i \in 1..N \/ \E j \in 1..n : i = N + j
  <2>1. ASSUME NEW i \in 1..(N + n), i \notin 1..N PROVE i - N \in 1..n /\ i = N + (i - N)
    BY <1>1, <2>1
  <2> QED BY <1>5, <2>1
<1> HIDE DEF new
<1>9. restoredSeq(W, lastSeq) = seq + n
  <2>1. ASSUME NEW i \in DOMAIN W PROVE W[i].seq <= seq + n
    <3>1. CASE i \in 1..N
      <4>1. wal[i].seq <= seq /\ W[i] = wal[i]
        BY <1>5, <1>7, <3>1
      <4>2. wal[i].seq \in Nat
        BY <1>1, <3>1, EntryType
      <4> QED BY <1>1, <4>1, <4>2
    <3>2. ASSUME NEW j \in 1..n, i = N + j PROVE W[i].seq <= seq + n
      BY <1>1, <1>6, <3>2
    <3> QED BY <1>8, <3>1, <3>2
  <2>2. seq + n = lastSeq \/ \E i \in DOMAIN W : W[i].seq = seq + n
    <3>1. CASE n = 0
      <4>1. W = wal
        BY <1>1, <1>3, <1>4, <3>1, EmptySeq, ConcatEmptySeq
      <4>2. seq = lastSeq \/ \E i \in DOMAIN wal : wal[i].seq = seq
        BY <1>1, RestoredIn
      <4> QED BY <1>1, <3>1, <4>1, <4>2
    <3>2. CASE n # 0
      <4>1. n \in 1..n /\ N + n \in DOMAIN W
        BY <1>1, <1>5, <3>2
      <4> QED BY <1>6, <4>1
    <3> QED BY <3>1, <3>2
  <2>3. seq + n \in Nat /\ lastSeq <= seq + n
    BY <1>1, <1>7
  <2> HIDE DEF W
  <2> QED BY <1>1, <1>5, <2>1, <2>2, <2>3, RestoredIs
<1>10. /\ \A i \in 1..N : i \in R2 <=> i \in R
       /\ \A i \in 1..n : N + i \in R2
       /\ R \in SUBSET (DOMAIN wal) /\ R2 \in SUBSET (DOMAIN W)
  <2>1. \A i \in 1..N : i \in DOMAIN W /\ i \in DOMAIN wal /\ W[i] = wal[i]
    BY <1>1, <1>5
  <2>2. \A i \in 1..n : N + i \in DOMAIN W /\ W[N + i].seq > lastSeq
    <3> SUFFICES ASSUME NEW i \in 1..n
                 PROVE  N + i \in DOMAIN W /\ W[N + i].seq > lastSeq
      OBVIOUS
    <3>1. W[N + i].seq = seq + i /\ seq + i > lastSeq
      <4>1. seq + i > lastSeq
        BY <1>1, <1>7
      <4> QED BY <1>6, <4>1
    <3>2. N + i \in DOMAIN W
      BY <1>1, <1>5
    <3> QED BY <3>1, <3>2
  <2> QED BY <2>1, <2>2 DEF replayed
<1>11. ASSUME NEW mk \in MergeKey
       PROVE  merged(W, R2)[mk] =
                 IF Adds(r, o, n, mk) THEN r.items[mk[2]] ELSE merged(wal, R)[mk]
  <2> DEFINE e == entriesFor(wal, R, mk)
             e2 == entriesFor(W, R2, mk)
  <2>1. \A i \in 1..N : i \in e <=> i \in e2
    BY <1>5, <1>10 DEF entriesFor
  <2>2. \A i \in 1..n : N + i \in e2 <=> r.table = mk[1] /\ o[i] = mk[2]
    BY <1>6, <1>10 DEF entriesFor
  <2>3. e \subseteq 1..N /\ e2 \subseteq DOMAIN W
    BY <1>1, <1>10 DEF entriesFor
  <2>4. /\ merged(wal, R)[mk] = NotPending <=> e = {}
        /\ e # {} => /\ Max(e) \in e /\ \A i \in e : i <= Max(e)
                     /\ merged(wal, R)[mk] = wal[Max(e)].val
    <3> HIDE DEF R
    <3> QED BY <1>1, <1>10, Merged
  <2>5. /\ merged(W, R2)[mk] = NotPending <=> e2 = {}
        /\ e2 # {} => /\ Max(e2) \in e2 /\ \A i \in e2 : i <= Max(e2)
                      /\ merged(W, R2)[mk] = W[Max(e2)].val
    <3> HIDE DEF R2, W
    <3> QED BY <1>5, <1>10, Merged
  <2> HIDE DEF e, e2, R, R2, W
  <2>6. CASE Adds(r, o, n, mk)
    <3>1. PICK i \in 1..n : o[i] = mk[2] /\ r.table = mk[1]
      BY <2>6 DEF Adds
    <3>2. N + i \in e2 /\ Max(e2) \in e2 /\ N + i <= Max(e2)
      BY <2>2, <2>5, <3>1
    <3>3. PICK j \in 1..n : Max(e2) = N + j
      <4>1. Max(e2) \in DOMAIN W /\ Max(e2) \notin 1..N
        BY <1>1, <1>5, <2>3, <3>2
      <4> QED BY <1>8, <4>1
    <3>4. o[j] = mk[2]
      BY <2>2, <3>2, <3>3
    <3> QED BY <1>6, <2>5, <2>6, <3>2, <3>3, <3>4
  <2>7. CASE ~ Adds(r, o, n, mk)
    <3>1. e2 = e
      <4>1. \A j \in 1..n : N + j \notin e2
        BY <2>2, <2>7 DEF Adds
      <4> QED BY <1>1, <1>8, <2>1, <2>3, <4>1
    <3>2. CASE e = {}
      BY <2>4, <2>5, <2>7, <3>1, <3>2
    <3>3. CASE e # {}
      <4>1. W[Max(e)] = wal[Max(e)]
        BY <1>5, <2>3, <2>4, <3>3
      <4> QED BY <2>4, <2>5, <2>7, <3>1, <3>3, <4>1
    <3> QED BY <3>2, <3>3
  <2> QED BY <2>6, <2>7
<1>12. Unsaved' = merged(W, R2) /\ Unsaved = merged(wal, R)
  BY DEF Unsaved, merged, replayed, entriesFor
<1> QED BY <1>5, <1>9, <1>11, <1>12

-----------------------------------------------------------------------------
(* The effects of the steps, key by key *)

LEMMA Flushing ==
    ASSUME files \in Files, NEW p \in Buffer, flushAllLocked(p)
    PROVE  /\ files' \in Files /\ pend' \in Buffer
           /\ \A mk \in MergeKey :
                 \/ /\ p[mk] # NotPending
                    /\ Reads(At(files', mk), p[mk]) /\ pend'[mk] = NotPending
                 \/ At(files', mk) = At(files, mk) /\ pend'[mk] = p[mk]
           /\ failing(p) = {} => \A mk \in MergeKey : pend'[mk] = NotPending
<1> DEFINE done == written(p, Len(Order))
           g == filesAfter(files, p, done)
<1>1. done \in SUBSET Dirty(p) /\ (failing(p) = {} => done = Dirty(p))
  BY WrittenDirty
<1>2. files' = g /\ pend' = pendAfter(p, done)
  BY DEF flushAllLocked
<1> HIDE DEF done
<1>3. /\ g \in Files /\ pendAfter(p, done) \in Buffer
      /\ \A mk \in MergeKey :
            /\ IF mk \in done THEN Reads(At(g, mk), p[mk]) ELSE At(g, mk) = At(files, mk)
            /\ pendAfter(p, done)[mk] = IF mk \in done THEN NotPending ELSE p[mk]
  BY <1>1, AfterFlush
<1> HIDE DEF g
<1> QED BY <1>1, <1>2, <1>3 DEF Dirty

LEMMA PartFlushed ==
    ASSUME files \in Files, NEW p \in Buffer, NEW n,
           files' \in cut(files, p, written(p, n), written(p, n + 1))
    PROVE  /\ files' \in Files
           /\ \A mk \in MergeKey :
                 \/ At(files', mk) = At(files, mk)
                 \/ p[mk] # NotPending /\ At(files', mk) \in {p[mk], Torn}
<1>1. written(p, n) \in SUBSET Dirty(p) /\ written(p, n + 1) \in SUBSET Dirty(p)
  BY WrittenDirty
<1> QED BY <1>1, CutFiles

LEMMA Loading ==
    ASSUME TypeOK, Load
    PROVE  /\ files' \in Files /\ pend' \in Buffer
           /\ seq' = restoredSeq(wal, lastSeq) /\ seq' \in Nat
           /\ tables \subseteq tables' /\ tables' \subseteq Table
           /\ Defer => pend' = Unsaved /\ files' = files
           /\ ~ Defer => pend' = pend /\ \A mk \in MergeKey :
                 IF Unsaved[mk] = NotPending THEN At(files', mk) = At(files, mk)
                 ELSE Reads(At(files', mk), Unsaved[mk])
<1>1. /\ files \in Files /\ pend \in Buffer /\ Unsaved \in Buffer
      /\ wal \in Seq(WalEntry) /\ lastSeq \in Nat /\ tables \subseteq Table
  BY UnsavedType DEF TypeOK, Files, Buffer
<1> DEFINE R == replayed(wal, lastSeq)
           g == replayedInto(files, wal, R)
<1>2. R \in SUBSET (DOMAIN wal)
  BY DEF replayed
<1>3. /\ Defer => pend' = Unsaved /\ files' = files
      /\ ~ Defer => files' = g /\ pend' = pend
      /\ seq' = restoredSeq(wal, lastSeq)
      /\ tables' = tables \cup {wal[i].table : i \in R}
  BY DEF Load, Unsaved
<1>4. Unsaved = merged(wal, R)
  BY DEF Unsaved
<1>5. tables' \subseteq Table
  BY <1>1, <1>2, <1>3, EntryType
<1> HIDE DEF R
<1>6. /\ g \in Files
      /\ \A mk \in MergeKey :
            IF Unsaved[mk] = NotPending THEN At(g, mk) = At(files, mk)
            ELSE Reads(At(g, mk), Unsaved[mk])
  BY <1>1, <1>2, <1>4, ReplayedFiles
<1>7. seq' \in Nat
  BY <1>1, <1>3, Restored
<1> HIDE DEF g
<1> QED BY <1>1, <1>3, <1>5, <1>6, <1>7

LEMMA PartLoaded ==
    ASSUME TypeOK, CrashInLoad
    PROVE  /\ files' \in Files
           /\ tables \subseteq tables' /\ tables' \subseteq Table
           /\ \A mk \in MergeKey :
                 At(files', mk) = At(files, mk) \/ Unsaved[mk] # NotPending
<1>1. /\ files \in Files /\ wal \in Seq(WalEntry) /\ tables \subseteq Table
  BY DEF TypeOK, Files
<1> DEFINE R == replayed(wal, lastSeq)
           is(m) == {i \in R : i <= m}
           next(m, n) == {i \in R : m < i /\ i <= n}
           q(m, n) == merged(wal, next(m, n))
<1>2. PICK n \in R : \E m \in 0..n, j \in 0..Len(Order) :
         /\ tables' = tables \cup {wal[i].table : i \in is(m) \cup next(m, n)}
         /\ files' \in cut(replayedInto(files, wal, is(m)), q(m, n),
                           buffered(q(m, n), j), buffered(q(m, n), j + 1))
  BY DEF CrashInLoad
<1>3. PICK m \in 0..n, j \in 0..Len(Order) :
         /\ tables' = tables \cup {wal[i].table : i \in is(m) \cup next(m, n)}
         /\ files' \in cut(replayedInto(files, wal, is(m)), q(m, n),
                           buffered(q(m, n), j), buffered(q(m, n), j + 1))
  BY <1>2
<1> DEFINE I == is(m)
           N == next(m, n)
           p == merged(wal, N)
           g == replayedInto(files, wal, I)
<1>4. /\ R \in SUBSET (DOMAIN wal) /\ I \in SUBSET (DOMAIN wal)
      /\ N \in SUBSET (DOMAIN wal) /\ I \subseteq R /\ N \subseteq R
  BY DEF replayed
<1>5. tables' \subseteq Table
  BY <1>1, <1>3, <1>4, EntryType
<1>6. files' \in cut(g, p, buffered(p, j), buffered(p, j + 1))
  BY <1>3
<1>7. Unsaved = merged(wal, R)
  BY DEF Unsaved
<1>8. tables \subseteq tables'
  BY <1>3
<1> HIDE DEF R, I, N
<1>9. ASSUME NEW K \in SUBSET R, NEW mk \in MergeKey
      PROVE  merged(wal, K)[mk] # NotPending => Unsaved[mk] # NotPending
  <2>1. entriesFor(wal, K, mk) \subseteq entriesFor(wal, R, mk)
    BY DEF entriesFor
  <2>2. K \in SUBSET (DOMAIN wal)
    BY <1>4
  <2> QED BY <1>1, <1>4, <1>7, <2>1, <2>2, Merged
<1>10. /\ g \in Files
      /\ \A mk \in MergeKey : merged(wal, I)[mk] = NotPending => At(g, mk) = At(files, mk)
  BY <1>1, <1>4, ReplayedFiles
<1>11. p \in Buffer
  <2>1. CASE MergeKey # {}
    BY <1>1, <1>4, <2>1, Merged
  <2>2. CASE MergeKey = {}
    BY <2>2 DEF merged, Buffer
  <2> QED BY <2>1, <2>2
<1> HIDE DEF g
<1>12. \A mk \in MergeKey : p[mk] # NotPending => Unsaved[mk] # NotPending
  BY <1>4, <1>9
<1> HIDE DEF p
<1>13. buffered(p, j) \in SUBSET Dirty(p) /\ buffered(p, j + 1) \in SUBSET Dirty(p)
  BY WrittenDirty
<1>14. /\ files' \in Files
       /\ \A mk \in MergeKey : At(files', mk) = At(g, mk) \/ p[mk] # NotPending
  BY <1>6, <1>10, <1>11, <1>13, CutFiles
<1> QED BY <1>4, <1>5, <1>8, <1>9, <1>10, <1>12, <1>14

LEMMA Remembered ==
    ASSUME logged \in Contents, owed \in Owed, NEW r \in Request,
           NEW o \in listings(r), NEW n \in 0..Cardinality(DOMAIN r.items),
           appendLocked(r, o, n)
    PROVE  /\ logged' \in Contents /\ owed' \in Owed
           /\ \A mk \in MergeKey :
                 /\ At(logged', mk) = IF Adds(r, o, n, mk)
                                      THEN r.items[mk[2]] ELSE At(logged, mk)
                 /\ At(owed', mk) = IF Adds(r, o, n, mk)
                                    THEN At(owed, mk) \cup {r.items[mk[2]], Torn}
                                    ELSE At(owed, mk)
                 /\ Adds(r, o, n, mk) => Covers(r, mk)
           /\ n = Cardinality(DOMAIN r.items) =>
                 \A mk \in MergeKey : Covers(r, mk) => Adds(r, o, n, mk)
<1> DEFINE new(k) == \E i \in 1..n : o[i] = k
           c == Cardinality(DOMAIN r.items)
<1>1. /\ r.table \in Table /\ DOMAIN r.items \subseteq Key /\ c \in Nat /\ n \in Nat
      /\ \A k \in DOMAIN r.items : r.items[k] \in AnyValue
  BY RequestType
<1>2. o \in [1..c -> DOMAIN r.items] /\ \A i, j \in DOMAIN o : o[i] = o[j] => i = j
  BY DEF listings
<1>3. \A k : new(k) => k \in DOMAIN r.items
  BY <1>1, <1>2
<1>4. /\ logged' = [logged EXCEPT ![r.table] = [k \in Key |->
                       IF new(k) THEN r.items[k] ELSE logged[r.table][k]]]
      /\ owed' = [owed EXCEPT ![r.table] = [k \in Key |->
                     IF new(k) THEN owed[r.table][k] \cup {r.items[k], Torn}
                               ELSE owed[r.table][k]]]
  BY DEF appendLocked
<1>5. logged' \in Contents
  <2>1. ASSUME NEW k \in Key
        PROVE  (IF new(k) THEN r.items[k] ELSE logged[r.table][k]) \in AnyValue
    BY <1>1, <1>3 DEF Contents
  <2> HIDE DEF new
  <2> QED BY <1>1, <1>4, <2>1 DEF Contents
<1>6. owed' \in Owed
  <2>1. ASSUME NEW k \in Key
        PROVE  (IF new(k) THEN owed[r.table][k] \cup {r.items[k], Torn}
                          ELSE owed[r.table][k]) \in SUBSET File
    BY <1>1, <1>3 DEF Owed, File
  <2> HIDE DEF new
  <2> QED BY <1>1, <1>4, <2>1 DEF Owed
<1>7. ASSUME NEW mk \in MergeKey
      PROVE  /\ At(logged', mk) = IF Adds(r, o, n, mk)
                                  THEN r.items[mk[2]] ELSE At(logged, mk)
             /\ At(owed', mk) = IF Adds(r, o, n, mk)
                                THEN At(owed, mk) \cup {r.items[mk[2]], Torn}
                                ELSE At(owed, mk)
             /\ Adds(r, o, n, mk) => Covers(r, mk)
  <2>1. mk[1] \in Table /\ mk[2] \in Key
    BY Pairs
  <2>2. Adds(r, o, n, mk) <=> mk[1] = r.table /\ new(mk[2])
    BY DEF Adds
  <2>3. Adds(r, o, n, mk) => Covers(r, mk)
    BY <1>3, <2>2 DEF Covers
  <2> HIDE DEF new
  <2>4. CASE mk[1] = r.table
    BY <1>1, <1>4, <2>1, <2>2, <2>3, <2>4 DEF At, Contents, Owed
  <2>5. CASE mk[1] # r.table
    BY <1>1, <1>4, <2>1, <2>2, <2>3, <2>5 DEF At, Contents, Owed
  <2> QED BY <2>4, <2>5
<1>8. ASSUME n = c PROVE \A k \in DOMAIN r.items : new(k)
  BY <1>2, <1>8, RequestType, ListsAll
<1> QED BY <1>5, <1>6, <1>7, <1>8 DEF Covers, Adds

LEMMA Acknowledged ==
    ASSUME owed \in Owed, NEW r \in Request, acknowledge(r)
    PROVE  /\ owed' \in Owed
           /\ \A mk \in MergeKey : At(owed', mk) =
                 IF Covers(r, mk) THEN {r.items[mk[2]]} ELSE At(owed, mk)
<1>1. /\ r.table \in Table /\ DOMAIN r.items \subseteq Key
      /\ \A k \in DOMAIN r.items : r.items[k] \in AnyValue
  BY RequestType
<1>2. owed' = [owed EXCEPT ![r.table] = [k \in Key |->
                  IF k \in DOMAIN r.items THEN {r.items[k]} ELSE owed[r.table][k]]]
  BY DEF acknowledge
<1>3. owed' \in Owed
  <2>1. ASSUME NEW k \in Key
        PROVE  (IF k \in DOMAIN r.items THEN {r.items[k]} ELSE owed[r.table][k])
                 \in SUBSET File
    BY <1>1 DEF Owed, File
  <2> QED BY <1>1, <1>2, <2>1 DEF Owed
<1>4. ASSUME NEW mk \in MergeKey
      PROVE  At(owed', mk) = IF Covers(r, mk) THEN {r.items[mk[2]]} ELSE At(owed, mk)
  <2>1. mk[1] \in Table /\ mk[2] \in Key
    BY Pairs
  <2>2. CASE mk[1] = r.table
    BY <1>1, <1>2, <2>1, <2>2 DEF At, Covers, Owed
  <2>3. CASE mk[1] # r.table
    BY <1>1, <1>2, <2>1, <2>3 DEF At, Covers, Owed
  <2> QED BY <2>2, <2>3
<1> QED BY <1>3, <1>4

LEMMA JobType ==
    ASSUME TypeOK
    PROVE  \/ job = Idle /\ job.at = "idle"
           \/ /\ job # Idle /\ job.at \in {"auto", "logged"} /\ job.req \in Request
              /\ job = [at |-> job.at, req |-> job.req]
<1>1. Idle.at = "idle"
  BY DEF Idle
<1>2. job = Idle \/ job \in [at : {"auto", "logged"}, req : Request]
  BY DEF TypeOK, Job
<1> QED BY <1>1, <1>2

LEMMA SameLog ==
    ASSUME wal' = wal, lastSeq' = lastSeq
    PROVE  /\ Unsaved' = Unsaved
           /\ restoredSeq(wal', lastSeq') = restoredSeq(wal, lastSeq)
<1>1. Unsaved' = Unsaved
  BY DEF Unsaved, merged, replayed, entriesFor
<1> QED BY <1>1

LEMMA NoneUnsaved ==
    ASSUME replayed(wal, lastSeq) = {}
    PROVE  \A mk \in MergeKey : Unsaved[mk] = NotPending
BY DEF Unsaved, merged, entriesFor

\* The types, under the names used here.
LEMMA Typed ==
    ASSUME TypeOK
    PROVE  /\ wal \in Seq(WalEntry) /\ lastSeq \in Nat /\ seq \in Nat
           /\ files \in Files /\ logged \in Contents /\ owed \in Owed
           /\ pend \in Buffer /\ Unsaved \in Buffer
BY UnsavedType DEF TypeOK, Contents, Files, Owed, Buffer

LEMMA RequestsTyped ==
    ASSUME NEW r \in requests
    PROVE  r \in Request
<1>1. r \in [kind : Kinds, table : Table, items : Items,
             old : Versioned \cup {None, NoVersion}]
  BY DEF requests
<1> QED BY <1>1, OptionsTyped DEF Request

LEMMA WentDown ==
    ASSUME TypeOK, Down
    PROVE  /\ mode' = "down" /\ seq' \in Nat /\ writesSinceCkpt' \in Nat
           /\ pend' \in Buffer /\ cache' \in [Key -> AnyValue]
           /\ \A mk \in MergeKey : pend'[mk] = NotPending
           /\ job' = Idle /\ job' \in Job /\ job'.at = "idle"
           /\ ckpt' = NoCkpt /\ ckpt' \in Ckpt /\ ckpt'.at = "idle"
           /\ crashes' \in Nat
<1>1. /\ pend'  = [mk \in MergeKey |-> NotPending]
      /\ cache' = [k \in Key |-> None] /\ crashes' = crashes + 1
      /\ mode' = "down" /\ seq' = 0 /\ writesSinceCkpt' = 0
      /\ job' = Idle /\ ckpt' = NoCkpt /\ crashes \in Nat
  BY DEF Down, TypeOK
<1>2. cache' \in [Key -> AnyValue]
  BY <1>1 DEF AnyValue
<1>3. pend' \in Buffer /\ \A mk \in MergeKey : pend'[mk] = NotPending
  BY <1>1 DEF Buffer
<1>4. job' \in Job /\ job'.at = "idle" /\ ckpt' \in Ckpt /\ ckpt'.at = "idle"
  BY <1>1 DEF Job, Idle, NoCkpt, Ckpt
<1>5. seq' \in Nat /\ writesSinceCkpt' \in Nat /\ crashes' \in Nat
  BY <1>1
<1> QED BY <1>1, <1>2, <1>3, <1>4, <1>5

-----------------------------------------------------------------------------
(* What holds whatever the options are *)

\* The counter of a running process is what a restart would restore, and a
\* checkpoint that was saved names it.
Numbered ==
    /\ mode # "down" => restoredSeq(wal, lastSeq) = seq
    /\ ckpt.at = "saved" => lastSeq = seq

\* Who can be at work when.
Running ==
    /\ mode # "up" => job = Idle
    /\ ckpt.at # "idle" => mode # "down"
    /\ ckpt.at # "idle" /\ ckpt.by = "write" => job.at = "auto"

\* A client may expect the last value logged for a key; a restart replays
\* that one or none; and it is the value of the operation at hand, which may
\* tear the file.
LastLogged ==
    \A mk \in MergeKey :
        /\ At(logged, mk) \in At(owed, mk)
        /\ Unsaved[mk] # NotPending => Unsaved[mk] = At(logged, mk)
        /\ job # Idle /\ Covers(job.req, mk) =>
               job.req.items[mk[2]] = At(logged, mk) /\ Torn \in At(owed, mk)

BaseInv == TypeOK /\ Numbered /\ Running /\ LastLogged

\* The effects of an append: of all of a request, or of a first part.
Appended(r, o, n) ==
    /\ appendLocked(r, o, n)
    /\ LogRequest(r) => n = Cardinality(DOMAIN r.items)
    /\ LogRequest(r) \/ Down
    /\ wal' \in Seq(WalEntry) /\ restoredSeq(wal', lastSeq) = seq + n
    /\ logged' \in Contents /\ owed' \in Owed
    /\ \A mk \in MergeKey :
          /\ Unsaved'[mk] = IF Adds(r, o, n, mk)
                            THEN r.items[mk[2]] ELSE Unsaved[mk]
          /\ At(logged', mk) = IF Adds(r, o, n, mk)
                               THEN r.items[mk[2]] ELSE At(logged, mk)
          /\ At(owed', mk) = IF Adds(r, o, n, mk)
                             THEN At(owed, mk) \cup {r.items[mk[2]], Torn}
                             ELSE At(owed, mk)
          /\ Adds(r, o, n, mk) => Covers(r, mk)
    /\ LogRequest(r) => \A mk \in MergeKey : Covers(r, mk) => Adds(r, o, n, mk)

LEMMA Appends ==
    ASSUME BaseInv, NEW r \in requests, LogRequest(r) \/ CrashInLog(r)
    PROVE  /\ mode = "up" /\ job = Idle /\ ckpt.at = "idle" /\ r \in Request
           /\ restoredSeq(wal, lastSeq) = seq /\ lastSeq' = lastSeq
           /\ files' = files /\ tables' = tables
           /\ \E o \in listings(r), n \in 0..Cardinality(DOMAIN r.items) :
                 Appended(r, o, n)
<1> DEFINE c == Cardinality(DOMAIN r.items)
<1>1. /\ mayLog(r) /\ mode = "up" /\ job = Idle /\ ckpt.at = "idle" /\ r \in Request
      /\ restoredSeq(wal, lastSeq) = seq /\ lastSeq' = lastSeq
      /\ files' = files /\ tables' = tables
  BY RequestsTyped DEF LogRequest, CrashInLog, mayLog, BaseInv, Numbered
<1>2. PICK o \in listings(r), n \in 0..c :
         /\ appendLocked(r, o, n)
         /\ LogRequest(r) => n = c
         /\ LogRequest(r) \/ Down
  <2>1. c \in Nat
    BY <1>1, RequestType
  <2> HIDE DEF c
  <2>2. CASE LogRequest(r)
    BY <2>1, <2>2 DEF LogRequest, c
  <2>3. CASE CrashInLog(r)
    <3>1. PICK o \in listings(r), n \in 0..(c - 1) : appendLocked(r, o, n)
      BY <2>3 DEF CrashInLog, c
    <3>2. n \in 0..c
      BY <2>1
    <3>3. CASE LogRequest(r)
      BY <2>2, <3>3
    <3>4. CASE ~ LogRequest(r)
      BY <2>3, <3>1, <3>2, <3>4 DEF CrashInLog
    <3> QED BY <3>3, <3>4
  <2> QED BY <2>2, <2>3
<1>3. /\ wal' \in Seq(WalEntry) /\ restoredSeq(wal', lastSeq) = seq + n
      /\ \A mk \in MergeKey : Unsaved'[mk] =
            IF Adds(r, o, n, mk) THEN r.items[mk[2]] ELSE Unsaved[mk]
  BY <1>1, <1>2, Appending DEF BaseInv
<1>4. /\ logged' \in Contents /\ owed' \in Owed
      /\ \A mk \in MergeKey :
            /\ At(logged', mk) = IF Adds(r, o, n, mk)
                                 THEN r.items[mk[2]] ELSE At(logged, mk)
            /\ At(owed', mk) = IF Adds(r, o, n, mk)
                               THEN At(owed, mk) \cup {r.items[mk[2]], Torn}
                               ELSE At(owed, mk)
            /\ Adds(r, o, n, mk) => Covers(r, mk)
      /\ n = c => \A mk \in MergeKey : Covers(r, mk) => Adds(r, o, n, mk)
  BY <1>1, <1>2, Typed, Remembered DEF BaseInv
<1>5. Appended(r, o, n)
  BY <1>2, <1>3, <1>4, Zenon DEF Appended
<1> QED BY <1>1, <1>5

LEMMA AppendBase ==
    ASSUME BaseInv, NEW r \in requests, LogRequest(r) \/ CrashInLog(r)
    PROVE  BaseInv'
<1> DEFINE c == Cardinality(DOMAIN r.items)
<1>1. /\ mode = "up" /\ ckpt.at = "idle" /\ r \in Request
      /\ restoredSeq(wal, lastSeq) = seq /\ lastSeq' = lastSeq
      /\ files' = files /\ tables' = tables
  BY Appends
<1>2. PICK o \in listings(r), n \in 0..c : Appended(r, o, n)
  BY Appends
<1>3. /\ wal' \in Seq(WalEntry) /\ restoredSeq(wal', lastSeq) = seq + n
      /\ logged' \in Contents /\ owed' \in Owed
      /\ LogRequest(r) \/ Down
      /\ LogRequest(r) => n = c
  BY <1>2 DEF Appended
<1>5. \A mk \in MergeKey : /\ At(logged', mk) \in At(owed', mk)
                           /\ Unsaved'[mk] # NotPending =>
                                 Unsaved'[mk] = At(logged', mk)
  BY <1>2 DEF BaseInv, LastLogged, Appended
<1>6. CASE LogRequest(r)
  <2>1. /\ job' = [at |-> job'.at, req |-> r] /\ job'.at \in {"auto", "logged"}
        /\ job'.req = r /\ mode' = "up" /\ ckpt' = ckpt /\ seq' = seq + n
        /\ pend' = pend /\ cache' = cache /\ crashes' = crashes
    BY <1>1, <1>3, <1>6 DEF LogRequest
  <2>2. job' \in Job /\ job' # Idle
    BY <1>1, <2>1 DEF Job, Idle
  <2>3. writesSinceCkpt' \in Nat /\ seq' \in Nat
    <3>1. c \in Nat /\ seq \in Nat /\ writesSinceCkpt \in Nat
      BY <1>1, RequestType DEF BaseInv, TypeOK
    <3> QED BY <1>6, <3>1 DEF LogRequest
  <2>4. TypeOK'
    BY <1>1, <1>3, <2>1, <2>2, <2>3 DEF BaseInv, TypeOK, Contents, Owed
  <2>5. Numbered' /\ Running'
    BY <1>1, <1>3, <2>1, <2>2 DEF Numbered, Running
  <2>6. LastLogged'
    BY <1>2, <1>5, <1>6, <2>1 DEF LastLogged, Appended
  <2> QED BY <2>4, <2>5, <2>6 DEF BaseInv
<1>7. CASE Down
  <2>1. TypeOK'
    BY <1>1, <1>3, <1>7, WentDown
    DEF BaseInv, TypeOK, Contents, Owed, Buffer
  <2>2. Numbered' /\ Running'
    BY <1>7, WentDown DEF BaseInv, Numbered, Running
  <2>3. LastLogged'
    BY <1>5, <1>7, WentDown DEF BaseInv, LastLogged
  <2> QED BY <2>1, <2>2, <2>3 DEF BaseInv
<1> QED BY <1>3, <1>6, <1>7

LEMMA ApplyBase ==
    ASSUME BaseInv, ApplyRequest
    PROVE  BaseInv'
<1> DEFINE r == job.req
           p == upsertLocked(pend, r)
<1>1. /\ TypeOK /\ job # Idle /\ r \in Request
      /\ wal' = wal /\ lastSeq' = lastSeq /\ tables' = tables /\ logged' = logged
      /\ seq' = seq /\ writesSinceCkpt' = writesSinceCkpt /\ ckpt' = ckpt
      /\ mode' = mode /\ crashes' = crashes /\ job' = Idle
  BY JobType DEF BaseInv, ApplyRequest
<1>2. p \in Buffer
  BY <1>1, Typed, Upserted
<1>3. files' \in Files /\ pend' \in Buffer
  <2>1. flushAllLocked(p) \/ (pend' = p /\ files' = files)
    BY DEF ApplyRequest
  <2> HIDE DEF p
  <2> QED BY <1>1, <1>2, <2>1, Typed, Flushing
<1>4. cache' \in [Key -> AnyValue]
  <2>1. cache' = cacheAfter(r) \/ cache' = cache
    BY DEF ApplyRequest
  <2>2. cache \in [Key -> AnyValue]
    BY <1>1 DEF TypeOK
  <2>3. \A k \in DOMAIN r.items : r.items[k] \in AnyValue
    BY <1>1, RequestType
  <2> HIDE DEF r
  <2>4. cacheAfter(r) \in [Key -> AnyValue]
    BY <2>2, <2>3 DEF cacheAfter
  <2> QED BY <2>1, <2>2, <2>4
<1>5. acknowledge(r) \/ owed' = owed
  BY DEF ApplyRequest
<1>6. owed' \in Owed /\ \A mk \in MergeKey :
          \/ At(owed', mk) = At(owed, mk)
          \/ Covers(r, mk) /\ At(owed', mk) = {r.items[mk[2]]}
  <2> HIDE DEF r
  <2> QED BY <1>1, <1>5, Typed, Acknowledged
<1>7. ckpt.at = "idle" \/ ckpt.by # "write"
  BY <1>1, JobType DEF BaseInv, Running, ApplyRequest
<1> HIDE DEF r, p
<1>8. TypeOK'
  BY <1>1, <1>3, <1>4, <1>6 DEF TypeOK, Files, Owed, Buffer, Job
<1>9. Numbered' /\ Running'
  BY <1>1, <1>7, SameLog DEF BaseInv, Numbered, Running
<1>10. LastLogged'
  <2>1. \A mk \in MergeKey : Covers(r, mk) => r.items[mk[2]] = At(logged, mk)
    BY <1>1 DEF BaseInv, LastLogged, r
  <2> QED BY <1>1, <1>6, <2>1, SameLog DEF BaseInv, LastLogged
<1> QED BY <1>8, <1>9, <1>10 DEF BaseInv

\* Steps of a running process that append nothing and acknowledge nothing.
LEMMA FlushBase ==
    ASSUME BaseInv, Flush \/ \E by \in {"task", "write", "load"} : CheckpointFlush(by)
    PROVE  BaseInv'
<1>1. /\ flushAllLocked(pend) /\ wal' = wal /\ lastSeq' = lastSeq
      /\ tables' = tables /\ logged' = logged /\ owed' = owed /\ seq' = seq
      /\ writesSinceCkpt' = writesSinceCkpt /\ cache' = cache /\ mode' = mode
      /\ crashes' = crashes
  BY DEF Flush, CheckpointFlush, history
<1>2. files' \in Files /\ pend' \in Buffer
  BY <1>1, Typed, Flushing DEF BaseInv
<1>3. \/ job' = job /\ ckpt' = ckpt
      \/ job' = Idle /\ ckpt' = ckpt /\ ckpt.at = "idle" /\ job.at = "auto"
      \/ \E by \in {"task", "write", "load"} :
            /\ job' = job /\ ckpt' = [at |-> "flushed", by |-> by]
            /\ mayCheckpoint(by)
  <2>1. CASE Flush
    BY <2>1 DEF Flush
  <2>2. ASSUME NEW by \in {"task", "write", "load"}, CheckpointFlush(by)
        PROVE  <1>3!:
    BY <2>2 DEF CheckpointFlush, mayCheckpoint
  <2> QED BY <2>1, <2>2
<1>4. job' \in Job /\ ckpt' \in Ckpt
  BY <1>3 DEF BaseInv, TypeOK, Job, Ckpt
<1>5. TypeOK'
  BY <1>1, <1>2, <1>4 DEF BaseInv, TypeOK, Files, Buffer
<1>6. Numbered' /\ Running'
  <2>1. mode # "down" \/ ckpt'.at = "idle"
    BY <1>3, JobType DEF BaseInv, mayCheckpoint, Running
  <2>2. ckpt'.at # "idle" /\ ckpt'.by = "write" => job'.at = "auto"
    BY <1>3 DEF BaseInv, mayCheckpoint, Running
  <2>3. ckpt'.at = "saved" => ckpt.at = "saved"
    BY <1>3
  <2> QED BY <1>1, <1>3, <2>1, <2>2, <2>3, SameLog DEF BaseInv, Numbered, Running
<1>7. LastLogged'
  <2>1. job' = job \/ job' = Idle
    BY <1>3
  <2> QED BY <1>1, <2>1, SameLog DEF BaseInv, LastLogged
<1> QED BY <1>5, <1>6, <1>7 DEF BaseInv

LEMMA CacheBase ==
    ASSUME BaseInv,
           \/ \E t \in Table : CreateTable(t)
           \/ \E t \in Table, k \in Key : Get(t, k)
           \/ \E k \in Key : Evict(k)
    PROVE  BaseInv'
<1>1. /\ wal' = wal /\ lastSeq' = lastSeq /\ files' = files /\ logged' = logged
      /\ owed' = owed /\ seq' = seq /\ writesSinceCkpt' = writesSinceCkpt
      /\ pend' = pend /\ job' = job /\ ckpt' = ckpt /\ mode' = mode
      /\ crashes' = crashes
  BY DEF CreateTable, Get, Evict, disk, history, memory
<1>2. tables' \subseteq Table
  BY DEF CreateTable, Get, Evict, disk, BaseInv, TypeOK
<1>3. cache' \in [Key -> AnyValue]
  <2>1. cache \in [Key -> AnyValue]
    BY DEF BaseInv, TypeOK
  <2>2. ASSUME NEW t \in Table, NEW k \in Key PROVE valueOf(StoreGet(t, k)) \in AnyValue
    <3>1. files[t][k] \in AnyValue \cup {Torn} /\ <<t, k>> \in MergeKey
      BY DEF BaseInv, TypeOK, MergeKey, File
    <3>2. pend[<<t, k>>] \in AnyValue \cup {NotPending}
      BY <3>1 DEF BaseInv, TypeOK
    <3>3. None \in AnyValue
      BY DEF AnyValue
    <3> QED BY <3>1, <3>2, <3>3 DEF StoreGet, valueOf
  <2>3. ASSUME NEW t \in Table, CreateTable(t) PROVE cache' \in [Key -> AnyValue]
    BY <2>1, <2>3 DEF CreateTable, memory
  <2>4. ASSUME NEW t \in Table, NEW k \in Key, Get(t, k)
        PROVE  cache' \in [Key -> AnyValue]
    BY <2>1, <2>2, <2>4 DEF Get
  <2>5. ASSUME NEW k \in Key, Evict(k) PROVE cache' \in [Key -> AnyValue]
    BY <2>1, <2>5 DEF Evict, AnyValue
  <2> QED BY <2>3, <2>4, <2>5
<1>4. TypeOK'
  BY <1>1, <1>2, <1>3 DEF BaseInv, TypeOK
<1>5. Numbered' /\ Running' /\ LastLogged'
  BY <1>1, SameLog DEF BaseInv, Numbered, Running, LastLogged
<1> QED BY <1>4, <1>5 DEF BaseInv

\* What a saved checkpoint and a truncated WAL leave to replay: nothing.
LEMMA Checkpointed ==
    ASSUME BaseInv, SaveLastSeq \/ TruncateWal
    PROVE  /\ wal' \in Seq(WalEntry) /\ lastSeq' = seq /\ seq \in Nat
           /\ mode # "down" /\ restoredSeq(wal, lastSeq) = seq
           /\ restoredSeq(wal', lastSeq') = seq
           /\ replayed(wal', lastSeq') = {}
           /\ \A mk \in MergeKey : Unsaved'[mk] = NotPending
<1>1. /\ wal \in Seq(WalEntry) /\ seq \in Nat /\ mode # "down"
      /\ restoredSeq(wal, lastSeq) = seq /\ lastSeq \in Nat
  BY Typed DEF SaveLastSeq, TruncateWal, BaseInv, Running, Numbered
<1>2. CASE SaveLastSeq
  <2>1. wal' = wal /\ lastSeq' = seq
    BY <1>2 DEF SaveLastSeq
  <2>2. replayed(wal', lastSeq') = {}
    BY <1>1, <2>1, Restored
  <2>3. restoredSeq(wal', lastSeq') = seq
    <3>1. seq \in Nat /\ \A i \in DOMAIN wal : wal[i].seq <= seq
      BY <1>1, Restored
    <3> QED BY <1>1, <2>1, <3>1, RestoredIs
  <2>4. \A mk \in MergeKey : Unsaved'[mk] = NotPending
    BY <2>2 DEF Unsaved, merged, entriesFor
  <2> QED BY <1>1, <2>1, <2>2, <2>3, <2>4
<1>3. CASE TruncateWal
  <2>1. wal' = <<>> /\ lastSeq' = lastSeq /\ lastSeq = seq
    BY <1>3 DEF TruncateWal, BaseInv, Numbered
  <2>2. wal' \in Seq(WalEntry) /\ DOMAIN wal' = {}
    BY <2>1
  <2>3. replayed(wal', lastSeq') = {}
    BY <2>2 DEF replayed
  <2>4. restoredSeq(wal', lastSeq') = seq
    <3>1. wal' \in Seq(WalEntry) /\ lastSeq \in Nat /\ lastSeq <= lastSeq
          /\ \A i \in DOMAIN wal' : wal'[i].seq <= lastSeq
      BY <1>1, <2>2
    <3> QED BY <2>1, <3>1, RestoredIs
  <2>5. \A mk \in MergeKey : Unsaved'[mk] = NotPending
    BY <2>3 DEF Unsaved, merged, entriesFor
  <2> QED BY <1>1, <2>1, <2>2, <2>3, <2>4, <2>5
<1> QED BY <1>2, <1>3

LEMMA CheckpointBase ==
    ASSUME BaseInv, SaveLastSeq \/ TruncateWal
    PROVE  BaseInv'
<1>1. /\ tables' = tables /\ files' = files /\ logged' = logged /\ owed' = owed
      /\ seq' = seq /\ pend' = pend /\ cache' = cache /\ crashes' = crashes
  BY DEF SaveLastSeq, TruncateWal, history
<1>2. /\ wal' \in Seq(WalEntry) /\ lastSeq' = seq /\ seq \in Nat /\ mode # "down"
      /\ restoredSeq(wal', lastSeq') = seq
      /\ \A mk \in MergeKey : Unsaved'[mk] = NotPending
  BY Checkpointed
<1>3. \/ /\ ckpt' = [ckpt EXCEPT !.at = "saved"] /\ writesSinceCkpt' = writesSinceCkpt
         /\ job' = job /\ mode' = mode
      \/ checkpointDone
  BY DEF SaveLastSeq, TruncateWal
<1>4. ckpt.at # "idle" /\ ckpt \in Ckpt /\ mode \in {"down", "loading", "up"}
  BY DEF SaveLastSeq, TruncateWal, BaseInv, TypeOK
<1>5. /\ job' \in Job /\ ckpt' \in Ckpt /\ writesSinceCkpt' \in Nat
      /\ mode' \in {"loading", "up"}
      /\ job' = job \/ (job' # Idle /\ job # Idle /\ job'.req = job.req)
      /\ ckpt'.at # "idle" => ckpt'.by = ckpt.by /\ job' = job /\ mode' = mode
      /\ mode' # "up" => mode = mode' /\ job' = job
  <2>1. CASE checkpointDone
    <3>1. ckpt' = NoCkpt /\ writesSinceCkpt' = 0
      BY <2>1 DEF checkpointDone
    <3>2. CASE ckpt.by = "write"
      <4>1. job.at = "auto" /\ job # Idle /\ job.req \in Request
            /\ job = [at |-> job.at, req |-> job.req] /\ mode = "up"
        BY <1>4, <3>2, JobType DEF BaseInv, Running
      <4>2. job' = [at |-> "logged", req |-> job.req] /\ mode' = mode
        BY <2>1, <3>2, <4>1 DEF checkpointDone
      <4> QED BY <3>1, <4>1, <4>2 DEF Job, Idle, Ckpt, NoCkpt
    <3>3. CASE ckpt.by # "write"
      <4>1. job' = job /\ mode' \in {"up", mode}
        BY <2>1, <3>3 DEF checkpointDone
      <4> QED BY <1>2, <1>4, <3>1, <4>1 DEF BaseInv, TypeOK, Ckpt, NoCkpt
    <3> QED BY <3>2, <3>3
  <2>2. CASE ckpt' = [ckpt EXCEPT !.at = "saved"] /\ writesSinceCkpt' = writesSinceCkpt
             /\ job' = job /\ mode' = mode
    BY <1>2, <1>4, <2>2 DEF BaseInv, TypeOK, Ckpt
  <2> QED BY <1>3, <2>1, <2>2
<1>6. TypeOK'
  BY <1>1, <1>2, <1>5 DEF BaseInv, TypeOK
<1>7. Numbered' /\ Running'
  BY <1>1, <1>2, <1>4, <1>5 DEF BaseInv, Numbered, Running
<1>8. LastLogged'
  BY <1>1, <1>2, <1>5 DEF BaseInv, LastLogged
<1> QED BY <1>6, <1>7, <1>8 DEF BaseInv

LEMMA ClosesLikeCut ==
    ASSUME Close
    PROVE  files' \in cut(files, pend, written(pend, Len(Order)),
                         written(pend, Len(Order) + 1))
BY DEF Close, cut

LEMMA DownBase ==
    ASSUME BaseInv, CrashInLoad \/ Crash \/ Close
    PROVE  BaseInv'
<1>1. /\ Down /\ wal' = wal /\ lastSeq' = lastSeq /\ logged' = logged
      /\ owed' = owed
  BY DEF CrashInLoad, Crash, Close, history
<1>2. files' \in Files /\ tables' \subseteq Table
  <2>1. files \in Files /\ pend \in Buffer /\ tables \subseteq Table
    BY Typed DEF BaseInv, TypeOK
  <2>2. CASE CrashInLoad
    BY <2>2, PartLoaded DEF BaseInv
  <2>3. CASE Crash
    <3>1. PICK p \in {pend} \cup {upsertLocked(pend, r) : r \in atHand}, n \in 0..Len(Order) :
             files' \in cut(files, p, written(p, n), written(p, n + 1))
      BY <2>3 DEF Crash
    <3>2. p \in Buffer
      BY <2>1, JobType, Upserted DEF BaseInv, atHand
    <3>3. tables' = tables
      BY <2>3 DEF Crash
    <3> QED BY <2>1, <3>1, <3>2, <3>3, PartFlushed
  <2>4. CASE Close
    <3>1. tables' = tables
      BY <2>4 DEF Close
    <3> QED BY <2>1, <2>4, <3>1, ClosesLikeCut, PartFlushed
  <2> QED BY <2>2, <2>3, <2>4
<1>3. TypeOK'
  BY <1>1, <1>2, WentDown DEF BaseInv, TypeOK, Files, Buffer
<1>4. Numbered' /\ Running'
  BY <1>1, WentDown DEF BaseInv, Numbered, Running
<1>5. LastLogged'
  BY <1>1, WentDown, SameLog DEF BaseInv, LastLogged
<1> QED BY <1>3, <1>4, <1>5 DEF BaseInv

LEMMA LoadBase ==
    ASSUME BaseInv, Load
    PROVE  BaseInv'
<1>1. /\ mode' = "loading" /\ mode = "down" /\ wal' = wal /\ lastSeq' = lastSeq
      /\ logged' = logged /\ owed' = owed /\ writesSinceCkpt' = writesSinceCkpt
      /\ cache' = cache /\ job' = job /\ ckpt' = ckpt /\ crashes' = crashes
  BY DEF Load, history
<1>2. /\ files' \in Files /\ pend' \in Buffer /\ seq' = restoredSeq(wal, lastSeq)
      /\ seq' \in Nat /\ tables' \subseteq Table
  BY Loading DEF BaseInv
<1>3. TypeOK'
  BY <1>1, <1>2 DEF BaseInv, TypeOK, Files, Buffer
<1>4. Numbered' /\ Running'
  <2>1. ckpt.at = "idle" /\ job = Idle
    <3>1. ckpt \in Ckpt
      BY DEF BaseInv, TypeOK
    <3> QED BY <1>1, <3>1 DEF BaseInv, Running
  <2> QED BY <1>1, <1>2, <2>1, SameLog DEF Numbered, Running
<1>5. LastLogged'
  BY <1>1, SameLog DEF BaseInv, LastLogged
<1> QED BY <1>3, <1>4, <1>5 DEF BaseInv

LEMMA StutterBase ==
    ASSUME BaseInv, UNCHANGED vars
    PROVE  BaseInv'
<1>1. /\ wal' = wal /\ lastSeq' = lastSeq /\ tables' = tables /\ files' = files
      /\ logged' = logged /\ owed' = owed /\ seq' = seq /\ pend' = pend
      /\ writesSinceCkpt' = writesSinceCkpt /\ cache' = cache /\ job' = job
      /\ ckpt' = ckpt /\ mode' = mode /\ crashes' = crashes
  BY DEF vars, disk, history, memory
<1>2. TypeOK'
  BY <1>1 DEF BaseInv, TypeOK
<1>3. Numbered' /\ Running' /\ LastLogged'
  BY <1>1, SameLog DEF BaseInv, Numbered, Running, LastLogged
<1> QED BY <1>2, <1>3 DEF BaseInv

LEMMA InitBase == Init => BaseInv
<1> SUFFICES ASSUME Init PROVE BaseInv
  OBVIOUS
<1>1. TypeOK
  <2>1. /\ files \in [Table -> [Key -> File]]
        /\ logged \in [Table -> [Key -> AnyValue]]
        /\ owed \in [Table -> [Key -> SUBSET File]]
        /\ cache \in [Key -> AnyValue]
        /\ pend \in [MergeKey -> AnyValue \cup {NotPending}]
    BY DEF Init, AnyValue, File
  <2>2. /\ wal \in Seq(WalEntry) /\ lastSeq \in Nat /\ seq \in Nat
        /\ writesSinceCkpt \in Nat /\ crashes \in Nat
        /\ mode \in {"down", "loading", "up"} /\ job \in Job /\ ckpt \in Ckpt
    BY DEF Init, Job, Ckpt, NoCkpt
  <2>3. tables \subseteq Table
    BY OptionsTyped DEF Init
  <2> QED BY <2>1, <2>2, <2>3 DEF TypeOK
<1>2. Numbered /\ Running
  BY DEF Init, Numbered, Running, NoCkpt
<1>3. LastLogged
  <2>1. replayed(wal, lastSeq) = {}
    BY DEF Init, replayed
  <2>2. \A mk \in MergeKey : Unsaved[mk] = NotPending
    BY <2>1, NoneUnsaved
  <2>3. ASSUME NEW mk \in MergeKey PROVE At(logged, mk) \in At(owed, mk)
    BY Pairs DEF Init, At
  <2>4. job = Idle
    BY DEF Init
  <2> QED BY <2>2, <2>3, <2>4 DEF LastLogged
<1> QED BY <1>1, <1>2, <1>3 DEF BaseInv

LEMMA NextCases ==
    ASSUME [Next]_vars
    PROVE  \/ \E r \in requests : LogRequest(r) \/ CrashInLog(r)
           \/ ApplyRequest
           \/ Flush \/ \E by \in {"task", "write", "load"} : CheckpointFlush(by)
           \/ \E t \in Table : CreateTable(t)
           \/ \E t \in Table, k \in Key : Get(t, k)
           \/ \E k \in Key : Evict(k)
           \/ SaveLastSeq \/ TruncateWal \/ Load
           \/ CrashInLoad \/ Crash \/ Close
           \/ UNCHANGED vars
BY Zenon DEF Next

LEMMA NextBase == BaseInv /\ [Next]_vars => BaseInv'
<1> SUFFICES ASSUME BaseInv, [Next]_vars PROVE BaseInv'
  OBVIOUS
<1> QED BY NextCases, AppendBase, ApplyBase, FlushBase, CacheBase,
           CheckpointBase, DownBase, LoadBase, StutterBase, Zenon

LEMMA Base == Spec => []BaseInv
BY InitBase, NextBase, PTL DEF Spec

\* Every variable keeps its type: the WAL is a sequence of numbered entries,
\* a file never holds the batcher's "nothing pending", the operation at hand
\* has a request when a checkpoint sends it on.
THEOREM TypeCorrect == Spec => []TypeOK
<1>1. BaseInv => TypeOK
  BY DEF BaseInv
<1> QED BY <1>1, Base, PTL

-----------------------------------------------------------------------------
(* The same effects, for the operation at hand *)

\* The operation at hand is in the WAL, and not in the buffer, for mk.
Unfinished(mk) == job.at = "logged" /\ Covers(job.req, mk)

Held(mk) == IF pend[mk] = NotPending THEN At(files, mk) ELSE pend[mk]

\* What a crash leaves in a file: the value from before, from the buffer, from
\* the operation at hand, or from the WAL; or the file is torn, where one of
\* these was to be written.
LEMMA Crashed ==
    ASSUME BaseInv, CrashInLoad \/ Crash \/ Close, NEW mk \in MergeKey
    PROVE  /\ Down /\ wal' = wal /\ lastSeq' = lastSeq /\ logged' = logged
           /\ owed' = owed /\ Unsaved' = Unsaved
           /\ \/ At(files', mk) = At(files, mk)
              \/ Unsaved[mk] # NotPending /\ CrashInLoad
              \/ pend[mk] # NotPending /\ At(files', mk) \in {pend[mk], Torn}
              \/ Unfinished(mk) /\ At(files', mk) \in {At(logged, mk), Torn}
<1>1. /\ Down /\ wal' = wal /\ lastSeq' = lastSeq /\ logged' = logged
      /\ owed' = owed
  BY DEF CrashInLoad, Crash, Close, history
<1>2. files \in Files /\ pend \in Buffer
  BY Typed DEF BaseInv
<1>3. CASE CrashInLoad
  BY <1>1, <1>3, PartLoaded, SameLog DEF BaseInv
<1>4. CASE Crash
  <2>1. PICK p \in {pend} \cup {upsertLocked(pend, r) : r \in atHand}, n \in 0..Len(Order) :
           files' \in cut(files, p, written(p, n), written(p, n + 1))
    BY <1>4 DEF Crash
  <2>2. CASE p = pend
    BY <1>1, <1>2, <2>1, <2>2, PartFlushed, SameLog
  <2>3. CASE p # pend
    <3>1. p = upsertLocked(pend, job.req) /\ job.at = "logged"
      BY <2>1, <2>3 DEF atHand
    <3>2. job.req \in Request /\ job # Idle
      BY <3>1, JobType DEF BaseInv
    <3>3. p \in Buffer /\ p[mk] = IF Covers(job.req, mk)
                                  THEN job.req.items[mk[2]] ELSE pend[mk]
      BY <1>2, <3>1, <3>2, Upserted
    <3>4. Covers(job.req, mk) => job.req.items[mk[2]] = At(logged, mk)
      BY <3>2 DEF BaseInv, LastLogged
    <3>5. \/ At(files', mk) = At(files, mk)
          \/ p[mk] # NotPending /\ At(files', mk) \in {p[mk], Torn}
      BY <1>2, <2>1, <3>3, PartFlushed
    <3> QED BY <1>1, <3>1, <3>3, <3>4, <3>5, SameLog DEF Unfinished
  <2> QED BY <2>2, <2>3
<1>5. CASE Close
  BY <1>1, <1>2, <1>5, ClosesLikeCut, PartFlushed, SameLog
<1> QED BY <1>3, <1>4, <1>5

\* What the end of an operation does to a key.
LEMMA Applied ==
    ASSUME BaseInv, ApplyRequest, NEW mk \in MergeKey
    PROVE  LET v == IF Unfinished(mk) THEN At(logged, mk) ELSE pend[mk]
           IN  /\ wal' = wal /\ lastSeq' = lastSeq /\ logged' = logged
               /\ tables' = tables /\ ckpt' = ckpt /\ mode' = mode
               /\ job' = Idle /\ job'.at = "idle" /\ Unsaved' = Unsaved
               /\ At(logged, mk) # NotPending
               /\ Unfinished(mk) => Torn \in At(owed, mk)
               /\ \/ /\ v # NotPending
                     /\ Reads(At(files', mk), v) /\ pend'[mk] = NotPending
                  \/ At(files', mk) = At(files, mk) /\ pend'[mk] = v
               /\ ~ Defer /\ At(owed', mk) # At(owed, mk) => pend'[mk] = NotPending
               /\ \/ At(owed', mk) = At(owed, mk)
                  \/ Unfinished(mk) /\ At(owed', mk) = {At(logged, mk)}
<1> DEFINE r == job.req
           p == upsertLocked(pend, r)
           v == IF Unfinished(mk) THEN At(logged, mk) ELSE pend[mk]
<1>1. /\ TypeOK /\ job.at = "logged" /\ job # Idle /\ r \in Request /\ job' = Idle
      /\ wal' = wal /\ lastSeq' = lastSeq /\ logged' = logged /\ tables' = tables
      /\ ckpt' = ckpt /\ mode' = mode /\ job'.at = "idle"
  BY JobType DEF BaseInv, ApplyRequest, Idle
<1>2. files \in Files /\ pend \in Buffer /\ owed \in Owed /\ logged \in Contents
  BY <1>1, Typed
<1>3. At(logged, mk) # NotPending
  BY <1>2, Pairs, NoValues DEF Contents, At
<1>4. Unfinished(mk) => Torn \in At(owed, mk)
  BY <1>1 DEF BaseInv, LastLogged, Unfinished
<1>5. p \in Buffer /\ p[mk] = v
  <2>1. Covers(r, mk) => r.items[mk[2]] = At(logged, mk)
    BY <1>1 DEF BaseInv, LastLogged
  <2>2. Unfinished(mk) <=> Covers(r, mk)
    BY <1>1 DEF Unfinished
  <2> QED BY <1>1, <1>2, <2>1, <2>2, Upserted
<1>6. \/ /\ Defer /\ pend' = p /\ files' = files /\ acknowledge(r)
      \/ flushAllLocked(p) /\ failing(p) = {} /\ acknowledge(r)
      \/ flushAllLocked(p) /\ owed' = owed
  BY DEF ApplyRequest
<1>7. acknowledge(r) => \/ At(owed', mk) = At(owed, mk)
                        \/ Unfinished(mk) /\ At(owed', mk) = {At(logged, mk)}
  <2>1. Covers(r, mk) => r.items[mk[2]] = At(logged, mk)
    BY <1>1 DEF BaseInv, LastLogged
  <2>2. Unfinished(mk) <=> Covers(r, mk)
    BY <1>1 DEF Unfinished
  <2> QED BY <1>1, <1>2, <2>1, <2>2, Acknowledged
<1>8. Unsaved' = Unsaved
  BY <1>1, SameLog
<1> HIDE DEF p, r, v
<1>9. flushAllLocked(p) =>
         /\ \/ /\ v # NotPending
               /\ Reads(At(files', mk), v) /\ pend'[mk] = NotPending
            \/ At(files', mk) = At(files, mk) /\ pend'[mk] = v
         /\ failing(p) = {} => pend'[mk] = NotPending
  BY <1>2, <1>5, Flushing
<1>10. /\ \/ /\ v # NotPending
             /\ Reads(At(files', mk), v) /\ pend'[mk] = NotPending
          \/ At(files', mk) = At(files, mk) /\ pend'[mk] = v
       /\ ~ Defer /\ At(owed', mk) # At(owed, mk) => pend'[mk] = NotPending
       /\ \/ At(owed', mk) = At(owed, mk)
          \/ Unfinished(mk) /\ At(owed', mk) = {At(logged, mk)}
  BY <1>5, <1>6, <1>7, <1>9
<1> QED BY <1>1, <1>3, <1>4, <1>8, <1>10 DEF v

\* What a flush, by itself or before a checkpoint, does to a key.
LEMMA Flushed ==
    ASSUME BaseInv, NEW mk \in MergeKey,
           Flush \/ \E by \in {"task", "write", "load"} : CheckpointFlush(by)
    PROVE  /\ wal' = wal /\ lastSeq' = lastSeq /\ logged' = logged /\ owed' = owed
           /\ tables' = tables /\ cache' = cache /\ mode' = mode /\ Unsaved' = Unsaved
           /\ At(logged, mk) # NotPending
           /\ \/ /\ pend[mk] # NotPending
                 /\ Reads(At(files', mk), pend[mk]) /\ pend'[mk] = NotPending
              \/ At(files', mk) = At(files, mk) /\ pend'[mk] = pend[mk]
           /\ ckpt'.at # "idle" => ckpt' = ckpt \/ pend'[mk] = NotPending
           /\ job' = job \/ (job.at = "auto" /\ job'.at = "idle" /\ job' = Idle)
           /\ ckpt' = ckpt \/ mayCheckpoint(ckpt'.by)
           /\ ckpt' # ckpt => job' = job
<1>1. /\ flushAllLocked(pend) /\ wal' = wal /\ lastSeq' = lastSeq
      /\ logged' = logged /\ owed' = owed /\ tables' = tables /\ cache' = cache
      /\ mode' = mode
  BY DEF Flush, CheckpointFlush, history
<1>2. files \in Files /\ pend \in Buffer /\ logged \in Contents
  BY Typed DEF BaseInv
<1>3. /\ \/ /\ pend[mk] # NotPending
            /\ Reads(At(files', mk), pend[mk]) /\ pend'[mk] = NotPending
         \/ At(files', mk) = At(files, mk) /\ pend'[mk] = pend[mk]
      /\ failing(pend) = {} => pend'[mk] = NotPending
  BY <1>1, <1>2, Flushing
<1>4. At(logged, mk) # NotPending
  BY <1>2, Pairs, NoValues DEF Contents, At
<1>5. Unsaved' = Unsaved
  BY <1>1, SameLog
<1>6. CASE Flush
  BY <1>1, <1>3, <1>4, <1>5, <1>6 DEF Flush
<1>7. ASSUME NEW by \in {"task", "write", "load"}, CheckpointFlush(by)
      PROVE  /\ ckpt'.at # "idle" => ckpt' = ckpt \/ pend'[mk] = NotPending
             /\ job' = job \/ (job.at = "auto" /\ job'.at = "idle" /\ job' = Idle)
             /\ ckpt' = ckpt \/ mayCheckpoint(ckpt'.by)
             /\ ckpt' # ckpt => job' = job
  BY <1>3, <1>7 DEF CheckpointFlush, mayCheckpoint, Idle
<1> QED BY <1>1, <1>3, <1>4, <1>5, <1>6, <1>7

\* Creating a table and using the cache leave every key alone.
LEMMA Untouched ==
    ASSUME \/ \E t \in Table : CreateTable(t)
           \/ \E t \in Table, k \in Key : Get(t, k)
           \/ \E k \in Key : Evict(k)
           \/ UNCHANGED vars
    PROVE  /\ wal' = wal /\ lastSeq' = lastSeq /\ files' = files /\ logged' = logged
           /\ owed' = owed /\ pend' = pend /\ job' = job /\ ckpt' = ckpt
           /\ mode' = mode /\ Unsaved' = Unsaved
<1>1. /\ wal' = wal /\ lastSeq' = lastSeq /\ files' = files /\ logged' = logged
      /\ owed' = owed /\ pend' = pend /\ job' = job /\ ckpt' = ckpt /\ mode' = mode
  BY DEF CreateTable, Get, Evict, vars, disk, history, memory
<1> QED BY <1>1, SameLog

-----------------------------------------------------------------------------
(* Checkpoints made by Load alone: what a restart brings back *)

LoadCheckpointsOnly == ~ Periodic /\ EveryNWrites = 0

CheckpointInLoad == job.at # "auto" /\ (ckpt.at # "idle" => mode = "loading")

\* The files are behind the log only where a restart would replay; so is the
\* buffer, with the files under it, where the operation at hand is still to
\* come; a restart would replay what is buffered or at hand, so that a file
\* torn in its write is written again; and a checkpoint past its flush has
\* everything in the files.
Behind(mk) ==
    /\ Unsaved[mk] = NotPending => Reads(At(files, mk), At(logged, mk))
    /\ pend[mk] # NotPending => pend[mk] = At(logged, mk) \/ Unfinished(mk)
    /\ mode # "down" => Reads(Held(mk), At(logged, mk)) \/ Unfinished(mk)
    /\ pend[mk] # NotPending \/ Unfinished(mk) => Unsaved[mk] # NotPending
    /\ ckpt.at # "idle" => Reads(At(files, mk), At(logged, mk)) /\ pend[mk] = NotPending

CoverInv == CheckpointInLoad /\ \A mk \in MergeKey : Behind(mk)

LEMMA InitCover == Init => CoverInv
<1> SUFFICES ASSUME Init PROVE CoverInv
  OBVIOUS
<1>1. job.at = "idle" /\ ckpt.at = "idle" /\ mode = "down"
  BY DEF Init, Idle, NoCkpt
<1>2. ASSUME NEW mk \in MergeKey
      PROVE  At(files, mk) = At(logged, mk) /\ pend[mk] = NotPending
  BY DEF Init, At
<1> QED BY <1>1, <1>2 DEF CoverInv, CheckpointInLoad, Behind, Unfinished, Reads

LEMMA NextCover ==
    ASSUME LoadCheckpointsOnly
    PROVE  BaseInv /\ CoverInv /\ [Next]_vars => CoverInv'
<1> SUFFICES ASSUME BaseInv, CoverInv, [Next]_vars PROVE CoverInv'
  OBVIOUS
<1>1. /\ mode \in {"down", "loading", "up"} /\ mode # "up" => job = Idle
      /\ job = Idle => job.at = "idle"
  BY JobType DEF BaseInv, TypeOK, Running
<1>2. ASSUME NEW r \in requests, LogRequest(r) \/ CrashInLog(r) PROVE CoverInv'
  <2>1. /\ mode = "up" /\ job = Idle /\ ckpt.at = "idle" /\ files' = files
    BY <1>2, Appends
  <2>2. PICK o \in listings(r), n \in 0..Cardinality(DOMAIN r.items) :
           Appended(r, o, n)
    BY <1>2, Appends
  <2>3. ASSUME NEW mk \in MergeKey
        PROVE  /\ \/ Unsaved'[mk] = At(logged', mk) /\ Adds(r, o, n, mk)
                  \/ /\ Unsaved'[mk] = Unsaved[mk]
                     /\ At(logged', mk) = At(logged, mk) /\ ~ Adds(r, o, n, mk)
               /\ ~ Unfinished(mk)
    BY <1>1, <2>1, <2>2 DEF Appended, Unfinished
  <2>4. \A mk \in MergeKey : At(logged', mk) # NotPending
    BY <2>2, Pairs, NoValues DEF Appended, Contents, At
  <2>5. CASE LogRequest(r)
    <3>1. /\ job'.at = "logged" /\ job'.req = r /\ ckpt' = ckpt /\ pend' = pend
      BY <2>5, OptionsTyped DEF LogRequest, maybeAutoCheckpoint, LoadCheckpointsOnly
    <3>2. \A mk \in MergeKey : Unfinished(mk)' <=> Adds(r, o, n, mk)
      BY <2>2, <2>5, <3>1 DEF Unfinished, Appended
    <3>3. ASSUME NEW mk \in MergeKey PROVE Behind(mk)'
      BY <2>1, <2>3, <2>4, <3>1, <3>2 DEF CoverInv, Behind, Held, Reads
    <3> QED BY <2>1, <3>1, <3>3 DEF CoverInv, CheckpointInLoad
  <2>6. CASE Down
    <3>1. /\ mode' = "down" /\ job'.at = "idle" /\ ckpt'.at = "idle"
          /\ \A mk \in MergeKey : pend'[mk] = NotPending
      BY <2>6, WentDown DEF BaseInv
    <3>2. ASSUME NEW mk \in MergeKey PROVE Behind(mk)'
      BY <2>1, <2>3, <2>4, <3>1 DEF CoverInv, Behind, Unfinished, Reads
    <3> QED BY <3>1, <3>2 DEF CoverInv, CheckpointInLoad
  <2> QED BY <2>2, <2>5, <2>6 DEF Appended
<1>3. CASE ApplyRequest
  <2>1. ckpt.at = "idle" /\ ckpt' = ckpt
    <3>1. job.at = "logged" /\ ckpt' = ckpt
      BY <1>3 DEF ApplyRequest
    <3> QED BY <1>1, <3>1 DEF CoverInv, CheckpointInLoad
  <2>2. ASSUME NEW mk \in MergeKey PROVE Behind(mk)'
    BY <1>3, <2>1, Applied DEF CoverInv, Behind, Unfinished, Held, Reads
  <2>3. job' = Idle /\ ckpt' = ckpt /\ mode' = mode /\ job'.at = "idle"
    BY <1>3 DEF ApplyRequest, Idle
  <2> QED BY <2>2, <2>3 DEF CoverInv, CheckpointInLoad
<1>4. CASE Flush \/ \E by \in {"task", "write", "load"} : CheckpointFlush(by)
  <2>1. /\ mode' = mode /\ job' = job
        /\ ckpt' = ckpt \/ mode = "loading"
    <3>1. CASE Flush
      BY <3>1 DEF Flush
    <3>2. ASSUME NEW by \in {"task", "write", "load"}, CheckpointFlush(by)
          PROVE  <2>1!:
      BY <3>2 DEF CheckpointFlush, mayCheckpoint, LoadCheckpointsOnly, CoverInv,
                  CheckpointInLoad
    <3> QED BY <1>4, <3>1, <3>2
  <2>2. ASSUME NEW mk \in MergeKey PROVE Behind(mk)'
    BY <1>1, <1>4, <2>1, Flushed
    DEF CoverInv, Behind, Unfinished, Held, Reads, CheckpointInLoad
  <2> QED BY <2>1, <2>2 DEF CoverInv, CheckpointInLoad
<1>5. CASE \/ \E t \in Table : CreateTable(t)
           \/ \E t \in Table, k \in Key : Get(t, k)
           \/ \E k \in Key : Evict(k)
           \/ UNCHANGED vars
  BY <1>5, Untouched DEF CoverInv, CheckpointInLoad, Behind, Unfinished, Held, Reads
<1>6. CASE SaveLastSeq \/ TruncateWal
  <2>1. /\ files' = files /\ logged' = logged /\ pend' = pend /\ ckpt.at # "idle"
        /\ mode = "loading" /\ job = Idle
    BY <1>1, <1>6 DEF SaveLastSeq, TruncateWal, history, CoverInv, CheckpointInLoad
  <2>2. job' = job /\ (ckpt'.at # "idle" => mode' = mode)
    BY <1>1, <1>6, <2>1 DEF SaveLastSeq, TruncateWal, checkpointDone, BaseInv, Running, NoCkpt
  <2>3. ASSUME NEW mk \in MergeKey PROVE Behind(mk)'
    <3>1. Unsaved'[mk] = NotPending
      BY <1>6, Checkpointed
    <3> QED BY <1>1, <2>1, <2>2, <3>1 DEF CoverInv, Behind, Unfinished, Held, Reads
  <2> QED BY <2>1, <2>2, <2>3 DEF CoverInv, CheckpointInLoad
<1>7. CASE Load
  <2>1. /\ mode = "down" /\ mode' = "loading" /\ wal' = wal /\ lastSeq' = lastSeq
        /\ logged' = logged /\ job' = job /\ ckpt' = ckpt /\ ckpt.at = "idle"
    BY <1>7 DEF Load, history, CoverInv, CheckpointInLoad
  <2>2. ASSUME NEW mk \in MergeKey PROVE Behind(mk)'
    BY <1>1, <1>7, <2>1, Loading, SameLog
    DEF BaseInv, LastLogged, CoverInv, Behind, Unfinished, Held, Reads
  <2> QED BY <1>1, <2>1, <2>2 DEF CoverInv, CheckpointInLoad
<1>8. CASE CrashInLoad \/ Crash \/ Close
  <2>1. Down
    BY <1>8 DEF CrashInLoad, Crash, Close
  <2>2. /\ mode' = "down" /\ job'.at = "idle" /\ ckpt'.at = "idle"
        /\ \A mk \in MergeKey : pend'[mk] = NotPending
    BY <2>1, WentDown DEF BaseInv
  <2>3. ASSUME NEW mk \in MergeKey PROVE Behind(mk)'
    BY <1>8, <2>2, Crashed DEF CoverInv, Behind, Unfinished, Reads
  <2> QED BY <2>2, <2>3 DEF CoverInv, CheckpointInLoad
<1> QED BY <1>2, <1>3, <1>4, <1>5, <1>6, <1>7, <1>8, NextCases, Zenon

LEMMA Cover ==
    ASSUME LoadCheckpointsOnly
    PROVE  Spec => []CoverInv
BY InitCover, NextCover, Base, PTL DEF Spec

LEMMA RecoversLogged ==
    ASSUME BaseInv, CoverInv
    PROVE  CheckpointCovers
<1> SUFFICES ASSUME NEW t \in Table, NEW k \in Key
             PROVE  recovered(t, k) = logged[t][k]
  BY DEF CheckpointCovers
<1> DEFINE mk == <<t, k>>
<1>1. mk \in MergeKey /\ At(files, mk) = files[t][k] /\ At(logged, mk) = logged[t][k]
  BY DEF MergeKey, At
<1>2. restored(t, k) = IF Unsaved[mk] = NotPending THEN files[t][k] ELSE Unsaved[mk]
  BY DEF restored, Unsaved
<1>3. logged[t][k] # Torn
  BY NoValues DEF BaseInv, TypeOK
<1> HIDE DEF mk
<1>4. Reads(restored(t, k), logged[t][k])
  BY <1>1, <1>2 DEF BaseInv, LastLogged, CoverInv, Behind, Reads
<1> QED BY <1>3, <1>4 DEF Reads, recovered, valueOf

\* As long as Load alone makes checkpoints (CHECKPOINT_INTERVAL = 0), a crash
\* at any moment and Load bring back the value of the last entry appended for
\* each key: with DeferWrites and without, with WAL truncation and without,
\* through flushes that fail and tables that are missing.
THEOREM CoversEverything ==
    ASSUME LoadCheckpointsOnly
    PROVE  Spec => []CheckpointCovers
<1>1. BaseInv /\ CoverInv => CheckpointCovers
  BY RecoversLogged
<1> QED BY <1>1, Base, Cover, PTL

-----------------------------------------------------------------------------
(* Without DeferWrites: what was acknowledged *)

\* The file f is as a client may expect it, o being what it is owed.
Meets(f, o) == f \in o \/ (f = Torn /\ None \in o)

\* A client may expect what the files hold where a restart would not replay,
\* everywhere once a checkpoint is past its flush, and what the buffer holds.
\* What the buffer holds was not acknowledged, and may tear the file.
Expected(mk) ==
    /\ Unsaved[mk] = NotPending => Meets(At(files, mk), At(owed, mk))
    /\ pend[mk] # NotPending => pend[mk] \in At(owed, mk) /\ Torn \in At(owed, mk)
    /\ mode # "down" => Meets(Held(mk), At(owed, mk))
    /\ ckpt.at # "idle" => Meets(At(files, mk), At(owed, mk))

AckInv == \A mk \in MergeKey : Expected(mk)

LEMMA InitAck == Init => AckInv
<1> SUFFICES ASSUME Init, NEW mk \in MergeKey PROVE Expected(mk)
  BY DEF AckInv
<1>1. ckpt.at = "idle" /\ mode = "down"
  BY DEF Init, NoCkpt
<1>2. At(files, mk) \in At(owed, mk) /\ pend[mk] = NotPending
  BY Pairs DEF Init, At
<1> QED BY <1>1, <1>2 DEF Expected, Meets

LEMMA NextAck ==
    ASSUME ~ Defer
    PROVE  BaseInv /\ AckInv /\ [Next]_vars => AckInv'
<1> SUFFICES ASSUME BaseInv, AckInv, [Next]_vars, NEW mk \in MergeKey
             PROVE  Expected(mk)'
  BY DEF AckInv
<1>1. /\ Expected(mk) /\ At(logged, mk) \in At(owed, mk)
      /\ Unsaved[mk] # NotPending => Unsaved[mk] = At(logged, mk)
  BY DEF AckInv, BaseInv, LastLogged
<1>2. ASSUME NEW r \in requests, LogRequest(r) \/ CrashInLog(r)
      PROVE  Expected(mk)'
  <2>1. mode = "up" /\ ckpt.at = "idle" /\ files' = files
    BY <1>2, Appends
  <2>2. PICK o \in listings(r), n \in 0..Cardinality(DOMAIN r.items) :
           Appended(r, o, n)
    BY <1>2, Appends
  <2>3. /\ Unsaved'[mk] = NotPending => Unsaved[mk] = NotPending
        /\ At(owed, mk) \subseteq At(owed', mk)
    <3>1. At(logged', mk) # NotPending
      BY <2>2, Pairs, NoValues DEF Appended, Contents, At
    <3> QED BY <2>2, <3>1 DEF Appended
  <2>4. CASE LogRequest(r)
    <3>1. pend' = pend /\ ckpt' = ckpt
      BY <2>4 DEF LogRequest
    <3> QED BY <1>1, <2>1, <2>3, <3>1 DEF Expected, Held, Meets, Reads
  <2>5. CASE Down
    <3>1. mode' = "down" /\ ckpt'.at = "idle" /\ pend'[mk] = NotPending
      BY <2>5, WentDown DEF BaseInv
    <3> QED BY <1>1, <2>1, <2>3, <3>1 DEF Expected, Meets
  <2> QED BY <2>2, <2>4, <2>5 DEF Appended
<1>3. CASE ApplyRequest
  <2>1. /\ ckpt' = ckpt /\ mode' = mode /\ Unsaved' = Unsaved
        /\ At(logged, mk) # NotPending
    BY <1>3, Applied
  <2>2. CASE At(owed', mk) = At(owed, mk)
    BY <1>1, <1>3, <2>1, <2>2, Applied DEF Expected, Held, Meets, Reads
  <2>3. CASE At(owed', mk) # At(owed, mk)
    <3>1. /\ Unfinished(mk) /\ At(owed', mk) = {At(logged, mk)}
          /\ pend'[mk] = NotPending
      BY <1>3, <2>3, Applied
    <3>2. Reads(At(files', mk), At(logged, mk))
      BY <1>3, <2>1, <3>1, Applied
    <3> QED BY <3>1, <3>2 DEF Expected, Held, Meets, Reads
  <2> QED BY <2>2, <2>3
<1>4. CASE Flush \/ \E by \in {"task", "write", "load"} : CheckpointFlush(by)
  <2>1. ckpt' = ckpt \/ mode # "down"
    <3>1. ckpt' = ckpt \/ mayCheckpoint(ckpt'.by)
      BY <1>4, Flushed
    <3> QED BY <3>1, JobType DEF mayCheckpoint, BaseInv, Running
  <2> QED BY <1>1, <1>4, <2>1, Flushed DEF Expected, Held, Meets, Reads
<1>5. CASE \/ \E t \in Table : CreateTable(t)
           \/ \E t \in Table, k \in Key : Get(t, k)
           \/ \E k \in Key : Evict(k)
           \/ UNCHANGED vars
  BY <1>1, <1>5, Untouched DEF Expected, Held, Meets, Reads
<1>6. CASE SaveLastSeq \/ TruncateWal
  <2>1. /\ files' = files /\ owed' = owed /\ pend' = pend
        /\ ckpt.at # "idle" /\ mode # "down"
    BY <1>6 DEF SaveLastSeq, TruncateWal, history, BaseInv, Running
  <2> QED BY <1>1, <2>1 DEF Expected, Held, Meets, Reads
<1>7. CASE Load
  <2>1. /\ mode = "down" /\ wal' = wal /\ lastSeq' = lastSeq /\ owed' = owed
        /\ ckpt' = ckpt
    BY <1>7 DEF Load, history
  <2>2. ckpt.at = "idle"
    BY <2>1 DEF BaseInv, Running, TypeOK, Ckpt
  <2> QED BY <1>1, <1>7, <2>1, <2>2, Loading, SameLog DEF BaseInv, Expected, Held, Meets, Reads
<1>8. CASE CrashInLoad \/ Crash \/ Close
  <2>1. Down
    BY <1>8 DEF CrashInLoad, Crash, Close
  <2>2. mode' = "down" /\ ckpt'.at = "idle" /\ pend'[mk] = NotPending
    BY <2>1, WentDown DEF BaseInv
  <2>3. Unfinished(mk) => Torn \in At(owed, mk)
    BY JobType DEF BaseInv, LastLogged, Unfinished
  <2> QED BY <1>1, <1>8, <2>2, <2>3, Crashed DEF Expected, Meets
<1> QED BY <1>2, <1>3, <1>4, <1>5, <1>6, <1>7, <1>8, NextCases, Zenon

LEMMA Acks ==
    ASSUME ~ Defer
    PROVE  Spec => []AckInv
BY InitAck, NextAck, Base, PTL DEF Spec

LEMMA RecoversExpected ==
    ASSUME BaseInv, AckInv \/ CoverInv
    PROVE  AcknowledgedSurvive
<1> SUFFICES ASSUME NEW t \in Table, NEW k \in Key
             PROVE  Meets(restored(t, k), owed[t][k])
  BY DEF AcknowledgedSurvive, Meets
<1> DEFINE mk == <<t, k>>
<1>1. mk \in MergeKey /\ At(files, mk) = files[t][k] /\ At(owed, mk) = owed[t][k]
  BY DEF MergeKey, At
<1>2. restored(t, k) = IF Unsaved[mk] = NotPending THEN files[t][k] ELSE Unsaved[mk]
  BY DEF restored, Unsaved
<1> HIDE DEF mk
<1> QED BY <1>1, <1>2
        DEF BaseInv, LastLogged, AckInv, Expected, CoverInv, Behind, Meets, Reads

\* What a client was told is done survives a crash at any moment, in the
\* node's default configuration (DeferWrites off, a checkpoint on a ticker),
\* whatever the periodic task and EveryNWrites do between the append and the
\* write to the store, unless the process dies in os.WriteFile of the key's
\* own file, in a later write of that key (base.go:286); and with DeferWrites
\* when Load alone makes checkpoints.
THEOREM Survival ==
    ASSUME ~ Defer \/ LoadCheckpointsOnly
    PROVE  Spec => []AcknowledgedSurvive
<1>1. BaseInv /\ (AckInv \/ CoverInv) => AcknowledgedSurvive
  BY RecoversExpected
<1>2. CASE ~ Defer
  BY <1>1, <1>2, Base, Acks, PTL
<1>3. CASE LoadCheckpointsOnly
  BY <1>1, <1>3, Base, Cover, PTL
<1> QED BY <1>2, <1>3

-----------------------------------------------------------------------------
(* The refinement of Store *)

\* The state of the map under the refinement.
Durable == [t \in Table |-> [k \in Key |-> recovered(t, k)]]
Number  == restoredSeq(wal, lastSeq)

LEMMA DurableIsLogged ==
    ASSUME TypeOK, CheckpointCovers
    PROVE  Durable = logged
<1>1. \A t \in Table : [k \in Key |-> recovered(t, k)] = logged[t]
  BY DEF CheckpointCovers, TypeOK
<1> QED BY <1>1 DEF Durable, TypeOK

\* An append is a write of the keys it appends, or nothing at all.
LEMMA AppendWrites ==
    ASSUME BaseInv, Durable = logged, Durable' = logged',
           NEW r \in requests, LogRequest(r) \/ CrashInLog(r)
    PROVE  DurableMap!Next \/ (Durable' = Durable /\ Number' = Number)
<1>1. r \in Request /\ Number = seq /\ lastSeq' = lastSeq
  BY Appends DEF Number
<1>2. PICK o \in listings(r), n \in 0..Cardinality(DOMAIN r.items) :
         Appended(r, o, n)
  BY Appends
<1> DEFINE ks == {o[i] : i \in 1..n}
           items == [k \in ks |-> r.items[k]]
<1>3. /\ r.table \in Table /\ DOMAIN r.items \subseteq Key /\ n \in Nat
      /\ \A k \in DOMAIN r.items : r.items[k] \in AnyValue
      /\ \A i \in 1..n : o[i] \in DOMAIN r.items
      /\ \A i, j \in 1..n : o[i] = o[j] => i = j
  BY <1>1, RequestType DEF listings
<1>4. ks \subseteq Key /\ items \in [ks -> AnyValue]
  BY <1>3
<1>5. Cardinality(ks) = n
  <2>1. \A x : x \in ks <=> \E i \in 1..n : o[i] = x
    OBVIOUS
  <2> HIDE DEF ks
  <2> QED BY <1>3, <2>1, ListedCount
<1>6. Number' = Number + n
  BY <1>1, <1>2 DEF Appended, Number
<1>7. logged' = [logged EXCEPT ![r.table] = [k \in Key |->
                    IF k \in ks THEN items[k] ELSE logged[r.table][k]]]
  <2>1. logged' = [logged EXCEPT ![r.table] = [k \in Key |->
                      IF \E i \in 1..n : o[i] = k THEN r.items[k]
                                                 ELSE logged[r.table][k]]]
    BY <1>2 DEF Appended, appendLocked
  <2>2. \A k : k \in ks <=> \E i \in 1..n : o[i] = k
    OBVIOUS
  <2>3. \A k \in ks : items[k] = r.items[k]
    OBVIOUS
  <2> HIDE DEF ks, items
  <2>4. [k \in Key |-> IF \E i \in 1..n : o[i] = k THEN r.items[k]
                                                 ELSE logged[r.table][k]]
        = [k \in Key |-> IF k \in ks THEN items[k] ELSE logged[r.table][k]]
    BY <2>2, <2>3
  <2> QED BY <2>1, <2>4, Zenon
<1> HIDE DEF ks, items
<1>8. CASE ks = {}
  <2>1. n = 0
    BY <1>5, <1>8, FS_EmptySet
  <2>2. logged' = logged
    <3>1. logged \in Contents
      BY Typed DEF BaseInv
    <3> QED BY <1>3, <1>7, <1>8, <3>1 DEF Contents
  <2>3. Number \in Nat
    BY <1>1, Typed DEF BaseInv
  <2> QED BY <1>6, <2>1, <2>2, <2>3
<1>9. CASE ks # {}
  <2>1. DurableMap!Write(r.table, ks)
    <3>1. Durable' = [Durable EXCEPT ![r.table] =
             [k \in Key |-> IF k \in ks THEN items[k] ELSE Durable[r.table][k]]]
      BY <1>7
    <3>2. Number' = Number + Cardinality(ks)
      BY <1>5, <1>6
    <3>3. items \in [ks -> Value \cup {None}]
      BY <1>4 DEF AnyValue
    <3>4. DurableMap!Cardinality(ks) = Cardinality(ks)
      BY DEF DurableMap!Cardinality, Cardinality
    <3> QED BY <1>9, <3>1, <3>2, <3>3, <3>4, Zenon DEF DurableMap!Write, Durable, Number
  <2> QED BY <1>3, <1>4, <2>1 DEF DurableMap!Next
<1> QED BY <1>8, <1>9

LEMMA StoreStep ==
    BaseInv /\ CheckpointCovers /\ CheckpointCovers' /\ BaseInv' /\ [Next]_vars
        => [DurableMap!Next]_<<Durable, Number>>
<1> SUFFICES ASSUME BaseInv, CheckpointCovers, CheckpointCovers', BaseInv', [Next]_vars
             PROVE  DurableMap!Next \/ (Durable' = Durable /\ Number' = Number)
  OBVIOUS
<1>1. Durable = logged
  BY DurableIsLogged DEF BaseInv
<1>2. Durable' = logged'
  <2>1. TypeOK'
    BY DEF BaseInv
  <2>2. \A t \in Table, k \in Key : recovered(t, k)' = logged'[t][k]
    BY DEF CheckpointCovers
  <2>3. logged' \in Contents
    BY <2>1 DEF TypeOK, Contents
  <2>4. \A t \in Table : [k \in Key |-> recovered(t, k)'] = logged'[t]
    BY <2>2, <2>3 DEF Contents
  <2> QED BY <2>3, <2>4 DEF Durable, Contents
<1>3. ASSUME NEW r \in requests, LogRequest(r) \/ CrashInLog(r)
      PROVE  DurableMap!Next \/ (Durable' = Durable /\ Number' = Number)
  BY <1>1, <1>2, <1>3, AppendWrites
<1>4. CASE ApplyRequest
  <2>1. wal' = wal /\ lastSeq' = lastSeq /\ logged' = logged
    BY <1>4 DEF ApplyRequest
  <2> QED BY <1>1, <1>2, <2>1 DEF Number
<1>5. CASE Flush \/ \E by \in {"task", "write", "load"} : CheckpointFlush(by)
  <2>1. wal' = wal /\ lastSeq' = lastSeq /\ logged' = logged
    BY <1>5 DEF Flush, CheckpointFlush, history
  <2> QED BY <1>1, <1>2, <2>1 DEF Number
<1>6. CASE \/ \E t \in Table : CreateTable(t)
           \/ \E t \in Table, k \in Key : Get(t, k)
           \/ \E k \in Key : Evict(k)
           \/ UNCHANGED vars
  <2>1. wal' = wal /\ lastSeq' = lastSeq /\ logged' = logged
    BY <1>6, Untouched
  <2> QED BY <1>1, <1>2, <2>1 DEF Number
<1>7. CASE SaveLastSeq \/ TruncateWal
  <2>1. logged' = logged
    BY <1>7 DEF SaveLastSeq, TruncateWal, history
  <2>2. Number' = Number
    BY <1>7, Checkpointed DEF Number
  <2> QED BY <1>1, <1>2, <2>1, <2>2
<1>8. CASE Load \/ CrashInLoad \/ Crash \/ Close
  <2>1. wal' = wal /\ lastSeq' = lastSeq /\ logged' = logged
    BY <1>8 DEF Load, CrashInLoad, Crash, Close, history
  <2> QED BY <1>1, <1>2, <2>1 DEF Number
<1> QED BY <1>3, <1>4, <1>5, <1>6, <1>7, <1>8, NextCases, Zenon

LEMMA StoreInit == Init => DurableMap!Init
<1> SUFFICES ASSUME Init PROVE DurableMap!Init
  OBVIOUS
<1>1. wal = <<>> /\ lastSeq = 0 /\ replayed(wal, lastSeq) = {}
  BY DEF Init, replayed
<1>2. Number = 0
  <2>1. wal \in Seq(WalEntry) /\ DOMAIN wal = {}
    BY <1>1
  <2>2. lastSeq \in Nat /\ lastSeq <= lastSeq /\ \A i \in DOMAIN wal : wal[i].seq <= lastSeq
    BY <1>1, <2>1
  <2> QED BY <1>1, <2>1, <2>2, RestoredIs DEF Number
<1>3. ASSUME NEW t \in Table, NEW k \in Key PROVE recovered(t, k) = None
  <2>1. <<t, k>> \in MergeKey
    BY DEF MergeKey
  <2>2. Unsaved[<<t, k>>] = NotPending
    BY <1>1, <2>1, NoneUnsaved
  <2>3. files[t][k] = None
    BY DEF Init
  <2> QED BY <2>2, <2>3 DEF recovered, restored, valueOf, Unsaved
<1>4. Durable = [t \in Table |-> [k \in Key |-> None]]
  BY <1>3 DEF Durable
<1> QED BY <1>2, <1>4 DEF DurableMap!Init, Durable, Number

\* WAL, checkpoint file, buffer and key files together implement the durable
\* map of module Store as long as Load alone makes checkpoints: a request's
\* entries take effect when they are appended, all at once or, in a crash, a
\* first part of them, and no flush, checkpoint, truncation, crash or recovery
\* changes what a restart would bring back or the number it would restore.
THEOREM Refinement ==
    ASSUME LoadCheckpointsOnly
    PROVE  Spec => ImplementsStore
<1>1. BaseInv /\ CheckpointCovers /\ CheckpointCovers' /\ BaseInv' /\ [Next]_vars
        => [DurableMap!Next]_<<Durable, Number>>
  BY StoreStep
<1> QED BY <1>1, StoreInit, Base, CoversEverything, PTL
        DEF ImplementsStore, DurableMap!Spec, DurableMap!vars, Spec, Durable, Number

-----------------------------------------------------------------------------
(* Optimistic locking *)

\* With every table in place no flush fails; without DeferWrites the buffer is
\* then empty between the batcher's calls.
NoneFails ==
    /\ tables = Table
    /\ ~ Defer => \A mk \in MergeKey : pend[mk] = NotPending

LEMMA FailsNot ==
    ASSUME tables = Table, NEW p
    PROVE  failing(p) = {}
<1>1. \A i \in DOMAIN Order : Order[i] \in MergeKey
  BY OrderSorts
<1> QED BY <1>1, Pairs DEF failing

LEMMA NextNoneFails == BaseInv /\ NoneFails /\ [Next]_vars => NoneFails'
<1> SUFFICES ASSUME BaseInv, NoneFails, [Next]_vars PROVE NoneFails'
  OBVIOUS
<1>1. files \in Files /\ pend \in Buffer /\ tables = Table
  BY Typed DEF BaseInv, NoneFails
<1>2. ASSUME NEW r \in requests, LogRequest(r) \/ CrashInLog(r) PROVE NoneFails'
  <2>1. tables' = tables /\ (pend' = pend \/ Down)
    BY <1>2 DEF LogRequest, CrashInLog
  <2> QED BY <2>1, WentDown DEF BaseInv, NoneFails
<1>3. CASE ApplyRequest
  <2> DEFINE p == upsertLocked(pend, job.req)
  <2>1. p \in Buffer
    BY <1>1, <1>3, JobType, Upserted DEF BaseInv, ApplyRequest
  <2>2. tables' = tables /\ (Defer \/ flushAllLocked(p))
    BY <1>3 DEF ApplyRequest
  <2> HIDE DEF p
  <2>3. failing(p) = {}
    BY <1>1, FailsNot
  <2> QED BY <1>1, <2>1, <2>2, <2>3, Flushing DEF NoneFails
<1>4. CASE Flush \/ \E by \in {"task", "write", "load"} : CheckpointFlush(by)
  <2>1. tables' = tables /\ flushAllLocked(pend)
    BY <1>4 DEF Flush, CheckpointFlush
  <2>2. failing(pend) = {}
    BY <1>1, FailsNot
  <2> QED BY <1>1, <2>1, <2>2, Flushing DEF NoneFails
<1>5. CASE \/ \E t \in Table : CreateTable(t)
           \/ \E t \in Table, k \in Key : Get(t, k)
           \/ \E k \in Key : Evict(k)
           \/ UNCHANGED vars
  <2>1. pend' = pend
    BY <1>5, Untouched
  <2>2. tables' = tables
    BY <1>1, <1>5 DEF CreateTable, Get, Evict, vars, disk
  <2> QED BY <2>1, <2>2 DEF NoneFails
<1>6. CASE SaveLastSeq \/ TruncateWal
  BY <1>6 DEF SaveLastSeq, TruncateWal, NoneFails
<1>7. CASE Load
  BY <1>1, <1>7, Loading DEF BaseInv, NoneFails
<1>8. CASE CrashInLoad \/ Crash \/ Close
  <2>1. Down
    BY <1>8 DEF CrashInLoad, Crash, Close
  <2>2. tables' = Table
    <3>1. CASE CrashInLoad
      BY <1>1, <3>1, PartLoaded DEF BaseInv
    <3>2. CASE Crash \/ Close
      BY <1>1, <3>2 DEF Crash, Close
    <3> QED BY <1>8, <3>1, <3>2
  <2> QED BY <2>1, <2>2, WentDown DEF BaseInv, NoneFails
<1> QED BY <1>2, <1>3, <1>4, <1>5, <1>6, <1>7, <1>8, NextCases, Zenon

LEMMA NeverFails ==
    ASSUME Created = Table
    PROVE  Spec => []NoneFails
<1>1. Init => NoneFails
  BY DEF Init, NoneFails
<1> QED BY <1>1, NextNoneFails, Base, PTL DEF Spec

\* Between operations the batcher answers with the last value logged.
LEMMA GetsLogged ==
    ASSUME BaseInv, CoverInv, Defer \/ NoneFails, mode = "up", job = Idle,
           NEW t \in Table, NEW k \in Key
    PROVE  Reads(StoreGet(t, k), logged[t][k]) /\ valueOf(StoreGet(t, k)) = logged[t][k]
<1> DEFINE mk == <<t, k>>
<1>1. mk \in MergeKey /\ At(files, mk) = files[t][k] /\ At(logged, mk) = logged[t][k]
  BY DEF MergeKey, At
<1>2. StoreGet(t, k) = IF Defer /\ pend[mk] # NotPending THEN pend[mk] ELSE files[t][k]
  BY DEF StoreGet
<1>3. ~ Unfinished(mk)
  BY JobType DEF BaseInv, Unfinished
<1> HIDE DEF mk
<1>4. Reads(Held(mk), At(logged, mk))
  BY <1>1, <1>3 DEF CoverInv, Behind
<1>5. logged[t][k] # Torn
  BY NoValues DEF BaseInv, TypeOK
<1>6. StoreGet(t, k) = Held(mk)
  BY <1>1, <1>2 DEF Held, NoneFails
<1> QED BY <1>1, <1>4, <1>5, <1>6 DEF Reads, valueOf

LEMMA LogsOverExpected ==
    ASSUME LoadCheckpointsOnly
    PROVE  BaseInv /\ CoverInv /\ (Defer \/ NoneFails) /\ [Next]_vars
               => [OverExpected]_vars
<1> SUFFICES ASSUME BaseInv, CoverInv, Defer \/ NoneFails, [Next]_vars,
                    job = Idle, job' # Idle
             PROVE  OverExpected
  BY DEF OverExpected
<1>1. ASSUME NEW r \in requests, LogRequest(r) \/ CrashInLog(r) PROVE OverExpected
  <2>1. LogRequest(r)
    BY <1>1 DEF CrashInLog, Down
  <2>2. job'.req = r /\ mode = "up" /\ validateConsistency(r) /\ r \in Request
    BY <2>1, RequestsTyped DEF LogRequest, mayLog
  <2>3. ASSUME NEW k \in DOMAIN r.items PROVE Reads(StoreGet(r.table, k), logged[r.table][k])
    BY <2>2, RequestType, GetsLogged
  <2> QED BY <2>2, <2>3 DEF OverExpected, validateConsistency, Reads
<1>2. CASE ApplyRequest
  BY <1>2 DEF ApplyRequest
<1>3. CASE Flush \/ \E by \in {"task", "write", "load"} : CheckpointFlush(by)
  BY <1>3 DEF Flush, CheckpointFlush
<1>4. CASE \/ \E t \in Table : CreateTable(t)
           \/ \E t \in Table, k \in Key : Get(t, k)
           \/ \E k \in Key : Evict(k)
           \/ UNCHANGED vars
  BY <1>4, Untouched
<1>5. CASE SaveLastSeq \/ TruncateWal
  <2>1. ckpt.at # "idle" /\ (job' = job \/ ckpt.by = "write")
    BY <1>5 DEF SaveLastSeq, TruncateWal, checkpointDone
  <2> QED BY <2>1, JobType DEF BaseInv, Running
<1>6. CASE Load \/ CrashInLoad \/ Crash \/ Close
  BY <1>6 DEF Load, CrashInLoad, Crash, Close, Down
<1> QED BY <1>1, <1>2, <1>3, <1>4, <1>5, <1>6, NextCases, Zenon

\* A write with an optimistic-lock version is logged only over a value of the
\* version it names, although the value may be in the buffer, in a file or
\* come from a recovery.  Load alone makes checkpoints; without DeferWrites
\* the tables exist, as a value whose flush failed is read back from the file
\* it never reached.
THEOREM LockHolds ==
    ASSUME LoadCheckpointsOnly, Defer \/ Created = Table
    PROVE  Spec => NoLostUpdate
<1>1. CASE Defer
  <2>1. BaseInv /\ CoverInv /\ [Next]_vars => [OverExpected]_vars
    BY <1>1, LogsOverExpected
  <2> QED BY <2>1, Base, Cover, PTL DEF Spec, NoLostUpdate
<1>2. CASE Created = Table
  <2>1. BaseInv /\ CoverInv /\ NoneFails /\ [Next]_vars => [OverExpected]_vars
    BY LogsOverExpected
  <2> QED BY <1>2, <2>1, Base, Cover, NeverFails, PTL DEF Spec, NoLostUpdate
<1> QED BY <1>1, <1>2

-----------------------------------------------------------------------------
(* The cache *)

\* A cached value is the last one logged for its key, but for the operation
\* at hand, which has the cache still to come.
Fresh(mk) == \/ cache[mk[2]] \in {None, At(logged, mk)}
             \/ Unfinished(mk)

CacheInv == /\ \A mk \in MergeKey : Fresh(mk)
            /\ job # Idle => job.req.kind \in Kinds

LEMMA NextCache ==
    ASSUME LoadCheckpointsOnly, "BulkSet" \notin Kinds, \A s, t \in Table : s = t
    PROVE  BaseInv /\ CoverInv /\ NoneFails /\ CacheInv /\ [Next]_vars => CacheInv'
<1> SUFFICES ASSUME BaseInv, CoverInv, NoneFails, CacheInv, [Next]_vars
             PROVE  CacheInv'
  OBVIOUS
<1>1. /\ job = Idle => job.at = "idle"
      /\ cache \in [Key -> AnyValue]
  BY JobType DEF BaseInv, TypeOK
<1>2. ASSUME Down PROVE CacheInv'
  <2>1. cache' = [k \in Key |-> None] /\ job' = Idle
    BY <1>2 DEF Down
  <2> QED BY <2>1, Pairs DEF CacheInv, Fresh
<1>3. ASSUME NEW r \in requests, LogRequest(r) \/ CrashInLog(r) PROVE CacheInv'
  <2>1. mode = "up" /\ job = Idle
    BY <1>3, Appends
  <2>2. PICK o \in listings(r), n \in 0..Cardinality(DOMAIN r.items) :
           Appended(r, o, n)
    BY <1>3, Appends
  <2>3. CASE LogRequest(r)
    <3>1. /\ job'.at = "logged" /\ job'.req = r /\ cache' = cache
          /\ r.kind \in Kinds
      BY <2>3, OptionsTyped
      DEF LogRequest, maybeAutoCheckpoint, LoadCheckpointsOnly, requests
    <3>2. ASSUME NEW mk \in MergeKey PROVE Fresh(mk)'
      BY <1>1, <2>1, <2>2, <2>3, <3>1 DEF CacheInv, Fresh, Unfinished, Appended
    <3> QED BY <3>1, <3>2 DEF CacheInv
  <2> QED BY <1>2, <2>2, <2>3 DEF Appended
<1>4. CASE ApplyRequest
  <2> DEFINE r == job.req
  <2>1. /\ job.at = "logged" /\ job # Idle /\ r \in Request /\ r.kind # "BulkSet"
        /\ job' = Idle /\ logged' = logged
    BY <1>1, <1>4, JobType DEF ApplyRequest, BaseInv, CacheInv
  <2>2. cache' = cacheAfter(r)
    <3>1. failing(upsertLocked(pend, r)) = {}
      BY FailsNot DEF NoneFails
    <3> QED BY <1>4, <3>1 DEF ApplyRequest
  <2>3. ASSUME NEW mk \in MergeKey PROVE Fresh(mk)'
    <3>1. mk[1] = r.table /\ mk[2] \in Key
      BY <2>1, Pairs, RequestType
    <3>2. cache'[mk[2]] = IF mk[2] \in DOMAIN r.items
                          THEN r.items[mk[2]] ELSE cache[mk[2]]
      BY <2>1, <2>2, <3>1 DEF cacheAfter
    <3>3. Covers(r, mk) => r.items[mk[2]] = At(logged, mk)
      BY <2>1 DEF BaseInv, LastLogged
    <3> QED BY <2>1, <3>1, <3>2, <3>3 DEF CacheInv, Fresh, Unfinished, Covers
  <2> QED BY <2>1, <2>3 DEF CacheInv
<1>5. CASE Flush \/ \E by \in {"task", "write", "load"} : CheckpointFlush(by)
  <2>1. /\ cache' = cache /\ logged' = logged
        /\ job' = job \/ (job' = Idle /\ job.at = "auto")
    BY <1>5 DEF Flush, CheckpointFlush, mayCheckpoint, history
  <2> QED BY <2>1 DEF CacheInv, Fresh, Unfinished, CoverInv, CheckpointInLoad
<1>6. ASSUME NEW t \in Table, NEW k \in Key, Get(t, k) PROVE CacheInv'
  <2>1. /\ mode = "up" /\ job = Idle /\ job' = job /\ logged' = logged
        /\ cache' = [cache EXCEPT ![k] = IF @ = None THEN valueOf(StoreGet(t, k)) ELSE @]
    BY <1>6 DEF Get, history
  <2>2. valueOf(StoreGet(t, k)) = logged[t][k]
    BY <2>1, GetsLogged
  <2>3. ASSUME NEW mk \in MergeKey PROVE Fresh(mk)'
    <3>1. mk[1] = t /\ mk[2] \in Key
      BY Pairs
    <3>2. cache[mk[2]] \in {None, At(logged, mk)}
      BY <1>1, <2>1 DEF CacheInv, Fresh, Unfinished
    <3> QED BY <1>1, <2>1, <2>2, <3>1, <3>2 DEF Fresh, At
  <2> QED BY <2>1, <2>3 DEF CacheInv
<1>7. ASSUME NEW k \in Key, Evict(k) PROVE CacheInv'
  <2>1. job' = job /\ logged' = logged /\ cache' = [cache EXCEPT ![k] = None]
    BY <1>7 DEF Evict, history
  <2>2. \A x \in Key : cache'[x] = cache[x] \/ cache'[x] = None
    BY <1>1, <2>1
  <2> QED BY <2>1, <2>2, Pairs DEF CacheInv, Fresh, Unfinished
<1>8. CASE SaveLastSeq \/ TruncateWal
  <2>1. cache' = cache /\ logged' = logged /\ ckpt.at # "idle"
    BY <1>8 DEF SaveLastSeq, TruncateWal, history
  <2>2. job' = job
    <3>1. job' = job \/ ckpt.by = "write"
      BY <1>8 DEF SaveLastSeq, TruncateWal, checkpointDone
    <3> QED BY <2>1, <3>1 DEF BaseInv, Running, CoverInv, CheckpointInLoad
  <2> QED BY <2>1, <2>2 DEF CacheInv, Fresh, Unfinished
<1>9. CASE Load \/ (\E t \in Table : CreateTable(t)) \/ UNCHANGED vars
  <2>1. cache' = cache /\ logged' = logged /\ job' = job
    BY <1>9 DEF Load, CreateTable, vars, history, memory
  <2> QED BY <2>1 DEF CacheInv, Fresh, Unfinished
<1>10. CASE CrashInLoad \/ Crash \/ Close
  BY <1>2, <1>10 DEF CrashInLoad, Crash, Close
<1> QED BY <1>3, <1>4, <1>5, <1>6, <1>7, <1>8, <1>9, <1>10, NextCases, Zenon

\* A Get between operations answers with the last value logged for its key,
\* through fills, evictions, flushes, crashes and recovery: for one table, as
\* the cache's key leaves the table out; without BulkSet, which leaves the
\* cache alone; and with the table in place, as a failed flush does not reach
\* the cache.
THEOREM GetServesLatest ==
    ASSUME LoadCheckpointsOnly, Created = Table, "BulkSet" \notin Kinds,
           \A s, t \in Table : s = t
    PROVE  Spec => []ServesLatest
<1>1. Init => CacheInv
  BY Pairs DEF Init, CacheInv, Fresh
<1>2. BaseInv /\ CoverInv /\ NoneFails /\ CacheInv /\ [Next]_vars => CacheInv'
  BY NextCache
<1>3. BaseInv /\ CoverInv /\ NoneFails /\ CacheInv => ServesLatest
  <2> SUFFICES ASSUME BaseInv, CoverInv, NoneFails, CacheInv, mode = "up", job = Idle,
                      NEW t \in tables, NEW k \in Key
               PROVE  visible(t, k) = logged[t][k]
    BY DEF ServesLatest
  <2>1. t \in Table
    BY DEF BaseInv, TypeOK
  <2>2. valueOf(StoreGet(t, k)) = logged[t][k]
    BY <2>1, GetsLogged
  <2> DEFINE mk == <<t, k>>
  <2>3. mk \in MergeKey /\ mk[2] = k /\ At(logged, mk) = logged[t][k]
    BY <2>1 DEF MergeKey, At
  <2>4. ~ Unfinished(mk)
    BY JobType DEF BaseInv, Unfinished
  <2> HIDE DEF mk
  <2> QED BY <2>2, <2>3, <2>4 DEF CacheInv, Fresh, visible
<1> QED BY <1>1, <1>2, <1>3, Base, Cover, NeverFails, PTL DEF Spec
=============================================================================
