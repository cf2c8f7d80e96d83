--------------------------- MODULE FsdbStoreProofs ---------------------------
(***************************************************************************)
(* Fsdb's table implements the map of Store, and its bulk operations do    *)
(* what the single ones would, for any keys and secondary keys, either     *)
(* setting of DeferWrites and any bounds.                                  *)
(***************************************************************************)
EXTENDS FsdbProofs

-----------------------------------------------------------------------------
(* What a restart would bring back *)

\* What Db.Get makes of the key's file, and what the batcher answers.
fileValue(d, k) == IF exists(d, k) THEN d.key[k] ELSE None
view(k)         == IF pend[k] # NotPending THEN pend[k] ELSE fileValue(disk, k)

IsLast(w, i, k) ==
    /\ i \in 1..Len(w) /\ w[i].key = k
    /\ \A j \in 1..Len(w) : w[j].key = k => j <= i

LEMMA LastExists ==
    ASSUME NEW w \in Seq(Entry), NEW k, \E i \in 1..Len(w) : w[i].key = k
    PROVE  \E i \in 1..Len(w) : IsLast(w, i, k)
<1> DEFINE S == {i \in 1..Len(w) : w[i].key = k}
<1>1. Len(w) \in Nat
  OBVIOUS
<1>2. S \in SUBSET Nat /\ S # {} /\ \A x \in S : x <= Len(w)
  BY <1>1
<1>3. Max(S) \in S /\ \A x \in S : x <= Max(S)
  <2> HIDE DEF S
  <2> QED BY <1>1, <1>2, MaxIn
<1> QED BY <1>3 DEF IsLast

LEMMA LastCounts ==
    ASSUME NEW w \in Seq(Entry), NEW d, NEW k, NEW i, IsLast(w, i, k)
    PROVE  recovered(w, d, k) = w[i].op
<1> DEFINE S == entriesOf(w, k)
<1>1. Len(w) \in Nat /\ DOMAIN w = 1..Len(w)
  OBVIOUS
<1>2. S = {j \in 1..Len(w) : w[j].key = k}
  BY <1>1 DEF entriesOf
<1>3. i \in S /\ i \in Nat /\ \A j \in S : j \in Nat /\ j <= i
  BY <1>1, <1>2 DEF IsLast
<1> HIDE DEF S
<1>4. \E x \in S : \A j \in S : x >= j
  <2>1. \A j \in S : i >= j
    BY <1>3
  <2> QED BY <1>3, <2>1
<1> DEFINE c == CHOOSE x \in S : \A j \in S : x >= j
<1>5. c \in S /\ \A j \in S : c >= j
  BY <1>4, Zenon
<1> HIDE DEF c
<1>6. c = i
  BY <1>3, <1>5
<1>7. S # {} => recovered(w, d, k) = w[c].op
  BY DEF recovered, S, c
<1> QED BY <1>3, <1>6, <1>7

LEMMA NotLogged ==
    ASSUME NEW w \in Seq(Entry), NEW d, NEW k, ~ \E i \in 1..Len(w) : w[i].key = k
    PROVE  recovered(w, d, k) = fileValue(d, k)
<1>1. DOMAIN w = 1..Len(w)
  OBVIOUS
<1>2. entriesOf(w, k) = {}
  BY <1>1 DEF entriesOf
<1> QED BY <1>2 DEF recovered, fileValue

\* Files matter only where the WAL has no entry.
LEMMA RecoveredSame ==
    ASSUME wal \in Seq(Entry), NEW d, NEW k,
           Logged(k) \/ fileValue(d, k) = fileValue(disk, k)
    PROVE  recovered(wal, d, k) = recovered(wal, disk, k)
<1>1. CASE Logged(k)
  <2>1. PICK i \in 1..Len(wal) : IsLast(wal, i, k)
    BY <1>1, LastExists DEF Logged
  <2> QED BY <2>1, LastCounts
<1>2. CASE ~ Logged(k) /\ fileValue(d, k) = fileValue(disk, k)
  BY <1>2, NotLogged DEF Logged
<1> QED BY <1>1, <1>2

-----------------------------------------------------------------------------
(* What the batcher and the files show *)

InSight(k) == \/ mode = "up" /\ ~ atHand(k)
              \/ mode = "loading" /\ ~ ToReplay(k)

\* What is shown is what a restart would bring back, and what the request at
\* hand is about to bring into the buffer as well.  The keys left out have an
\* operation that a checkpoint covered too early, and nothing logged since.
Known(k) == k \in early => Logged(k)

Shows(k) ==
    Known(k) => /\ atHand(k) => client.items[k] = recovered(wal, disk, k)
                /\ InSight(k) => view(k) = recovered(wal, disk, k)

ShowInv == FileInv /\ \A k \in Key : Shows(k)

\* A step that changes what a restart would bring back for no key but those.
Kept(k) == k \notin early => recovered(wal', disk', k) = recovered(wal, disk, k)

\* A step that logs nothing and merges nothing.
LEMMA ShowKept ==
    ASSUME FileInv, wal' = wal, NEW k \in Key, Shows(k), Known(k),
           Logged(k) \/ fileValue(disk', k) = fileValue(disk, k),
           client'.at = "logged" => client' = client,
           InSight(k)' => InSight(k) /\ view(k)' = view(k)
    PROVE  Shows(k)' /\ Kept(k)
<1>1. wal \in Seq(Entry)
  BY DEF FileInv, CtlInv, Stored
<1>2. recovered(wal', disk', k) = recovered(wal, disk, k)
  BY <1>1, RecoveredSame
<1>3. atHand(k)' => atHand(k) /\ client' = client
  BY DEF atHand
<1> QED BY <1>2, <1>3 DEF Shows, Kept

LEMMA ShowUnknown ==
    ASSUME wal' = wal, NEW k \in Key, ~ Known(k), k \in early => k \in early'
    PROVE  Shows(k)' /\ Kept(k)
<1>1. Logged(k)' = Logged(k)
  BY DEF Logged
<1> QED BY <1>1 DEF Known, Shows, Kept

\* Steps that write no file and leave the buffer alone.
LEMMA ShowFrame ==
    ASSUME ShowInv, NEW k \in Key,
           UNCHANGED <<disk, wal, mode, replayed, pend, early>>,
           client' = client \/ (client.at # "logged" /\ client'.at # "logged")
    PROVE  Shows(k)' /\ Kept(k)
<1>1. FileInv /\ Shows(k)
  BY DEF ShowInv
<1>2. fileValue(disk', k) = fileValue(disk, k) /\ view(k)' = view(k)
  BY DEF fileValue, view, exists
<1>3. atHand(k)' = atHand(k) /\ ToReplay(k)' = ToReplay(k)
  BY DEF atHand, ToReplay
<1>4. InSight(k)' => InSight(k)
  BY <1>3 DEF InSight
<1> QED BY <1>1, <1>2, <1>4, ShowKept, ShowUnknown

\* The process ends; of the files, at most that of a logged key has changed.
LEMMA ShowDown ==
    ASSUME ShowInv, NEW k \in Key, Down, wal' = wal, early' = early,
           Known(k) => Logged(k) \/ fileValue(disk', k) = fileValue(disk, k)
    PROVE  Shows(k)' /\ Kept(k)
<1>1. FileInv /\ Shows(k)
  BY DEF ShowInv
<1>2. client'.at # "logged" /\ mode' = "down"
  BY DEF Down, Idle
<1>3. ~ InSight(k)'
  BY <1>2 DEF InSight
<1> QED BY <1>1, <1>2, <1>3, ShowKept, ShowUnknown

\* What a flush has at hand is in the WAL, or a checkpoint came before it.
LEMMA FlushLogged ==
    ASSUME FileInv, batch # NoBatch
    PROVE  /\ batch.key \in Key /\ pend[batch.key] # NotPending
           /\ Known(batch.key) => Logged(batch.key)
<1>1. batch.key \in pending(pend)
  BY DEF FileInv, CtlInv, Control
<1>2. batch.key \in Key /\ pend[batch.key] # NotPending
  BY <1>1 DEF pending
<1>3. Repeats(batch.key)
  BY <1>2 DEF FileInv
<1> QED BY <1>2, <1>3 DEF Repeats, Known

\* An operation of a flush ends: its key's file is as the buffer had it.
LEMMA ShowEnd ==
    ASSUME ShowInv, NEW k \in Key, batch # NoBatch, wal' = wal,
           NEW ok \in BOOLEAN, endOp(ok),
           fileValue(disk', k) = fileValue(disk, k) \/ k = batch.key,
           ok /\ k = batch.key => fileValue(disk', k) = pend[k]
    PROVE  Shows(k)' /\ Kept(k)
<1>0. FileInv /\ CtlInv /\ Memory /\ pend \in Ops /\ Shows(k) /\ wal \in Seq(Entry)
  BY DEF ShowInv, FileInv, CtlInv, Memory, Stored
<1>1. /\ batch.key \in Key /\ pend[batch.key] # NotPending
      /\ Known(batch.key) => Logged(batch.key)
  BY <1>0, FlushLogged
<1>2. Known(k) => Logged(k) \/ fileValue(disk', k) = fileValue(disk, k)
  BY <1>1
<1>3. CASE Down /\ early' = early
  BY <1>2, <1>3, ShowDown
<1>4. CASE ~ (Down /\ early' = early)
  <2>1. /\ mode' = mode /\ replayed' = replayed
        /\ pend' = IF ok THEN [pend EXCEPT ![batch.key] = NotPending] ELSE pend
        /\ \/ early' = early
           \/ ok /\ ~atHand(batch.key) /\ early' = early \ {batch.key}
        /\ \/ client' = client
           \/ batch.by = "client" /\ client' = Idle
           \/ /\ batch.by = "client" /\ client.at = "flushing"
              /\ client' = [client EXCEPT !.at = "rlock"]
    BY <1>0, <1>4, EndOp
  <2>2. client' = client \/ (client.at # "logged" /\ client'.at # "logged")
    <3>1. batch.by = "client" => client.at \in {"flushing", "writing"}
      BY <1>0 DEF CtlInv, Control
    <3>2. client.at = "flushing" => client = [at |-> client.at, sk |-> client.sk]
      BY <1>0, ClientType DEF Memory
    <3>3. client.at = "flushing" => [client EXCEPT !.at = "rlock"].at = "rlock"
      BY <3>2
    <3>4. Idle.at = "idle"
      BY DEF Idle
    <3>5. \/ client' = client \/ (batch.by = "client" /\ client' = Idle)
          \/ /\ batch.by = "client" /\ client.at = "flushing"
             /\ client' = [client EXCEPT !.at = "rlock"]
      BY <2>1, Zenon
    <3> QED BY <3>1, <3>3, <3>4, <3>5
  <2>3. atHand(k)' = atHand(k) /\ ToReplay(k)' = ToReplay(k)
    BY <2>1, <2>2 DEF atHand, ToReplay
  <2>4. InSight(k)' => InSight(k)
    BY <2>1, <2>3 DEF InSight
  <2>5. view(k)' = view(k)
    <3>1. CASE ok /\ k = batch.key
      <4>1. pend'[k] = NotPending
        BY <1>0, <1>1, <2>1, <3>1 DEF Ops
      <4>2. view(k)' = fileValue(disk', k) /\ view(k) = pend[k]
        BY <1>1, <3>1, <4>1 DEF view
      <4> QED BY <3>1, <4>2
    <3>2. CASE ~ (ok /\ k = batch.key)
      <4>1. pend'[k] = pend[k]
        BY <1>0, <1>1, <2>1, <3>2 DEF Ops
      <4>2. CASE k = batch.key
        BY <1>1, <4>1, <4>2 DEF view
      <4>3. CASE k # batch.key
        BY <4>1, <4>3 DEF view
      <4> QED BY <4>2, <4>3
    <3> QED BY <3>1, <3>2
  <2>6. CASE Known(k)
    BY <1>0, <1>2, <2>2, <2>4, <2>5, <2>6, ShowKept
  <2>7. CASE ~ Known(k) /\ k \in early'
    BY <2>7, ShowUnknown
  <2>8. CASE ~ Known(k) /\ k \notin early'
    <3>1. k \in early /\ ~ Logged(k)
      BY <2>8 DEF Known
    <3>2. ok /\ k = batch.key /\ ~ atHand(k)
      BY <2>1, <2>8, <3>1
    <3>3. pend'[k] = NotPending
      BY <1>0, <1>1, <2>1, <3>2 DEF Ops
    <3>4. view(k)' = fileValue(disk', k)
      BY <3>3 DEF view
    <3>5. recovered(wal', disk', k) = fileValue(disk', k)
      BY <1>0, <3>1, NotLogged DEF Logged
    <3> QED BY <2>3, <3>1, <3>2, <3>4, <3>5 DEF Shows, Kept
  <2> QED BY <2>6, <2>7, <2>8
<1> QED BY <1>3, <1>4

-----------------------------------------------------------------------------
(* The actions *)

\* What is left of a key's file after a write, a removal, and a cut write.
LEMMA FileWritten ==
    ASSUME disk \in Disk, NEW b \in Key, NEW o \in Op \cup {Torn},
           disk' = writeKeyFile(disk, b, o)
    PROVE  /\ \A k \in Key : k # b => fileValue(disk', k) = fileValue(disk, k)
           /\ o \in Op => fileValue(disk', b) = o
<1>1. \A k \in Key : disk'.key[k] = IF k = b THEN o ELSE disk.key[k]
  BY DEF writeKeyFile, Disk
<1>2. o \in Op => o \in Item \/ o = None
  BY DEF Op
<1> QED BY <1>1, <1>2 DEF fileValue, exists

LEMMA SameFiles ==
    ASSUME disk'.key = disk.key
    PROVE  \A k \in Key : fileValue(disk', k) = fileValue(disk, k)
BY DEF fileValue, exists

LEMMA SetFileShow ==
    ASSUME ShowInv, SetFile, NEW k \in Key
    PROVE  Shows(k)' /\ Kept(k)
<1> DEFINE b == batch.key
<1>0. FileInv /\ CtlInv /\ Memory /\ Shows(k)
  BY DEF ShowInv, FileInv, CtlInv
<1>1. /\ batch # NoBatch /\ pend[b] # None /\ wal' = wal
      /\ disk' = writeKeyFile(disk, b, pend[b])
      /\ endOp(TRUE) \/ goToIndex(pend[b])
  BY DEF SetFile, inFile
<1>2. b \in Key /\ disk \in Disk /\ pend[b] \in Op
  BY <1>0, <1>1, AtKey
<1>3. (k # b => fileValue(disk', k) = fileValue(disk, k)) /\ fileValue(disk', b) = pend[b]
  <2> HIDE DEF b
  <2> QED BY <1>1, <1>2, FileWritten
<1>4. CASE endOp(TRUE)
  BY <1>1, <1>3, <1>4, ShowEnd
<1>5. CASE goToIndex(pend[b])
  <2>1. UNCHANGED <<mode, replayed, pend, client, early>>
    BY <1>5 DEF goToIndex
  <2>2. pend[b] # NotPending /\ (Known(b) => Logged(b))
    BY <1>0, <1>1, FlushLogged
  <2>3. atHand(k)' = atHand(k) /\ ToReplay(k)' = ToReplay(k)
    BY <1>1, <2>1 DEF atHand, ToReplay
  <2>4. view(k)' = view(k)
    BY <1>3, <2>1, <2>2 DEF view
  <2>5. InSight(k)' => InSight(k)
    BY <2>1, <2>3 DEF InSight
  <2>6. Known(k) => Logged(k) \/ fileValue(disk', k) = fileValue(disk, k)
    BY <1>3, <2>2
  <2> QED BY <1>0, <1>1, <2>1, <2>4, <2>5, <2>6, ShowKept, ShowUnknown
<1> QED BY <1>1, <1>4, <1>5

LEMMA DelFileShow ==
    ASSUME ShowInv, DelFile, NEW k \in Key
    PROVE  Shows(k)' /\ Kept(k)
<1> DEFINE b == batch.key
<1>0. FileInv /\ CtlInv /\ Memory /\ Shows(k)
  BY DEF ShowInv, FileInv, CtlInv
<1>1. /\ batch # NoBatch /\ pend[b] = None /\ wal' = wal
      /\ (~ exists(disk, b) /\ disk' = disk) \/ disk' = removeKeyFile(disk, b)
      /\ endOp(TRUE) \/ goToIndex(disk.key[b])
  BY DEF DelFile, inFile, missingIsDone
<1>2. b \in Key /\ disk \in Disk /\ None \in Op
  BY <1>0, <1>1, AtKey DEF Op
<1>3. (k # b => fileValue(disk', k) = fileValue(disk, k)) /\ fileValue(disk', b) = pend[b]
  <2>1. CASE ~ exists(disk, b) /\ disk' = disk
    BY <1>1, <2>1 DEF fileValue
  <2>2. CASE disk' = removeKeyFile(disk, b)
    <3>1. disk' = writeKeyFile(disk, b, None)
      BY <2>2 DEF removeKeyFile, writeKeyFile
    <3> HIDE DEF b
    <3> QED BY <1>1, <1>2, <3>1, FileWritten
  <2> QED BY <1>1, <2>1, <2>2
<1>4. CASE endOp(TRUE)
  BY <1>1, <1>3, <1>4, ShowEnd
<1>5. CASE goToIndex(disk.key[b])
  <2>1. UNCHANGED <<mode, replayed, pend, client, early>>
    BY <1>5 DEF goToIndex
  <2>2. pend[b] # NotPending /\ (Known(b) => Logged(b))
    BY <1>0, <1>1, FlushLogged
  <2>3. atHand(k)' = atHand(k) /\ ToReplay(k)' = ToReplay(k)
    BY <1>1, <2>1 DEF atHand, ToReplay
  <2>4. view(k)' = view(k)
    BY <1>3, <2>1, <2>2 DEF view
  <2>5. InSight(k)' => InSight(k)
    BY <2>1, <2>3 DEF InSight
  <2>6. Known(k) => Logged(k) \/ fileValue(disk', k) = fileValue(disk, k)
    BY <1>3, <2>2
  <2> QED BY <1>0, <1>1, <2>1, <2>4, <2>5, <2>6, ShowKept, ShowUnknown
<1> QED BY <1>1, <1>4, <1>5

LEMMA IndexShow ==
    ASSUME ShowInv, SetIndex \/ DelIndex, NEW k \in Key
    PROVE  Shows(k)' /\ Kept(k)
<1> DEFINE b == batch.key
<1>0. FileInv /\ CtlInv /\ disk \in Disk
  BY DEF ShowInv, FileInv, CtlInv, Stored
<1>1. /\ inIndex /\ batch # NoBatch /\ wal' = wal
      /\ \/ disk' = disk
         \/ disk' = appendKeysToSk(disk, batch.sk, {b})
         \/ disk' = removeKeysFromSk(disk, batch.sk, {b})
      /\ endOp(TRUE) \/ endOp(FALSE)
  BY DEF SetIndex, DelIndex, inIndex
<1>2. b \in Key /\ batch.sk \in Sk /\ pend[b] \in Op /\ disk.key[b] = pend[b]
  <2>1. b \in Key /\ pend[b] \in Op
    BY <1>0, <1>1, AtKey
  <2> QED BY <1>0, <1>1, <2>1 DEF FileInv, HalfDone, CtlInv, Control
<1>3. disk'.key = disk.key
  <2> HIDE DEF b
  <2>1. disk' = appendKeysToSk(disk, batch.sk, {b}) => disk'.key = disk.key
    BY <1>0, <1>2, IndexAppend
  <2>2. disk' = removeKeysFromSk(disk, batch.sk, {b}) => disk'.key = disk.key
    BY <1>0, <1>2, IndexRemove
  <2> QED BY <1>1, <2>1, <2>2
<1>4. \A x \in Key : fileValue(disk', x) = fileValue(disk, x)
  BY <1>3, SameFiles
<1>5. fileValue(disk, b) = pend[b]
  BY <1>2 DEF fileValue, exists, Op
<1> QED BY <1>1, <1>2, <1>4, <1>5, ShowEnd

\* What a request adds to the WAL, entry by entry.
LEMMA LogsItems ==
    ASSUME NEW r \in requests
    PROVE  LET ks == SetToSeq(DOMAIN r)
               es == [i \in DOMAIN ks |-> [key |-> ks[i], op |-> r[ks[i]]]]
           IN  /\ Len(ks) = Cardinality(DOMAIN r) /\ Len(es) = Len(ks)
               /\ \A i \in 1..Len(es) : es[i].key \in DOMAIN r /\ es[i].op = r[es[i].key]
<1> DEFINE ks == SetToSeq(DOMAIN r)
           es == [i \in DOMAIN ks |-> [key |-> ks[i], op |-> r[ks[i]]]]
           n  == Cardinality(DOMAIN r)
<1>1. DOMAIN r \subseteq Key
  BY BatchesType DEF requests
<1>2. IsFiniteSet(DOMAIN r)
  BY <1>1, KeyFinite, FS_Subset
<1>3. ks \in Seq(DOMAIN r) /\ Len(ks) = n /\ DOMAIN ks = 1..n /\ n \in Nat
  BY <1>2, SetListed
<1>4. Len(es) = Len(ks)
  BY Logs
<1> HIDE DEF ks, n
<1>5. \A i \in 1..n : ks[i] \in DOMAIN r
  BY <1>3
<1>6. \A i \in 1..n : es[i].key = ks[i] /\ es[i].op = r[ks[i]]
  BY <1>3
<1> HIDE DEF es
<1> QED BY <1>3, <1>4, <1>5, <1>6 DEF ks, es, n

LEMMA LogShow ==
    ASSUME ShowInv, NEW r \in requests, LogRequest(r), NEW k \in Key
    PROVE  /\ Shows(k)'
           /\ recovered(wal', disk', k) = IF k \in DOMAIN r THEN r[k] ELSE recovered(wal, disk, k)
<1> DEFINE ks == SetToSeq(DOMAIN r)
           es == [i \in DOMAIN ks |-> [key |-> ks[i], op |-> r[ks[i]]]]
<1>0. FileInv /\ CtlInv /\ Shows(k) /\ wal \in Seq(Entry)
  BY DEF ShowInv, FileInv, CtlInv, Stored
<1>1. /\ es \in Seq(Entry)
      /\ \A x \in DOMAIN r : \E i \in 1..Len(es) : es[i].key = x
      /\ \A i \in 1..Len(es) : es[i].key \in DOMAIN r /\ es[i].op = r[es[i].key]
  BY Logs, LogsItems
<1>2. /\ wal' = wal \o es /\ mode = "up" /\ client = Idle
      /\ client' = [at |-> "logged", items |-> r]
      /\ UNCHANGED <<disk, mode, replayed, pend, batch, early>>
  BY DEF LogRequest, mayStart, history
<1> HIDE DEF es, ks
<1>3. /\ Len(wal') = Len(wal) + Len(es) /\ Len(wal) \in Nat /\ Len(es) \in Nat
      /\ \A i \in 1..Len(wal) : wal'[i] = wal[i]
      /\ \A i \in 1..Len(es) : wal'[Len(wal) + i] = es[i]
      /\ wal' \in Seq(Entry)
  BY <1>0, <1>1, <1>2
<1>4. ASSUME NEW j \in 1..Len(wal'), j > Len(wal)
      PROVE  j - Len(wal) \in 1..Len(es) /\ wal'[j] = es[j - Len(wal)]
  <2>1. j - Len(wal) \in 1..Len(es) /\ Len(wal) + (j - Len(wal)) = j
    BY <1>3, <1>4
  <2> QED BY <1>3, <2>1
<1>5. atHand(k)' = (k \in DOMAIN r) /\ ~ atHand(k)
  BY <1>2 DEF atHand, Idle
<1>6. InSight(k) /\ view(k)' = view(k) /\ fileValue(disk', k) = fileValue(disk, k)
  BY <1>2, <1>5 DEF InSight, view, fileValue, exists
<1>7. CASE k \in DOMAIN r
  <2>1. Logged(k)'
    <3>1. PICK i \in 1..Len(es) : es[i].key = k
      BY <1>1, <1>7
    <3>2. Len(wal) + i \in 1..Len(wal') /\ wal'[Len(wal) + i].key = k
      BY <1>3, <3>1
    <3> QED BY <3>2 DEF Logged
  <2>2. PICK i \in 1..Len(wal') : IsLast(wal', i, k)
    BY <1>3, <2>1, LastExists DEF Logged
  <2>3. i > Len(wal)
    <3>1. PICK x \in 1..Len(es) : es[x].key = k
      BY <1>1, <1>7
    <3>2. Len(wal) + x \in 1..Len(wal') /\ wal'[Len(wal) + x].key = k
      BY <1>3, <3>1
    <3>3. Len(wal) + x <= i
      BY <2>2, <3>2 DEF IsLast
    <3> QED BY <1>3, <2>2, <3>1, <3>3
  <2>4. wal'[i].op = r[k]
    <3>1. wal'[i] = es[i - Len(wal)] /\ i - Len(wal) \in 1..Len(es)
      BY <1>4, <2>2, <2>3
    <3> QED BY <1>1, <2>2, <3>1 DEF IsLast
  <2>5. recovered(wal', disk', k) = r[k]
    BY <1>3, <2>2, <2>4, LastCounts
  <2>6. ~ InSight(k)' /\ client'.items = r
    BY <1>2, <1>5, <1>7 DEF InSight
  <2> QED BY <1>5, <1>7, <2>5, <2>6 DEF Shows
<1>8. CASE k \notin DOMAIN r
  <2>1. \A j \in 1..Len(wal') : wal'[j].key = k => j \in 1..Len(wal) /\ wal[j].key = k
    <3> SUFFICES ASSUME NEW j \in 1..Len(wal'), wal'[j].key = k, j > Len(wal)
                 PROVE  FALSE
      BY <1>3
    <3> QED BY <1>1, <1>4, <1>8
  <2>2. recovered(wal', disk', k) = recovered(wal, disk, k)
    <3>1. CASE Logged(k)
      <4>1. PICK i \in 1..Len(wal) : IsLast(wal, i, k)
        BY <1>0, <3>1, LastExists DEF Logged
      <4>2. IsLast(wal', i, k)
        <5>1. i \in 1..Len(wal') /\ wal'[i].key = k
          BY <1>3, <4>1 DEF IsLast
        <5>2. \A j \in 1..Len(wal') : wal'[j].key = k => j <= i
          BY <1>3, <2>1, <4>1 DEF IsLast
        <5> QED BY <5>1, <5>2 DEF IsLast
      <4>3. recovered(wal', disk', k) = wal'[i].op
        BY <1>3, <4>2, LastCounts
      <4> QED BY <1>0, <1>3, <4>1, <4>3, LastCounts
    <3>2. CASE ~ Logged(k)
      <4>1. ~ Logged(k)'
        BY <1>3, <2>1, <3>2 DEF Logged
      <4>2. recovered(wal', disk', k) = fileValue(disk', k)
        BY <1>3, <4>1, NotLogged DEF Logged
      <4> QED BY <1>0, <1>6, <3>2, <4>2, NotLogged DEF Logged
    <3> QED BY <3>1, <3>2
  <2>3. Known(k)' => Known(k)
    BY <1>2, <2>1 DEF Known, Logged
  <2> QED BY <1>0, <1>5, <1>6, <1>8, <2>2, <2>3 DEF Shows
<1> QED BY <1>7, <1>8

LEMMA MergeShow ==
    ASSUME ShowInv, Merge, NEW k \in Key
    PROVE  Shows(k)' /\ Kept(k)
<1>0. FileInv /\ CtlInv /\ Shows(k) /\ wal \in Seq(Entry)
  BY DEF ShowInv, FileInv, CtlInv, Stored
<1>1. /\ client.at = "logged" /\ pend' = merge(client.items)
      /\ client' = Idle \/ client' = [at |-> "writing"]
      /\ UNCHANGED <<disk, wal, mode, replayed, early>>
  BY DEF Merge, history
<1>2. client'.at # "logged" /\ fileValue(disk', k) = fileValue(disk, k) /\ mode = "up"
  BY <1>0, <1>1, ClientUp DEF Idle, fileValue, exists
<1>3. recovered(wal', disk', k) = recovered(wal, disk, k)
  BY <1>0, <1>1, <1>2, RecoveredSame
<1>4. ~ atHand(k)'
  BY <1>2 DEF atHand
<1>5. Known(k)' = Known(k)
  BY <1>1 DEF Known, Logged
<1>6. ASSUME Known(k) PROVE view(k)' = recovered(wal, disk, k)
  <2>1. CASE k \in DOMAIN client.items
    <3>1. atHand(k) /\ pend'[k] = client.items[k]
      BY <1>1, <2>1 DEF atHand, merge
    <3>2. client.items[k] # NotPending
      BY <1>0, <1>1, <2>1, ClientType, BatchesType, NoItems DEF CtlInv, Memory
    <3> QED BY <1>0, <1>6, <3>1, <3>2 DEF Shows, view
  <2>2. CASE k \notin DOMAIN client.items
    <3>1. InSight(k) /\ pend'[k] = pend[k]
      BY <1>1, <1>2, <2>2 DEF InSight, atHand, merge
    <3> QED BY <1>0, <1>2, <1>6, <3>1 DEF Shows, view
  <2> QED BY <2>1, <2>2
<1> QED BY <1>3, <1>4, <1>5, <1>6 DEF Shows, Kept

LEMMA LoadShow ==
    ASSUME ShowInv, LoadStep, NEW k \in Key
    PROVE  Shows(k)' /\ Kept(k)
<1>0. /\ FileInv /\ CtlInv /\ Shows(k) /\ wal \in Seq(Entry) /\ pend \in Ops
      /\ replayed \in 0..Len(wal) /\ Len(wal) \in Nat /\ Repeats(k)
  BY DEF ShowInv, FileInv, CtlInv, Stored, Memory
<1>1. /\ client' = client /\ disk' = disk /\ client = Idle /\ mode # "up"
      /\ early' = early
  BY <1>0 DEF LoadStep, Load, Replay, LoadCheckpoint, CtlInv, Control, history
<1>2. ~ atHand(k) /\ ~ atHand(k)' /\ fileValue(disk', k) = fileValue(disk, k)
  BY <1>1 DEF atHand, Idle, fileValue, exists
<1>3. CASE Load
  <2>1. mode = "down" /\ replayed = 0 /\ UNCHANGED <<wal, replayed, pend>>
    BY <1>0, <1>3 DEF Load, CtlInv, Control
  <2>2. recovered(wal', disk', k) = recovered(wal, disk, k)
    BY <1>0, <1>2, <2>1, RecoveredSame
  <2>3. CASE Logged(k)
    <3>1. ToReplay(k)'
      BY <2>1, <2>3 DEF Logged, ToReplay
    <3>2. mode' # "up"
      BY <1>3 DEF Load
    <3> QED BY <1>2, <2>2, <3>1, <3>2 DEF Shows, InSight, Kept
  <2>4. CASE ~ Known(k)
    BY <1>1, <2>1, <2>4, ShowUnknown
  <2>5. CASE ~ Logged(k) /\ Known(k)
    <3>1. pend[k] = NotPending
      BY <1>0, <2>5 DEF Repeats, Known
    <3>2. view(k)' = fileValue(disk, k)
      BY <1>2, <2>1, <3>1 DEF view
    <3>3. recovered(wal, disk, k) = fileValue(disk, k)
      BY <1>0, <2>5, NotLogged DEF Logged
    <3> QED BY <1>0, <1>2, <2>2, <3>2, <3>3 DEF Shows, Kept
  <2> QED BY <2>3, <2>4, <2>5
<1>4. CASE Replay
  <2> DEFINE e == wal[replayed + 1]
  <2>1. /\ replayed < Len(wal) /\ replayed' = replayed + 1
        /\ mode = "loading" /\ mode' = mode
        /\ pend' = [pend EXCEPT ![e.key] = e.op] /\ wal' = wal
    BY <1>4 DEF Replay
  <2>2. e \in Entry /\ replayed + 1 \in 1..Len(wal)
    BY <1>0, <2>1
  <2>3. e.key \in Key /\ e.op # NotPending
    BY <2>2, NoItems DEF Entry
  <2>4. recovered(wal', disk', k) = recovered(wal, disk, k) /\ (Known(k)' <=> Known(k))
    BY <1>0, <1>1, <1>2, <2>1, RecoveredSame DEF Known, Logged
  <2>5. CASE k = e.key
    <3> SUFFICES ASSUME ~ ToReplay(k)' PROVE view(k)' = recovered(wal, disk, k)
      BY <1>2, <2>1, <2>4 DEF Shows, InSight, Kept
    <3>1. IsLast(wal, replayed + 1, k)
      <4>1. \A j \in 1..Len(wal) : wal[j].key = k => ~ (j > replayed + 1)
        BY <2>1 DEF ToReplay
      <4> QED BY <1>0, <2>2, <2>5, <4>1 DEF IsLast
    <3>2. recovered(wal, disk, k) = e.op
      BY <1>0, <3>1, LastCounts
    <3>3. pend'[k] = e.op
      BY <1>0, <2>1, <2>3, <2>5 DEF Ops
    <3> HIDE DEF e
    <3> QED BY <2>3, <3>2, <3>3 DEF view
  <2>6. CASE k # e.key
    <3>1. ~ ToReplay(k)' => ~ ToReplay(k)
      <4>1. ASSUME NEW i \in 1..Len(wal), i > replayed, wal[i].key = k
            PROVE  i > replayed'
        BY <1>0, <2>1, <2>6, <4>1
      <4> QED BY <2>1, <4>1 DEF ToReplay
    <3> HIDE DEF e
    <3>2. pend'[k] = pend[k]
      BY <1>0, <2>1, <2>3, <2>6 DEF Ops
    <3>3. view(k)' = view(k)
      BY <1>2, <3>2 DEF view
    <3> QED BY <1>0, <1>2, <2>1, <2>4, <3>1, <3>3 DEF Shows, InSight, Kept
  <2> QED BY <2>5, <2>6
<1>5. CASE LoadCheckpoint /\ pending(pend) # {}
  <2>1. UNCHANGED <<disk, wal, mode, replayed, pend, client, early>>
    BY <1>1, <1>5 DEF LoadCheckpoint
  <2> QED BY <2>1, ShowFrame
<1>6. CASE LoadCheckpoint /\ pending(pend) = {}
  <2>1. /\ mode = "loading" /\ replayed = Len(wal) /\ wal' = <<>> /\ pend' = pend
        /\ pend[k] = NotPending
    BY <1>6 DEF LoadCheckpoint, pending
  <2>2. ~ ToReplay(k)
    BY <1>0, <2>1 DEF ToReplay
  <2>3. k \notin early => recovered(wal, disk, k) = fileValue(disk, k)
    BY <1>0, <2>1, <2>2 DEF Shows, InSight, view, Known
  <2>4. recovered(wal', disk', k) = fileValue(disk', k)
    <3>1. wal' \in Seq(Entry) /\ ~ Logged(k)'
      BY <2>1 DEF Logged
    <3> QED BY <3>1, NotLogged DEF Logged
  <2>5. view(k)' = fileValue(disk, k)
    BY <1>2, <2>1 DEF view
  <2> QED BY <1>2, <2>3, <2>4, <2>5 DEF Shows, Kept
<1> QED BY <1>3, <1>4, <1>5, <1>6 DEF LoadStep

LEMMA EndsShow ==
    ASSUME ShowInv, Crash \/ MapRace, NEW k \in Key
    PROVE  Shows(k)' /\ Kept(k)
<1>0. FileInv /\ CtlInv /\ disk \in Disk
  BY DEF ShowInv, FileInv, CtlInv, Stored
<1>1. /\ Down /\ wal' = wal /\ early' = early
      /\ \/ disk' = disk
         \/ batch # NoBatch /\ disk' = writeKeyFile(disk, batch.key, Torn)
         \/ inIndex /\ disk' = [disk EXCEPT !.sk[batch.sk] = Torn]
  BY DEF Crash, MapRace, inFile, rewrites, history
<1>2. Known(k) => Logged(k) \/ fileValue(disk', k) = fileValue(disk, k)
  <2>1. CASE disk' = disk
    BY <2>1 DEF fileValue, exists
  <2>2. CASE batch # NoBatch /\ disk' = writeKeyFile(disk, batch.key, Torn)
    <3>1. batch.key \in Key /\ pend[batch.key] \in Op
      BY <1>0, <2>2, AtKey
    <3>2. Known(batch.key) => Logged(batch.key)
      BY <1>0, <2>2, FlushLogged
    <3>3. k # batch.key => fileValue(disk', k) = fileValue(disk, k)
      BY <1>0, <2>2, <3>1, FileWritten
    <3> QED BY <3>2, <3>3
  <2>3. CASE inIndex /\ disk' = [disk EXCEPT !.sk[batch.sk] = Torn]
    <3>1. disk'.key = disk.key
      BY <1>0, <2>3 DEF Disk
    <3> QED BY <3>1, SameFiles
  <2> QED BY <1>1, <2>1, <2>2, <2>3
<1> QED BY <1>1, <1>2, ShowDown

\* The keys with an operation that is not in the files are left out from now.
LEMMA SaveShow ==
    ASSUME ShowInv, SaveLastSeq, NEW k \in Key
    PROVE  Shows(k)' /\ (k \notin early' => Kept(k))
<1>0. FileInv /\ CtlInv /\ Shows(k)
  BY DEF ShowInv, FileInv
<1>1. /\ ckpt = "flushed" /\ wal' = <<>> /\ early' = early \cup {x \in Key : unwritten(x)}
      /\ UNCHANGED <<disk, mode, pend, client>>
  BY DEF SaveLastSeq
<1>2. wal' \in Seq(Entry) /\ ~ Logged(k)' /\ mode = "up"
  BY <1>0, <1>1 DEF Logged, CtlInv, Control
<1>3. recovered(wal', disk', k) = fileValue(disk', k)
  BY <1>2, NotLogged DEF Logged
<1>4. ASSUME k \notin early'
      PROVE  /\ ~ atHand(k)' /\ view(k)' = recovered(wal', disk', k)
             /\ recovered(wal', disk', k) = recovered(wal, disk, k)
  <2>1. k \notin early /\ pend[k] = NotPending /\ ~ atHand(k)
    BY <1>1, <1>4 DEF unwritten
  <2>2. view(k) = fileValue(disk, k) /\ view(k) = recovered(wal, disk, k)
    BY <1>0, <1>2, <2>1 DEF view, Shows, Known, InSight
  <2>3. /\ view(k)' = view(k) /\ fileValue(disk', k) = fileValue(disk, k)
        /\ atHand(k)' = atHand(k)
    BY <1>1 DEF view, fileValue, exists, atHand
  <2> QED BY <1>3, <2>1, <2>2, <2>3
<1> QED BY <1>2, <1>4 DEF Shows, Known, Kept

LEMMA QuietShow ==
    ASSUME ShowInv, NEW k \in Key,
           \/ CreateTable \/ TaskFlush \/ CheckpointFlush \/ Lock \/ LockWaits
           \/ \E s \in Sk : GetBySk(s)
           \/ ReadIndex \/ Answer \/ RLock \/ RUnlock
           \/ \E x \in Key : ReadItem(x)
           \/ \E x \in Key : Get(x)
    PROVE  Shows(k)' /\ Kept(k)
<1>0. CtlInv /\ Idle.at = "idle"
  BY DEF ShowInv, FileInv, Idle
<1>1. UNCHANGED <<disk, wal, mode, replayed, pend, early>>
  BY DEF CreateTable, TaskFlush, CheckpointFlush, Lock, LockWaits, GetBySk, ReadIndex,
         Answer, RLock, RUnlock, ReadItem, Get, history
<1>2. CASE CreateTable \/ TaskFlush \/ CheckpointFlush \/ Lock \/ LockWaits
  <2>1. client' = client
    BY <1>2 DEF CreateTable, TaskFlush, CheckpointFlush, Lock, LockWaits
  <2> QED BY <1>1, <2>1, ShowFrame
<1>3. CASE \/ \E s \in Sk : GetBySk(s)
           \/ ReadIndex \/ Answer \/ RLock \/ RUnlock
           \/ \E x \in Key : Get(x)
  <2>1. client.at # "logged" /\ client'.at # "logged"
    BY <1>0, <1>3 DEF GetBySk, ReadIndex, Answer, RLock, RUnlock, Get, mayStart
  <2> QED BY <1>1, <2>1, ShowFrame
<1>4. ASSUME NEW x \in Key, ReadItem(x)
      PROVE  Shows(k)' /\ Kept(k)
  <2>1. client.at # "logged" /\ client'.at # "logged"
    BY <1>0, <1>4, ItemRead
  <2> QED BY <1>1, <2>1, ShowFrame
<1> QED BY <1>2, <1>3, <1>4

LEMMA StepShow ==
    ASSUME ShowInv, [Next]_vars, NEW k \in Key
    PROVE  /\ Shows(k)'
           /\ \/ k \notin early' => Kept(k)
              \/ \E r \in requests : LogRequest(r)
<1>1. ASSUME NEW r \in requests, LogRequest(r) PROVE Shows(k)'
  BY <1>1, LogShow
<1>2. CASE Merge
  BY <1>2, MergeShow
<1>3. CASE SetFile \/ DelFile \/ SetIndex \/ DelIndex
  BY <1>3, SetFileShow, DelFileShow, IndexShow
<1>4. CASE \/ CreateTable \/ TaskFlush \/ CheckpointFlush \/ Lock \/ LockWaits
           \/ \E s \in Sk : GetBySk(s)
           \/ ReadIndex \/ Answer \/ RLock \/ RUnlock
           \/ \E x \in Key : ReadItem(x)
           \/ \E x \in Key : Get(x)
  BY <1>4, QuietShow
<1>5. CASE LoadStep
  BY <1>5, LoadShow
<1>6. CASE Crash \/ MapRace
  BY <1>6, EndsShow
<1>7. CASE SaveLastSeq
  BY <1>7, SaveShow
<1>8. CASE UNCHANGED vars
  <2>1. UNCHANGED <<disk, wal, mode, replayed, pend, client, early>>
    BY <1>8 DEF vars, history
  <2> QED BY <2>1, ShowFrame
<1> QED BY <1>1, <1>2, <1>3, <1>4, <1>5, <1>6, <1>7, <1>8 DEF Next, FlushStep

LEMMA ShowHolds == Spec => []ShowInv
<1>1. Init => ShowInv
  <2> SUFFICES ASSUME Init PROVE ShowInv
    OBVIOUS
  <2>1. FileInv
    BY InitFile
  <2>2. mode = "down" /\ replayed = 0 /\ client = Idle
    BY DEF Init
  <2>3. \A k \in Key : Shows(k)
    BY <2>2 DEF Shows, atHand, InSight, Idle
  <2> QED BY <2>1, <2>2, <2>3 DEF ShowInv
<1>2. ShowInv /\ [Next]_vars => ShowInv'
  <2> SUFFICES ASSUME ShowInv, [Next]_vars PROVE ShowInv'
    OBVIOUS
  <2>1. FileInv'
    BY NextFile DEF ShowInv
  <2>2. \A k \in Key : Shows(k)'
    BY StepShow
  <2> QED BY <2>1, <2>2 DEF ShowInv
<1> QED BY <1>1, <1>2, PTL DEF Spec

\* What WriteBatcher.Get answers for a key of a running node is what Load would
\* bring back after a crash at that moment, once the request at hand has been
\* merged (write_batcher.go:317): no flush that fails in the middle, no torn
\* file and no replay leaves an older value in sight.  Left out are, without
\* DeferWrites, a key whose flush is under way or has failed, and a key with an
\* operation that a checkpoint covered before it was in the files.
THEOREM AnswersAreDurable == Spec => []CurrentIsDurable
<1>1. ShowInv => CurrentIsDurable
  <2> SUFFICES ASSUME ShowInv, mode = "up", client.at # "logged", NEW k \in Key \ early,
                      defer \/ pend[k] = NotPending
               PROVE  recovered(wal, disk, k) = IF current(k) = Torn THEN None ELSE current(k)
    BY DEF CurrentIsDurable
  <2>1. Shows(k) /\ InSight(k) /\ disk \in Disk /\ pend \in Ops
    BY DEF ShowInv, InSight, atHand, FileInv, CtlInv, Stored, Memory
  <2>2. recovered(wal, disk, k) = view(k)
    BY <2>1 DEF Shows, Known
  <2>3. pend[k] \in Op \cup {NotPending} /\ disk.key[k] \in Op \cup {Torn}
    BY <2>1 DEF Disk, Ops
  <2>4. CASE pend[k] # NotPending
    <3>1. view(k) = pend[k] /\ current(k) = pend[k] /\ pend[k] # Torn
      BY <2>3, <2>4, NoItems DEF view, current
    <3> QED BY <2>2, <3>1
  <2>5. CASE pend[k] = NotPending
    <3>1. view(k) = fileValue(disk, k) /\ current(k) = disk.key[k]
      BY <2>5 DEF view, current
    <3>2. fileValue(disk, k) = IF disk.key[k] = Torn THEN None ELSE disk.key[k]
      BY <2>3, NoItems DEF fileValue, exists, Op
    <3> QED BY <2>2, <3>1, <3>2
  <2> QED BY <2>4, <2>5
<1> QED BY <1>1, ShowHolds, PTL

-----------------------------------------------------------------------------
(* The refinement *)

LEMMA TableInit == Init => TableMap!Init
<1> SUFFICES ASSUME Init PROVE TableMap!Init
  OBVIOUS
<1>1. wal = <<>> /\ ops = 0 /\ disk.key = [k \in Key |-> None]
  BY DEF Init
<1>2. ASSUME NEW k \in Key PROVE recovered(wal, disk, k) = None
  <2>1. wal \in Seq(Entry) /\ ~ \E i \in 1..Len(wal) : wal[i].key = k
    BY <1>1
  <2>2. recovered(wal, disk, k) = fileValue(disk, k)
    BY <2>1, NotLogged
  <2> QED BY <1>1, <2>2 DEF fileValue, exists
<1>3. Contents = [t \in {"table"} |-> [k \in Key |-> None]]
  BY <1>2 DEF Contents
<1> QED BY <1>1, <1>3 DEF TableMap!Init

\* A request is one write of the map.
LEMMA RequestWrites ==
    ASSUME ShowInv, NEW r \in requests, LogRequest(r)
    PROVE  TableMap!Write("table", DOMAIN r)
<1> DEFINE ks == DOMAIN r
<1>1. ks # {} /\ r \in Batches /\ ks \subseteq Key
  BY BatchesType DEF requests
<1>2. r \in [ks -> Item \cup {None}]
  <2>1. PICK S \in SUBSET Key : r \in [S -> Op]
    BY <1>1 DEF Batches
  <2> QED BY <2>1 DEF Op
<1>3. ops' = ops + Cardinality(ks)
  <2>1. ops' = ops + Len(SetToSeq(ks))
    BY DEF LogRequest
  <2>2. Len(SetToSeq(ks)) = Cardinality(ks)
    BY LogsItems
  <2> QED BY <2>1, <2>2
<1>4. TableMap!Cardinality(ks) = Cardinality(ks)
  BY DEF TableMap!Cardinality, Cardinality
<1>5. \A k \in Key : recovered(wal', disk', k) =
                      IF k \in ks THEN r[k] ELSE recovered(wal, disk, k)
  BY LogShow
<1>6. Contents' = [Contents EXCEPT !["table"] =
                      [k \in Key |-> IF k \in ks THEN r[k] ELSE @[k]]]
  <2>1. Contents' = [t \in {"table"} |-> [k \in Key |-> recovered(wal', disk', k)]]
    BY DEF Contents
  <2>2. [k \in Key |-> recovered(wal', disk', k)] =
        [k \in Key |-> IF k \in ks THEN r[k] ELSE recovered(wal, disk, k)]
    BY <1>5
  <2> QED BY <2>1, <2>2 DEF Contents
<1> HIDE DEF ks
<1>7. \E items \in [ks -> Item \cup {None}] :
         Contents' = [Contents EXCEPT !["table"] =
                         [k \in Key |-> IF k \in ks THEN items[k] ELSE @[k]]]
  BY <1>2, <1>6
<1>8. TableMap!Write("table", ks)
  BY <1>1, <1>3, <1>4, <1>7, Zenon DEF TableMap!Write
<1> QED BY <1>8 DEF ks

LEMMA OpsCount ==
    ASSUME ShowInv, [Next]_vars
    PROVE  ops' = ops \/ \E r \in requests : LogRequest(r)
BY DEF Next, FlushStep, LoadStep, Merge, CreateTable, TaskFlush, CheckpointFlush,
       SaveLastSeq, Lock, LockWaits, SetFile, DelFile, SetIndex, DelIndex, GetBySk,
       ReadIndex, ReadItem, Answer, Get, RLock, RUnlock, Load, Replay, LoadCheckpoint,
       Crash, MapRace, bounds, vars

LEMMA TableStep ==
    ShowInv /\ [Next]_vars =>
        (early = {} /\ early' = {} => [TableMap!Next]_(TableMap!vars))
<1> SUFFICES ASSUME ShowInv, [Next]_vars, early = {}, early' = {}
             PROVE  TableMap!Next \/ (Contents' = Contents /\ ops' = ops)
  BY DEF TableMap!vars
<1>1. ASSUME NEW r \in requests, LogRequest(r) PROVE TableMap!Next
  <2>1. TableMap!Write("table", DOMAIN r)
    BY <1>1, RequestWrites
  <2>2. DOMAIN r \in SUBSET Key
    BY BatchesType DEF requests
  <2> QED BY <2>1, <2>2 DEF TableMap!Next
<1>2. CASE ~ \E r \in requests : LogRequest(r)
  <2>1. ops' = ops
    BY <1>2, OpsCount
  <2>2. \A k \in Key : recovered(wal', disk', k) = recovered(wal, disk, k)
    BY <1>2, StepShow DEF Kept
  <2>3. [k \in Key |-> recovered(wal', disk', k)] = [k \in Key |-> recovered(wal, disk, k)]
    BY <2>2
  <2> QED BY <2>1, <2>3 DEF Contents
<1> QED BY <1>1, <1>2

\* One table of the store (base.go under write_batcher.go) implements the map
\* of Store: a logged request is one write of it, and no flush, failed flush,
\* crash between or inside the writes of a file, recovery or checkpoint changes
\* what a restart would bring back, except where a checkpoint saves a LastSeq
\* that is ahead of the files (wal.go:290).
THEOREM TableRefinement == Spec => ImplementsTable
<1>1. ShowInv /\ [Next]_vars =>
          [early = {} /\ early' = {} => [TableMap!Next]_(TableMap!vars)]_vars
  BY TableStep
<1> QED BY <1>1, TableInit, ShowHolds, PTL DEF ImplementsTable, Spec

-----------------------------------------------------------------------------
(* Bulk operations and the same operations one by one *)

Operation == [key : Key, item : Op]

\* What one operation after the other leaves of d.
Run(d, es, f) ==
    /\ f = [n \in DOMAIN f |-> IF n = 0 THEN d ELSE doOne(f[n - 1], es[n])]
    /\ DOMAIN f = 0..Len(es)

LEMMA RunExists ==
    ASSUME NEW d, NEW es \in Seq(Operation)
    PROVE  \E f : Run(d, es, f) /\ doAll(d, es) = f[Len(es)]
<1> DEFINE upTo(N, f) == f = [n \in 0..N |-> IF n = 0 THEN d ELSE doOne(f[n - 1], es[n])]
           S == {N \in 0..Len(es) : ~ \E f : upTo(N, f)}
<1>1. Len(es) \in Nat
  OBVIOUS
<1>2. \E f : upTo(Len(es), f)
  <2> SUFFICES ASSUME S # {} PROVE FALSE
    BY <1>1
  <2>1. S \in SUBSET Nat
    BY <1>1
  <2>2. PICK N \in S : \A y \in S : N <= y
    <3> HIDE DEF S
    <3> QED BY <2>1, LeastNatural
  <2>3. N \in Nat /\ N <= Len(es) /\ ~ \E f : upTo(N, f)
    BY <1>1
  <2>4. N # 0
    <3>1. upTo(0, [n \in 0..0 |-> d])
      OBVIOUS
    <3> QED BY <2>3, <3>1
  <2>5. N - 1 \in 0..Len(es) /\ N - 1 \notin S
    BY <1>1, <2>2, <2>3, <2>4
  <2>6. PICK f : upTo(N - 1, f)
    BY <2>5
  <2> DEFINE g == [n \in 0..N |-> IF n = 0 THEN d ELSE doOne(f[n - 1], es[n])]
  <2>7. \A n \in 0..(N - 1) : g[n] = f[n]
    <3>1. \A n \in 0..(N - 1) : n \in 0..N
      BY <2>3
    <3> QED BY <2>6, <3>1
  <2>8. \A n \in 0..N : n # 0 => n - 1 \in 0..(N - 1)
    BY <2>3
  <2>9. upTo(N, g)
    <3>1. \A n \in 0..N : g[n] = IF n = 0 THEN d ELSE doOne(g[n - 1], es[n])
      BY <2>7, <2>8
    <3> QED BY <3>1
  <2> QED BY <2>3, <2>9
<1> DEFINE c == CHOOSE f : upTo(Len(es), f)
<1>3. upTo(Len(es), c)
  BY <1>2, Zenon
<1>4. doAll(d, es) = c[Len(es)]
  BY DEF doAll
<1>5. DOMAIN c = 0..Len(es)
  <2> HIDE DEF c
  <2> QED BY <1>3
<1>6. Run(d, es, c)
  <2> HIDE DEF c
  <2> QED BY <1>3, <1>5 DEF Run
<1> QED BY <1>4, <1>6

\* Files of which every index can be read.
Whole == [key : [Key -> Op \cup {Torn}], sk : [Sk -> SUBSET Key]]

LEMMA SetOne ==
    ASSUME NEW d \in Whole, NEW e \in Entities
    PROVE  LET g == doOne(d, e) IN
           /\ g \in Whole /\ g.key = [d.key EXCEPT ![e.key] = e.item]
           /\ \A s \in Sk, k \in Key :
                k \in g.sk[s] <=> k \in d.sk[s] \/ e = [key |-> k, item |-> s]
<1> DEFINE w == writeKeyFile(d, e.key, e.item)
           g == doOne(d, e)
<1>0. /\ d.key \in [Key -> Op \cup {Torn}] /\ d.sk \in [Sk -> SUBSET Key]
      /\ e.key \in Key /\ e.item \in Item /\ e = [key |-> e.key, item |-> e.item]
  BY DEF Whole, Entities
<1>1. g = setOne(d, e)
  BY <1>0, NoItems DEF doOne
<1>2. w \in Whole /\ w.key = [d.key EXCEPT ![e.key] = e.item] /\ w.sk = d.sk
  BY <1>0 DEF writeKeyFile, Whole, Op
<1>3. CASE e.item = NoSk
  <2>1. g = w
    BY <1>1, <1>3 DEF setOne
  <2>2. \A s \in Sk, k \in Key : e # [key |-> k, item |-> s]
    BY <1>3, NoItems
  <2> HIDE DEF g, w
  <2> QED BY <1>2, <2>1, <2>2 DEF g
<1>4. CASE e.item # NoSk
  <2>0. e.item \in Sk
    BY <1>0, <1>4 DEF Item
  <2> DEFINE x == d.sk[e.item] \cup {e.key}
  <2>1. g = [w EXCEPT !.sk[e.item] = x]
    BY <1>1, <1>2, <1>4 DEF setOne, appendKeysToSk
  <2>2. x \in SUBSET Key
    BY <1>0, <2>0
  <2> HIDE DEF g, w, x
  <2>3. g \in Whole /\ g.key = w.key /\ g.sk = [d.sk EXCEPT ![e.item] = x]
    BY <1>2, <2>0, <2>1, <2>2 DEF Whole
  <2>4. ASSUME NEW s \in Sk, NEW k \in Key
        PROVE  k \in g.sk[s] <=> k \in d.sk[s] \/ e = [key |-> k, item |-> s]
    <3>1. CASE s = e.item
      <4>1. g.sk[s] = x
        BY <1>0, <2>3, <3>1
      <4>2. e = [key |-> k, item |-> s] <=> e.key = k
        BY <1>0, <3>1
      <4> QED BY <3>1, <4>1, <4>2 DEF x
    <3>2. CASE s # e.item
      <4>1. g.sk[s] = d.sk[s]
        BY <1>0, <2>3, <3>2
      <4>2. e # [key |-> k, item |-> s]
        BY <3>2
      <4> QED BY <4>1, <4>2
    <3> QED BY <3>1, <3>2
  <2> QED BY <1>2, <2>3, <2>4 DEF g
<1> QED BY <1>3, <1>4

\* g is what the first n of the entities leave of d.
SetUpTo(d, es, n, g) ==
    /\ g \in Whole
    /\ \A k \in Key : (\A i \in 1..n : es[i].key # k) => g.key[k] = d.key[k]
    /\ \A k \in Key, i \in 1..n :
         es[i].key = k /\ (\A j \in (i + 1)..n : es[j].key # k) => g.key[k] = es[i].item
    /\ \A s \in Sk, k \in Key :
         k \in g.sk[s] <=> k \in d.sk[s] \/ \E i \in 1..n : es[i] = [key |-> k, item |-> s]

LEMMA SetNext ==
    ASSUME NEW d, NEW es \in Seq(Entities), NEW n \in Nat, n + 1 <= Len(es),
           NEW g, SetUpTo(d, es, n, g)
    PROVE  SetUpTo(d, es, n + 1, doOne(g, es[n + 1]))
<1> DEFINE e == es[n + 1]
           h == doOne(g, e)
<1>0. Len(es) \in Nat /\ n + 1 \in 1..Len(es)
  OBVIOUS
<1>1. e \in Entities /\ g \in Whole
  BY <1>0 DEF SetUpTo
<1>2. e.key \in Key /\ g.key \in [Key -> Op \cup {Torn}]
  BY <1>1 DEF Entities, Whole
<1>3. /\ h \in Whole /\ h.key = [g.key EXCEPT ![e.key] = e.item]
      /\ \A s \in Sk, k \in Key :
           k \in h.sk[s] <=> k \in g.sk[s] \/ e = [key |-> k, item |-> s]
  BY <1>1, SetOne
<1>4. \A i \in 1..(n + 1) : i \in 1..n \/ i = n + 1
  OBVIOUS
<1>5. \A i \in 1..n : i \in 1..(n + 1) /\ n + 1 \in (i + 1)..(n + 1)
  OBVIOUS
<1>6. n + 1 \in 1..(n + 1)
  OBVIOUS
<1> HIDE DEF h
<1>7. ASSUME NEW k \in Key, \A i \in 1..(n + 1) : es[i].key # k
      PROVE  h.key[k] = d.key[k]
  <2>1. e.key # k /\ \A i \in 1..n : es[i].key # k
    BY <1>5, <1>6, <1>7
  <2>2. g.key[k] = d.key[k]
    BY <2>1 DEF SetUpTo
  <2> QED BY <1>2, <1>3, <2>1, <2>2
<1>8. ASSUME NEW k \in Key, NEW i \in 1..(n + 1), es[i].key = k,
             \A j \in (i + 1)..(n + 1) : es[j].key # k
      PROVE  h.key[k] = es[i].item
  <2>1. CASE i = n + 1
    BY <1>2, <1>3, <1>8, <2>1
  <2>2. CASE i \in 1..n
    <3>1. e.key # k
      BY <1>5, <1>8, <2>2
    <3>2. \A j \in (i + 1)..n : j \in (i + 1)..(n + 1)
      BY <2>2
    <3>3. \A j \in (i + 1)..n : es[j].key # k
      BY <1>8, <3>2
    <3>4. g.key[k] = es[i].item
      BY <1>8, <2>2, <3>3 DEF SetUpTo
    <3> QED BY <1>2, <1>3, <3>1, <3>4
  <2> QED BY <1>4, <2>1, <2>2
<1>9. ASSUME NEW s \in Sk, NEW k \in Key
      PROVE  k \in h.sk[s] <=>
               k \in d.sk[s] \/ \E i \in 1..(n + 1) : es[i] = [key |-> k, item |-> s]
  <2>1. k \in g.sk[s] <=> k \in d.sk[s] \/ \E i \in 1..n : es[i] = [key |-> k, item |-> s]
    BY DEF SetUpTo
  <2> QED BY <1>3, <1>4, <1>5, <1>6, <2>1
<1>10. SetUpTo(d, es, n + 1, h)
  BY <1>3, <1>7, <1>8, <1>9 DEF SetUpTo
<1> QED BY <1>10 DEF h

\* The entities one after the other, to the last.
LEMMA SetAll ==
    ASSUME NEW d \in Whole, NEW es \in Seq(Entities)
    PROVE  SetUpTo(d, es, Len(es), doAll(d, es))
<1>0. Len(es) \in Nat /\ es \in Seq(Operation)
  <2>1. \A e \in Entities : e \in Operation
    BY DEF Entities, Operation, Op
  <2>2. \A i \in 1..Len(es) : es[i] \in Operation
    BY <2>1
  <2> QED BY <2>2
<1>1. PICK f : Run(d, es, f) /\ doAll(d, es) = f[Len(es)]
  BY <1>0, RunExists
<1>2. /\ f[0] = d /\ \A n \in 1..Len(es) : f[n] = doOne(f[n - 1], es[n])
  BY <1>0, <1>1 DEF Run
<1> DEFINE S == {n \in 0..Len(es) : ~SetUpTo(d, es, n, f[n])}
<1>3. S = {}
  <2> SUFFICES ASSUME S # {} PROVE FALSE
    OBVIOUS
  <2>1. S \in SUBSET Nat
    BY <1>0
  <2>2. PICK n \in S : \A y \in S : n <= y
    <3> HIDE DEF S
    <3> QED BY <2>1, LeastNatural
  <2>3. n \in Nat /\ n <= Len(es) /\ ~SetUpTo(d, es, n, f[n])
    BY <1>0
  <2>4. n # 0
    <3>1. SetUpTo(d, es, 0, d)
      BY DEF SetUpTo
    <3> QED BY <1>2, <2>3, <3>1
  <2>5. n - 1 \in Nat /\ n - 1 \in 0..Len(es) /\ ~ (n <= n - 1) /\ (n - 1) + 1 = n
        /\ n \in 1..Len(es)
    BY <1>0, <2>3, <2>4
  <2>6. SetUpTo(d, es, n - 1, f[n - 1])
    BY <2>2, <2>5
  <2>7. SetUpTo(d, es, (n - 1) + 1, doOne(f[n - 1], es[(n - 1) + 1]))
    <3> HIDE DEF S
    <3> QED BY <2>3, <2>5, <2>6, SetNext
  <2> QED BY <1>2, <2>3, <2>5, <2>7
<1> QED BY <1>0, <1>1, <1>3

\* BulkSet's last entity of a key.
LEMMA LastEntity ==
    ASSUME NEW es \in Seq(Entities), NEW k \in Key,
           \E i \in 1..Len(es) : es[i].key = k
    PROVE  \E i \in 1..Len(es) :
             /\ es[i].key = k /\ \A j \in (i + 1)..Len(es) : es[j].key # k
             /\ k \in DOMAIN dedupeByKey(es) /\ dedupeByKey(es)[k] = es[i].item
<1> DEFINE S == {i \in DOMAIN es : es[i].key = k}
           c == CHOOSE i \in S : \A j \in S : i >= j
<1>1. Len(es) \in Nat /\ DOMAIN es = 1..Len(es)
  OBVIOUS
<1>2. S \in SUBSET Nat /\ S # {} /\ \A x \in S : x <= Len(es)
  BY <1>1
<1>3. k \in DOMAIN dedupeByKey(es) /\ dedupeByKey(es)[k] = es[c].item
  <2>1. k \in {es[i].key : i \in DOMAIN es}
    BY <1>1
  <2> QED BY <2>1 DEF dedupeByKey
<1>4. c \in S /\ \A j \in S : c >= j
  <2> HIDE DEF S
  <2>1. Max(S) \in S /\ \A x \in S : x <= Max(S)
    BY <1>1, <1>2, MaxIn
  <2>2. \A x \in S : Max(S) >= x
    BY <1>2, <2>1
  <2> QED BY <2>1, <2>2, Zenon
<1> HIDE DEF c
<1>5. \A j \in (c + 1)..Len(es) : es[j].key # k
  <2> SUFFICES ASSUME NEW j \in (c + 1)..Len(es), es[j].key = k PROVE FALSE
    OBVIOUS
  <2>1. c \in Nat /\ 1 <= c
    BY <1>1, <1>4
  <2>2. j \in S
    BY <1>1, <2>1
  <2> QED BY <1>4, <2>1, <2>2
<1> QED BY <1>1, <1>3, <1>4, <1>5

\* BulkSet of any list of entities leaves the items that a Set of each would,
\* lists them all, and lists no more, on any files with readable indexes.
LEMMA SetsMatch ==
    ASSUME NEW d \in Whole, NEW es \in Seq(Entities)
    PROVE  setsMatch(d, es)
<1> DEFINE b == BulkSet(d, es)
           q == doAll(d, es)
           last == dedupeByKey(es)
           N == Len(es)
<1>0. N \in Nat /\ DOMAIN es = 1..N
  OBVIOUS
<1>1. SetUpTo(d, es, N, q)
  BY SetAll
<1>2. DOMAIN last = {es[i].key : i \in 1..N}
  BY <1>0 DEF dedupeByKey
<1>3. /\ b.key = [k \in Key |-> IF k \in DOMAIN last THEN last[k] ELSE d.key[k]]
      /\ \A s \in Sk : b.sk[s] = d.sk[s] \cup {k \in DOMAIN last : last[k] = s}
  BY DEF BulkSet
<1> HIDE DEF b, q, last, N
<1>4. ASSUME NEW k \in Key, k \in DOMAIN last
      PROVE  /\ last[k] = q.key[k]
             /\ \A s \in Sk : last[k] = s => k \in q.sk[s]
  <2>1. \E i \in 1..N : es[i].key = k
    BY <1>2, <1>4
  <2>2. PICK i \in 1..N : /\ es[i].key = k /\ \A j \in (i + 1)..N : es[j].key # k
                          /\ last[k] = es[i].item
    BY <2>1, LastEntity DEF last, N
  <2>3. q.key[k] = es[i].item
    BY <1>1, <2>2 DEF SetUpTo
  <2>4. es[i] \in Entities
    BY <1>0
  <2>5. \A s \in Sk : last[k] = s => es[i] = [key |-> k, item |-> s]
    BY <2>2, <2>4 DEF Entities
  <2> QED BY <1>1, <2>2, <2>3, <2>5 DEF SetUpTo
<1>5. ASSUME NEW k \in Key, k \notin DOMAIN last
      PROVE  q.key[k] = d.key[k]
  BY <1>1, <1>2, <1>5 DEF SetUpTo
<1>6. b.key = q.key
  <2>1. q.key \in [Key -> Op \cup {Torn}]
    BY <1>1 DEF SetUpTo, Whole
  <2>2. \A k \in Key : b.key[k] = q.key[k]
    BY <1>3, <1>4, <1>5
  <2> QED BY <1>3, <2>1, <2>2
<1>7. DOMAIN last \subseteq Key
  <2>1. \A i \in 1..N : es[i] \in Entities
    BY <1>0
  <2> QED BY <1>2, <2>1 DEF Entities
<1>8. ASSUME NEW s \in Sk
      PROVE  /\ b.sk[s] \subseteq q.sk[s]
             /\ \A k \in q.sk[s] \ b.sk[s] : b.key[k] # s
  <2>0. d.sk[s] \subseteq Key /\ q.sk[s] \subseteq Key
    BY <1>1 DEF SetUpTo, Whole
  <2>1. b.sk[s] \subseteq q.sk[s]
    <3> SUFFICES ASSUME NEW k \in b.sk[s] PROVE k \in q.sk[s]
      OBVIOUS
    <3>1. CASE k \in d.sk[s]
      BY <1>1, <2>0, <3>1 DEF SetUpTo
    <3>2. CASE k \in DOMAIN last /\ last[k] = s
      BY <1>4, <1>7, <3>2
    <3> QED BY <1>3, <3>1, <3>2
  <2>2. ASSUME NEW k \in q.sk[s] \ b.sk[s] PROVE b.key[k] # s
    <3>1. k \in Key /\ k \notin d.sk[s]
      BY <1>3, <2>0
    <3>2. PICK i \in 1..N : es[i] = [key |-> k, item |-> s]
      BY <1>1, <3>1 DEF SetUpTo
    <3>3. k \in DOMAIN last
      BY <1>2, <3>2
    <3>4. last[k] # s
      BY <1>3, <3>3
    <3> QED BY <1>3, <3>1, <3>3, <3>4
  <2> QED BY <2>1, <2>2
<1> QED BY <1>6, <1>8 DEF setsMatch, b, q

\* g is what a Del of k leaves of d.
Deleted(d, k, g) ==
    /\ g \in Whole
    /\ \A x \in Key : g.key[x] = IF x = k /\ exists(d, k) THEN None ELSE d.key[x]
    /\ \A s \in Sk, x \in Key :
         x \in g.sk[s] <=> x \in d.sk[s] /\ ~ (x = k /\ d.key[k] = s)

LEMMA DelOne ==
    ASSUME NEW d \in Whole, NEW k \in Key,
           NEW g, g = delOne(d, k)
    PROVE  Deleted(d, k, g)
<1> USE DEF Deleted
<1> DEFINE r == removeKeyFile(d, k)
<1>0. d.key \in [Key -> Op \cup {Torn}] /\ d.sk \in [Sk -> SUBSET Key]
  BY DEF Whole
<1>2. r \in Whole /\ r.key = [d.key EXCEPT ![k] = None] /\ r.sk = d.sk
  BY <1>0 DEF removeKeyFile, Whole, Op
<1>3. CASE ~exists(d, k)
  <2>1. g = d /\ \A s \in Sk : d.key[k] # s
    BY <1>3 DEF delOne, exists, Item
  <2> QED BY <1>3, <2>1
<1>4. CASE exists(d, k) /\ d.key[k] = NoSk
  <2>1. g = r /\ \A s \in Sk : d.key[k] # s
    BY <1>4, NoItems DEF delOne
  <2> HIDE DEF r
  <2> QED BY <1>0, <1>2, <1>4, <2>1
<1>5. CASE exists(d, k) /\ d.key[k] # NoSk
  <2> DEFINE t == d.key[k]
             y == d.sk[t] \ {k}
  <2>0. t \in Sk
    BY <1>5 DEF exists, Item
  <2>1. g = [r EXCEPT !.sk[t] = y]
    BY <1>2, <1>5 DEF delOne, removeKeysFromSk
  <2>2. y \in SUBSET Key
    BY <1>0, <2>0
  <2> HIDE DEF r, y, t
  <2>3. g \in Whole /\ g.key = r.key /\ g.sk = [d.sk EXCEPT ![t] = y]
    BY <1>2, <2>0, <2>1, <2>2 DEF Whole
  <2>4. ASSUME NEW s \in Sk, NEW x \in Key
        PROVE  x \in g.sk[s] <=> x \in d.sk[s] /\ ~ (x = k /\ t = s)
    <3>1. CASE s = t
      <4>1. g.sk[s] = y
        BY <1>0, <2>3, <3>1
      <4> QED BY <3>1, <4>1 DEF y
    <3>2. CASE s # t
      <4>1. g.sk[s] = d.sk[s]
        BY <1>0, <2>3, <3>2
      <4> QED BY <3>2, <4>1
    <3> QED BY <3>1, <3>2
  <2> QED BY <1>0, <1>2, <1>5, <2>3, <2>4 DEF t
<1> QED BY <1>3, <1>4, <1>5

\* k is one of the first n keys of l and has an item in d.
Victim(d, l, n, k) == exists(d, k) /\ \E i \in 1..n : l[i] = k

\* g is what a Del of the first n keys of l leaves of d.
DelUpTo(d, l, n, g) ==
    /\ g \in Whole
    /\ \A k \in Key : g.key[k] = IF Victim(d, l, n, k) THEN None ELSE d.key[k]
    /\ \A s \in Sk, k \in Key :
         k \in g.sk[s] <=> k \in d.sk[s] /\ ~ (Victim(d, l, n, k) /\ d.key[k] = s)

LEMMA DelNext ==
    ASSUME NEW d \in Whole, NEW l \in Seq(Key), NEW n \in Nat, n + 1 <= Len(l),
           NEW g, DelUpTo(d, l, n, g)
    PROVE  DelUpTo(d, l, n + 1, doOne(g, [key |-> l[n + 1], item |-> None]))
<1> DEFINE x == l[n + 1]
           h == doOne(g, [key |-> x, item |-> None])
<1>0. Len(l) \in Nat /\ n + 1 \in 1..Len(l)
  OBVIOUS
<1>1. x \in Key /\ g \in Whole /\ g.key \in [Key -> Op \cup {Torn}]
  BY <1>0 DEF DelUpTo, Whole
<1> HIDE DEF x
<1>2. /\ h \in Whole
      /\ \A k \in Key : h.key[k] = IF k = x /\ exists(g, x) THEN None ELSE g.key[k]
      /\ \A s \in Sk, k \in Key :
           k \in h.sk[s] <=> k \in g.sk[s] /\ ~ (k = x /\ g.key[x] = s)
  <2>1. h = delOne(g, x)
    BY DEF doOne
  <2> HIDE DEF h
  <2>2. Deleted(g, x, h)
    BY <1>1, <2>1, DelOne, Zenon
  <2> QED BY <2>2 DEF Deleted, exists
<1> HIDE DEF h
<1>3. \A i \in 1..(n + 1) : i \in 1..n \/ i = n + 1
  OBVIOUS
<1>4. n + 1 \in 1..(n + 1) /\ \A i \in 1..n : i \in 1..(n + 1)
  OBVIOUS
<1>5. \A k \in Key : Victim(d, l, n + 1, k) <=> Victim(d, l, n, k) \/ (k = x /\ exists(d, k))
  BY <1>3, <1>4 DEF Victim, x
<1>6. \A k \in Key : g.key[k] = IF Victim(d, l, n, k) THEN None ELSE d.key[k]
  BY DEF DelUpTo
<1>7. exists(g, x) <=> exists(d, x) /\ ~Victim(d, l, n, x)
  BY <1>1, <1>6, NoItems DEF exists
<1>8. ASSUME NEW k \in Key
      PROVE  h.key[k] = IF Victim(d, l, n + 1, k) THEN None ELSE d.key[k]
  <2>1. CASE k = x
    <3>1. h.key[k] = IF exists(g, x) THEN None ELSE g.key[x]
      BY <1>1, <1>2, <2>1
    <3> QED BY <1>1, <1>5, <1>6, <1>7, <2>1, <3>1 DEF Victim
  <2>2. CASE k # x
    <3>1. h.key[k] = g.key[k]
      BY <1>1, <1>2, <2>2
    <3> QED BY <1>5, <1>6, <2>2, <3>1
  <2> QED BY <2>1, <2>2
<1>9. ASSUME NEW s \in Sk, NEW k \in Key
      PROVE  k \in h.sk[s] <=>
               k \in d.sk[s] /\ ~ (Victim(d, l, n + 1, k) /\ d.key[k] = s)
  <2>1. k \in g.sk[s] <=> k \in d.sk[s] /\ ~ (Victim(d, l, n, k) /\ d.key[k] = s)
    BY DEF DelUpTo
  <2>2. s # None /\ s \in Item
    BY NoItems DEF Item
  <2>3. CASE k = x
    <3>1. g.key[x] = s <=> d.key[k] = s /\ ~Victim(d, l, n, k)
      BY <1>1, <1>6, <2>2, <2>3
    <3>2. d.key[k] = s => exists(d, k)
      BY <2>2 DEF exists
    <3> QED BY <1>2, <1>5, <2>1, <2>3, <3>1, <3>2
  <2>4. CASE k # x
    BY <1>2, <1>5, <2>1, <2>4
  <2> QED BY <2>3, <2>4
<1>10. DelUpTo(d, l, n + 1, h)
  BY <1>2, <1>8, <1>9 DEF DelUpTo
<1> QED BY <1>10 DEF h, x

LEMMA DelAll ==
    ASSUME NEW d \in Whole, NEW l \in Seq(Key)
    PROVE  DelUpTo(d, l, Len(l), doAll(d, deletes(l)))
<1> DEFINE es == deletes(l)
           N == Len(l)
<1>0. N \in Nat /\ DOMAIN l = 1..N
  OBVIOUS
<1>1. /\ es \in [1..N -> Operation]
      /\ \A i \in 1..N : es[i] = [key |-> l[i], item |-> None]
  <2>1. \A i \in 1..N : [key |-> l[i], item |-> None] \in Operation
    BY <1>0 DEF Operation, Op
  <2>2. es = [i \in 1..N |-> [key |-> l[i], item |-> None]]
    BY <1>0 DEF deletes
  <2> QED BY <2>1, <2>2
<1>2. es \in Seq(Operation) /\ Len(es) = N
  <2> HIDE DEF es, N
  <2> QED BY <1>0, <1>1
<1> HIDE DEF es, N
<1>3. PICK f : Run(d, es, f) /\ doAll(d, es) = f[N]
  BY <1>2, RunExists
<1>4. /\ f[0] = d
      /\ \A n \in 1..N : f[n] = doOne(f[n - 1], [key |-> l[n], item |-> None])
  <2>1. DOMAIN f = 0..N /\ 0 \in 0..N /\ \A n \in 1..N : n \in 0..N /\ n # 0
    BY <1>0, <1>2, <1>3 DEF Run
  <2>2. \A n \in 0..N : f[n] = IF n = 0 THEN d ELSE doOne(f[n - 1], es[n])
    BY <1>3, <2>1, Zenon DEF Run
  <2> QED BY <1>1, <2>1, <2>2
<1> DEFINE S == {n \in 0..N : ~DelUpTo(d, l, n, f[n])}
<1>5. S = {}
  <2> SUFFICES ASSUME S # {} PROVE FALSE
    OBVIOUS
  <2>1. S \in SUBSET Nat
    BY <1>0
  <2>2. PICK n \in S : \A y \in S : n <= y
    <3> HIDE DEF S
    <3> QED BY <2>1, LeastNatural
  <2>3. n \in Nat /\ n <= N /\ ~DelUpTo(d, l, n, f[n])
    BY <1>0
  <2>4. n # 0
    <3>1. DelUpTo(d, l, 0, d)
      BY DEF DelUpTo, Victim
    <3> QED BY <1>4, <2>3, <3>1
  <2>5. n - 1 \in Nat /\ n - 1 \in 0..N /\ ~ (n <= n - 1) /\ (n - 1) + 1 = n
        /\ n \in 1..N
    BY <1>0, <2>3, <2>4
  <2>6. DelUpTo(d, l, n - 1, f[n - 1])
    BY <2>2, <2>5
  <2>7. DelUpTo(d, l, (n - 1) + 1,
                doOne(f[n - 1], [key |-> l[(n - 1) + 1], item |-> None]))
    <3> HIDE DEF S
    <3> QED BY <2>3, <2>5, <2>6, DelNext DEF N
  <2> QED BY <1>4, <2>3, <2>5, <2>7
<1>6. DelUpTo(d, l, N, f[N])
  BY <1>0, <1>5
<1> QED BY <1>3, <1>6 DEF es, N

\* BulkDel of any keys leaves the files that a Del of each would.
LEMMA DelsMatch ==
    ASSUME NEW d \in Whole, NEW ks \in SUBSET Key
    PROVE  delsMatch(d, ks)
<1> DEFINE l == SetToSeq(ks)
           q == doAll(d, deletes(l))
           b == BulkDel(d, ks)
<1>0. d.key \in [Key -> Op \cup {Torn}] /\ d.sk \in [Sk -> SUBSET Key]
  BY DEF Whole
<1>1. IsFiniteSet(ks)
  BY KeyFinite, FS_Subset
<1>2. /\ l \in Seq(ks) /\ Len(l) \in Nat
      /\ \A x \in ks : \E i \in 1..Len(l) : l[i] = x
  BY <1>1, SetListed
<1>3. l \in Seq(Key) /\ \A i \in 1..Len(l) : l[i] \in ks
  <2> HIDE DEF l
  <2> QED BY <1>2
<1>4. DelUpTo(d, l, Len(l), q)
  <2> HIDE DEF l
  <2> QED BY <1>3, DelAll
<1>5. \A k \in Key : Victim(d, l, Len(l), k) <=> k \in ks /\ exists(d, k)
  BY <1>2, <1>3 DEF Victim
<1> DEFINE victims == {k \in ks : exists(d, k)}
<1>6. /\ b = [key |-> [k \in Key |-> IF k \in victims THEN None ELSE d.key[k]],
              sk  |-> [s \in Sk |-> d.sk[s] \ {k \in victims : d.key[k] = s}]]
  BY DEF BulkDel
<1> HIDE DEF l, q, b
<1>7. q \in Whole
  BY <1>4 DEF DelUpTo
<1>8. q.key = [k \in Key |-> IF k \in victims THEN None ELSE d.key[k]]
  <2>1. q.key \in [Key -> Op \cup {Torn}]
    BY <1>7 DEF Whole
  <2>2. \A k \in Key : q.key[k] = IF k \in victims THEN None ELSE d.key[k]
    BY <1>4, <1>5 DEF DelUpTo
  <2> QED BY <2>1, <2>2
<1>9. q.sk = [s \in Sk |-> d.sk[s] \ {k \in victims : d.key[k] = s}]
  <2>1. q.sk \in [Sk -> SUBSET Key]
    BY <1>7 DEF Whole
  <2>2. ASSUME NEW s \in Sk
        PROVE  q.sk[s] = d.sk[s] \ {k \in victims : d.key[k] = s}
    <3>1. q.sk[s] \subseteq Key /\ d.sk[s] \subseteq Key
      BY <1>0, <2>1
    <3>2. \A k \in Key : k \in q.sk[s] <=>
             k \in d.sk[s] /\ ~ (k \in victims /\ d.key[k] = s)
      BY <1>4, <1>5 DEF DelUpTo
    <3> HIDE DEF victims
    <3> QED BY <3>1, <3>2
  <2> HIDE DEF victims
  <2> QED BY <2>1, <2>2
<1>10. q = [key |-> q.key, sk |-> q.sk]
  BY <1>7 DEF Whole
<1>11. b = q
  <2> HIDE DEF victims
  <2> QED BY <1>6, <1>8, <1>9, <1>10
<1> QED BY <1>11 DEF delsMatch, b, q, l

\* BulkSet and BulkDel, which read and write each index once for the whole
\* batch (base.go), leave what Set and Del of each element would, for batches
\* of any length with any repetitions and on any files, torn items and stale
\* index entries included, as long as every index can be read.
THEOREM BulkIsSequence ==
    ASSUME NEW d \in Whole
    PROVE  /\ \A es \in Seq(Entities) : setsMatch(d, es)
           /\ \A ks \in SUBSET Key : delsMatch(d, ks)
BY SetsMatch, DelsMatch

\* In particular on the files that any crash, flush or recovery has left.
THEOREM BulkOnAnyFiles == Spec => []BulkMatches
<1>1. TypeOK => BulkMatches
  <2> SUFFICES ASSUME TypeOK, \A s \in Sk : readable(disk, s)
               PROVE  /\ \A es \in UNION {[1..n -> Entities] : n \in 1..2} :
                            setsMatch(disk, es)
                      /\ \A ks \in SUBSET Key : delsMatch(disk, ks)
    BY DEF BulkMatches
  <2>1. disk \in Whole
    <3>1. disk \in [key : [Key -> Op \cup {Torn}], sk : [Sk -> (SUBSET Key) \cup {Torn}]]
      BY DEF TypeOK
    <3>2. \A s \in Sk : disk.sk[s] \in SUBSET Key
      BY <3>1 DEF readable
    <3> QED BY <3>1, <3>2 DEF Whole
  <2>2. ASSUME NEW es \in UNION {[1..n -> Entities] : n \in 1..2}
        PROVE  es \in Seq(Entities)
    <3>1. PICK n \in 1..2 : es \in [1..n -> Entities]
      BY <2>2
    <3> QED BY <3>1
  <2> QED BY <2>1, <2>2, BulkIsSequence
<1> QED BY TypeCorrect, <1>1, PTL
=============================================================================
