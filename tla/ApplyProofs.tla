---------------------------- MODULE ApplyProofs -----------------------------
(***************************************************************************)
(* Theorems about Apply, for any keys, commands and clients, any capacity  *)
(* of the channel and any bounds.                                          *)
(***************************************************************************)
EXTENDS Apply, DataLemmas, FiniteSetTheorems, SequenceTheorems, TLAPS

-----------------------------------------------------------------------------
(* Facts about the operators *)

LEMMA CommandType ==
    ASSUME NEW c \in Command
    PROVE  /\ DOMAIN c \subseteq Key
           /\ \A k \in DOMAIN c : c[k] \in AnyValue
<1>1. PICK ks \in SUBSET Key : c \in [ks -> AnyValue]
  BY CommandsTyped DEF Items
<1> QED BY <1>1

-----------------------------------------------------------------------------
(* The inductive invariant *)

\* raft.wal holds the entries 0, 1, ... in order, and the counter is the next.
WalInOrder ==
    /\ nextIndex = Len(wal)
    /\ \A i \in 1..Len(wal) : wal[i].index = i - 1

\* What the node takes for committed is.
Committed ==
    /\ commitIndex <= Len(chosen)
    /\ \A i \in 1..commitIndex : log[i] = chosen[i]

\* raft.wal and then the channel hold the first lastApplied entries.
Delivered ==
    /\ lastApplied = Len(wal) + Len(applied)
    /\ \A i \in 1..Len(wal) : wal[i].data = chosen[i]
    /\ \A i \in 1..Len(applied) : applied[i] = chosen[Len(wal) + i]

\* While the loop is between two steps it has an entry in hand.
InHand == handling.at # "role" => applied # <<>>

\* replayed, of any sequence of commands.
replay(c, k, n) ==
    LET is == {i \in DOMAIN c : i <= n /\ k \in DOMAIN c[i]}
    IN  IF is = {} THEN None ELSE c[Max(is)][k]

\* A mirror has no write of its own under way and handles its entries as a
\* follower.  Its store has each key as the
\* persisted entries left it or as the next entry does, and all keys as the
\* next entry does once that one is applied.
StoreFollows ==
    mirror =>
        /\ late = {}
        /\ handling.at # "role" => handling.follower
        /\ \A k \in Key : store[k] \in {replay(chosen, k, Len(wal)),
                                      replay(chosen, k, Len(wal) + 1)}
        /\ handling.at = "persist" =>
               \A k \in Key : store[k] = replay(chosen, k, Len(wal) + 1)

ApplyInv == WalInOrder /\ Committed /\ Delivered /\ InHand /\ StoreFollows

-----------------------------------------------------------------------------
(* What Load makes of a file in order *)

LEMMA LoadedInOrder ==
    ASSUME TypeOK, WalInOrder
    PROVE  /\ ~gap
           /\ loaded \in Seq(Command)
           /\ Len(loaded) = Len(wal)
           /\ \A i \in 1..Len(wal) : loaded[i] = wal[i].data
<1> DEFINE N == Len(wal)
<1>1. /\ wal \in Seq(WalRec) /\ N \in Nat /\ DOMAIN wal = 1..N
      /\ \A i \in 1..N : wal[i] \in WalRec
  BY DEF TypeOK
<1>2. \A i \in 1..N : wal[i].index = i - 1 /\ wal[i].data \in Command
  BY <1>1 DEF WalInOrder, WalRec
<1>3. indices = 0..(N - 1)
  <2>1. \A x \in indices : x \in 0..(N - 1)
    BY <1>1, <1>2 DEF indices
  <2>2. ASSUME NEW x \in 0..(N - 1) PROVE x \in indices
    <3>1. x + 1 \in DOMAIN wal /\ wal[x + 1].index = x
      BY <1>1, <1>2
    <3> QED BY <3>1 DEF indices
  <2> QED BY <2>1, <2>2
<1>4. Cardinality(indices) = N
  <2>1. Cardinality(0..(N - 1)) = IF 0 > N - 1 THEN 0 ELSE (N - 1) - 0 + 1
    BY <1>1, FS_Interval
  <2> QED BY <1>1, <1>3, <2>1
<1>5. ~gap
  BY <1>3, <1>4 DEF gap
<1>6. ASSUME NEW i \in 1..N
      PROVE  Max({j \in DOMAIN wal : wal[j].index = i - 1}) = i
  <2>1. {j \in DOMAIN wal : wal[j].index = i - 1} = {i}
    BY <1>1, <1>2
  <2>2. \A x \in {i} : x <= i
    OBVIOUS
  <2>3. Max({i}) = i
    BY <2>2, MaxIs
  <2> QED BY <2>1, <2>3
<1>7. loaded = [i \in 1..N |-> wal[i].data]
  BY <1>4, <1>6 DEF loaded
<1> HIDE DEF N
<1>8. [i \in 1..N |-> wal[i].data] \in Seq(Command)
  BY <1>1, <1>2
<1> QED BY <1>1, <1>5, <1>7, <1>8 DEF N

-----------------------------------------------------------------------------
(* What the committed entries make of a key *)

LEMMA ReplayedIsReplay ==
    ASSUME NEW k, NEW n
    PROVE  replayed(k, n) = replay(chosen, k, n)
BY DEF replayed, replay

LEMMA ReplayNext ==
    ASSUME NEW c \in Seq(Command), NEW k, NEW n \in Nat, n + 1 <= Len(c)
    PROVE  replay(c, k, n + 1) = IF k \in DOMAIN c[n + 1] THEN c[n + 1][k]
                                 ELSE replay(c, k, n)
<1> DEFINE is(m) == {i \in DOMAIN c : i <= m /\ k \in DOMAIN c[i]}
<1>1. DOMAIN c = 1..Len(c) /\ Len(c) \in Nat /\ n + 1 \in DOMAIN c
  OBVIOUS
<1>2. CASE k \in DOMAIN c[n + 1]
  <2>1. /\ n + 1 \in is(n + 1) /\ is(n + 1) \in SUBSET Int
        /\ \A x \in is(n + 1) : x <= n + 1
    BY <1>1, <1>2
  <2>2. Max(is(n + 1)) = n + 1
    <3> HIDE DEF is
    <3> QED BY <2>1, MaxIs
  <2> QED BY <1>2, <2>1, <2>2 DEF replay
<1>3. CASE k \notin DOMAIN c[n + 1]
  <2>1. is(n + 1) = is(n)
    BY <1>1, <1>3
  <2> QED BY <1>3, <2>1 DEF replay
<1> QED BY <1>2, <1>3

LEMMA ReplayBeyond ==
    ASSUME NEW c \in Seq(Command), NEW k, NEW n \in Nat, Len(c) <= n
    PROVE  replay(c, k, n + 1) = replay(c, k, n)
<1>1. {i \in DOMAIN c : i <= n + 1 /\ k \in DOMAIN c[i]}
        = {i \in DOMAIN c : i <= n /\ k \in DOMAIN c[i]}
  OBVIOUS
<1> QED BY <1>1 DEF replay

\* The entries after the first n do not matter.
LEMMA ReplayStable ==
    ASSUME NEW c \in Seq(Command), NEW d \in Seq(Command), NEW k,
           NEW n \in Nat, n <= Len(c), n <= Len(d),
           \A i \in 1..n : c[i] = d[i]
    PROVE  replay(c, k, n) = replay(d, k, n)
<1> DEFINE is(s) == {i \in DOMAIN s : i <= n /\ k \in DOMAIN s[i]}
<1>1. is(c) = is(d) /\ is(c) \subseteq 1..n
  OBVIOUS
<1>2. is(c) # {} => Max(is(c)) \in is(c)
  <2>1. is(c) \in SUBSET Nat /\ \A x \in is(c) : x <= n
    BY <1>1
  <2> HIDE DEF is
  <2> QED BY <2>1, MaxIn
<1> QED BY <1>1, <1>2 DEF replay

-----------------------------------------------------------------------------
(* The steps *)

\* The parts of the invariant that place raft.wal and the channel in chosen.
LEMMA Positions ==
    ASSUME TypeOK, ApplyInv
    PROVE  /\ Len(wal) \in Nat /\ Len(applied) \in Nat /\ Len(chosen) \in Nat
           /\ Len(wal) + Len(applied) = lastApplied
           /\ lastApplied <= commitIndex /\ commitIndex <= Len(chosen)
           /\ commitIndex \in Nat /\ lastApplied \in Nat
           /\ applied # <<>> => /\ Len(wal) + 1 <= Len(chosen)
                                /\ Head(applied) = chosen[Len(wal) + 1]
                                /\ Head(applied) \in Command
<1>1. /\ Len(wal) \in Nat /\ Len(applied) \in Nat /\ Len(chosen) \in Nat
      /\ Len(wal) + Len(applied) = lastApplied
      /\ lastApplied <= commitIndex /\ commitIndex <= Len(chosen)
      /\ commitIndex \in Nat /\ lastApplied \in Nat
  BY DEF TypeOK, ApplyInv, Delivered, Committed
<1>2. ASSUME applied # <<>>
      PROVE  1 <= Len(applied) /\ Head(applied) = applied[1] /\ Head(applied) \in Command
  BY <1>2 DEF TypeOK
<1>3. applied # <<>> => Head(applied) = chosen[Len(wal) + 1]
  BY <1>1, <1>2 DEF ApplyInv, Delivered
<1> QED BY <1>1, <1>2, <1>3

\* A step of the cluster: chosen may grow, the loop and the store are as before.
LEMMA ClusterStep ==
    ASSUME TypeOK, ApplyInv, UNCHANGED <<loop, local>>,
           chosen' \in Seq(Command), Len(chosen) <= Len(chosen'),
           \A i \in 1..Len(chosen) : chosen'[i] = chosen[i]
    PROVE  WalInOrder' /\ Delivered' /\ InHand' /\ StoreFollows'
<1> DEFINE n == Len(wal)
<1>1. UNCHANGED <<lastApplied, applied, handling, wal, nextIndex, store, late, mirror>>
  BY DEF loop, local
<1>2. WalInOrder' /\ InHand'
  BY <1>1 DEF ApplyInv, WalInOrder, InHand
<1>3. Delivered'
  BY <1>1, Positions DEF ApplyInv, Delivered
<1>4. ASSUME NEW k \in Key, NEW m \in Nat, m <= Len(chosen)
      PROVE  replay(chosen', k, m) = replay(chosen, k, m)
  <2>1. chosen \in Seq(Command) /\ Len(chosen') \in Nat /\ Len(chosen) \in Nat
    BY DEF TypeOK
  <2> QED BY <2>1, <1>4, ReplayStable
<1>5. n \in Nat /\ n <= Len(chosen) /\ Len(chosen) \in Nat
      /\ (applied # <<>> => n + 1 <= Len(chosen))
  BY Positions
<1>6. ASSUME NEW k \in Key
      PROVE  /\ replay(chosen', k, n) = replay(chosen, k, n)
             /\ \/ replay(chosen', k, n + 1) = replay(chosen, k, n + 1)
                \/ replay(chosen, k, n + 1) = replay(chosen, k, n)
             /\ applied # <<>> => replay(chosen', k, n + 1) = replay(chosen, k, n + 1)
  <2>1. chosen \in Seq(Command)
    BY DEF TypeOK
  <2>2. replay(chosen', k, n) = replay(chosen, k, n)
    BY <1>4, <1>5
  <2>3. n + 1 <= Len(chosen) => replay(chosen', k, n + 1) = replay(chosen, k, n + 1)
    BY <1>4, <1>5
  <2>4. Len(chosen) <= n => replay(chosen, k, n + 1) = replay(chosen, k, n)
    BY <1>5, <2>1, ReplayBeyond
  <2> HIDE DEF n
  <2> QED BY <1>5, <2>2, <2>3, <2>4
<1>7. StoreFollows'
  BY <1>1, <1>6 DEF ApplyInv, StoreFollows, InHand
<1> QED BY <1>2, <1>3, <1>7

\* The process starts again from raft.wal.
LEMMA RestartStep ==
    ASSUME TypeOK, ApplyInv, Restart
    PROVE  /\ UNCHANGED <<chosen, wal>> /\ log' \in Seq(Command)
           /\ role' = "Follower" /\ nextIndex' \in Nat
           /\ commitIndex' \in 0..Len(log') /\ lastApplied' \in 0..commitIndex'
           /\ applied' = <<>> /\ handling' = [at |-> "role", follower |-> FALSE]
           /\ request' = [c \in Client |-> Idle] /\ late' = {}
           /\ inherited' = inherited /\ campaigns' = campaigns
           /\ crashes' \in 0..MaxCrashes
           /\ WalInOrder' /\ Committed' /\ Delivered' /\ InHand'
<1>1. /\ loaded \in Seq(Command) /\ Len(loaded) = Len(wal) /\ Len(wal) \in Nat
      /\ \A i \in 1..Len(wal) : loaded[i] = wal[i].data
  BY LoadedInOrder, Positions DEF ApplyInv
<1> HIDE DEF loaded
<1>2. /\ UNCHANGED <<chosen, wal, inherited, campaigns>>
      /\ nextIndex' = Len(wal) /\ role' = "Follower" /\ log' = loaded
      /\ commitIndex' = Len(wal) /\ lastApplied' = Len(wal)
      /\ applied' = <<>> /\ handling' = [at |-> "role", follower |-> FALSE]
      /\ request' = [c \in Client |-> Idle] /\ late' = {}
  BY <1>1 DEF Restart, OpenRaft
<1>3. crashes' \in 0..MaxCrashes
  BY BoundsTyped DEF Restart, TypeOK
<1>4. Len(wal) <= Len(chosen)
  BY Positions
<1>5. \A i \in 1..Len(wal) : wal[i].data = chosen[i]
  BY DEF ApplyInv, Delivered
<1>6. WalInOrder' /\ Committed' /\ Delivered' /\ InHand'
  BY <1>1, <1>2, <1>4, <1>5 DEF ApplyInv, WalInOrder, Committed, Delivered, InHand
<1> QED BY <1>1, <1>2, <1>3, <1>6

\* A log that the node may receive: a prefix of chosen that reaches as far as
\* the node's commit, perhaps with one more entry.
LEMMA LeaderLog ==
    ASSUME TypeOK, ApplyInv, NEW l \in leaderLogs
    PROVE  l \in Seq(Command)
<1>1. chosen \in Seq(Command) /\ commitIndex \in Nat
  BY Positions DEF TypeOK
<1>2. \A n \in commitIndex..Len(chosen) : SubSeq(chosen, 1, n) \in Seq(Command)
  BY <1>1
<1> QED BY <1>2 DEF leaderLogs

LEMMA StoredType ==
    ASSUME store \in [Key -> AnyValue], NEW c \in Command, NEW ks \in SUBSET DOMAIN c
    PROVE  storedPart(c, ks) \in [Key -> AnyValue]
BY CommandType DEF storedPart

\* The writes that wait after another one of a command.
LEMMA LateType ==
    ASSUME late \subseteq Key \X AnyValue, NEW c \in Command,
           NEW ls \in SUBSET DOMAIN c, NEW ks
    PROVE  /\ overtaken(ls) \subseteq Key \X AnyValue
           /\ overtaken(ls) \cup {<<k, c[k]>> : k \in ls \ ks} \subseteq Key \X AnyValue
           /\ late = {} => overtaken(ls) = {}
BY CommandType DEF overtaken

Requests == [Client -> {Idle} \cup [at : {"permitted", "stored"}, items : Command]]

\* What a handler's record may become.
LEMMA RequestType ==
    ASSUME TypeOK, NEW c \in Client
    PROVE  /\ [request EXCEPT ![c] = Idle] \in
                 Requests
           /\ request[c].at # "idle" => request[c].items \in Command
           /\ request[c].at # "idle" => [request EXCEPT ![c].at = "stored"] \in
                 Requests
           /\ \A items \in Command :
                 [request EXCEPT ![c] = [at |-> "permitted", items |-> items]] \in
                 Requests
<1>1. request \in Requests
  BY DEF TypeOK, Requests
<1>2. Idle.at = "idle"
  BY DEF Idle
<1>3. request[c].at # "idle" => request[c] \in [at : {"permitted", "stored"}, items : Command]
  BY <1>1, <1>2 DEF Requests
<1> QED BY <1>1, <1>3 DEF Requests

\* The handlers up to the write of the database: only a record changes.
handlersStart(c, items) ==
    \/ PutHandler(c, items) \/ BulkPutHandle(c, items)
    \/ DeleteHandler(c, items) \/ BulkDelHandle(c, items)
    \/ CreateTableHandler(c, items)

LEMMA HandlersPermit ==
    ASSUME NEW c, NEW items, handlersStart(c, items)
    PROVE  PermittedProposeCmd(c, items)
BY DEF handlersStart, PutHandler, BulkPutHandle, DeleteHandler, BulkDelHandle,
       CreateTableHandler

\* One disjunct per action; the actions of the handlers are summed up.
LEMMA NextCases ==
    ASSUME Next
    PROVE  \/ \E c \in Command : OtherCommits(c)
           \/ \E l \in leaderLogs : ReceiveEntries(l)
           \/ Campaign \/ Elected \/ stepDown
           \/ maybeAdvanceCommit
           \/ \E c \in Client, items \in Command : PermittedProposeCmd(c, items)
           \/ \E c \in Client : DbWrite(c) \/ DbWriteFails(c)
           \/ \E p \in late : LateWrite(p)
           \/ \E c \in Client : ProposeCommand(c)
           \/ \E c \in Client : ProposeRefused(c)
           \/ runDelivery \/ ReadRole \/ GrpcHandle \/ PersistApplied
           \/ Crash \/ CrashInApply
           \/ \E c \in Client : CrashInDbWrite(c)
<1>1. \A c \in Client, items \in Command :
         handlersStart(c, items) => PermittedProposeCmd(c, items)
  BY HandlersPermit
<1>2. CASE \E c \in Client, items \in Command : handlersStart(c, items)
  BY <1>1, <1>2
<1>3. CASE ~ \E c \in Client, items \in Command : handlersStart(c, items)
  BY <1>3, Zenon DEF Next, handlersStart
<1> QED BY <1>2, <1>3

LEMMA GoesOn ==
    ASSUME TypeOK, goOn
    PROVE  /\ handling' \in [at : {"role", "apply", "persist"}, follower : BOOLEAN]
           /\ handling.at = "apply" => /\ applied' = applied
                                       /\ handling'.at = "persist"
                                       /\ handling'.follower = handling.follower
           /\ handling.at = "persist" => /\ applied' = Tail(applied)
                                         /\ handling'.at = "role"
<1>1. /\ RunAppliedLoop["role"] = "apply" /\ RunAppliedLoop["apply"] = "persist"
      /\ RunAppliedLoop["persist"] = "role"
  BY DEF RunAppliedLoop
<1>2. /\ handling \in [at : {"role", "apply", "persist"}, follower : BOOLEAN]
      /\ handling.at \in {"role", "apply", "persist"}
  BY DEF TypeOK
<1>3. PICK next : /\ next = RunAppliedLoop[handling.at]
                  /\ handling' = [handling EXCEPT !.at = next]
                  /\ applied' = IF next = "role" THEN Tail(applied) ELSE applied
  BY DEF goOn
<1>4. /\ next \in {"role", "apply", "persist"}
      /\ handling.at = "apply" => next = "persist"
      /\ handling.at = "persist" => next = "role"
  BY <1>1, <1>2, <1>3
<1> QED BY <1>2, <1>3, <1>4

LEMMA NextType ==
    ASSUME TypeOK, ApplyInv, [Next]_vars
    PROVE  TypeOK'
<1> USE DEF raft, loop, local, Requests
<1>1. ASSUME NEW c \in Command, OtherCommits(c) PROVE TypeOK'
  BY <1>1 DEF OtherCommits, TypeOK
<1>2. ASSUME NEW l \in leaderLogs, ReceiveEntries(l) PROVE TypeOK'
  <2>1. l \in Seq(Command) /\ log \in Seq(Command) /\ commitIndex \in Nat
        /\ lastApplied \in 0..commitIndex
    BY LeaderLog DEF TypeOK
  <2>2. log' \in Seq(Command) /\ Len(l) <= Len(log')
    <3>1. CASE IsPrefix(l, log)
      <4>1. Len(l) <= Len(log)
        BY <2>1, <3>1, PrefixAt
      <4> QED BY <1>2, <2>1, <3>1, <4>1 DEF ReceiveEntries
    <3>2. CASE ~IsPrefix(l, log)
      BY <1>2, <2>1, <3>2 DEF ReceiveEntries
    <3> QED BY <3>1, <3>2
  <2>3. commitIndex' \in commitIndex..Len(l)
    BY <1>2 DEF ReceiveEntries
  <2>4. commitIndex' \in 0..Len(log') /\ lastApplied \in 0..commitIndex'
    BY <2>1, <2>2, <2>3
  <2> QED BY <1>2, <2>2, <2>4 DEF ReceiveEntries, TypeOK
<1>3. CASE Campaign
  BY <1>3, BoundsTyped DEF Campaign, TypeOK
<1>4. CASE Elected
  BY <1>4 DEF Elected, TypeOK
<1>5. CASE stepDown
  BY <1>5 DEF stepDown, TypeOK
<1>6. CASE maybeAdvanceCommit
  BY <1>6 DEF maybeAdvanceCommit, TypeOK
<1>7. ASSUME NEW c \in Client, NEW items \in Command, PermittedProposeCmd(c, items)
      PROVE  TypeOK'
  <2>1. request' \in Requests
    BY <1>7, RequestType DEF PermittedProposeCmd
  <2> QED BY <1>7, <2>1 DEF PermittedProposeCmd, TypeOK
<1>8. ASSUME NEW c \in Client, DbWrite(c) \/ DbWriteFails(c) PROVE TypeOK'
  <2>1. /\ request' \in Requests
        /\ request[c].items \in Command
    <3>1. request[c].at # "idle" /\ request[c].items \in Command
      BY <1>8, RequestType DEF DbWrite, DbWriteFails
    <3>2. CASE DbWrite(c)
      <4>1. request' = [request EXCEPT ![c].at = "stored"]
        BY <3>2 DEF DbWrite
      <4> QED BY <3>1, <4>1, RequestType
    <3>3. CASE DbWriteFails(c)
      BY <3>1, <3>3, RequestType DEF DbWriteFails
    <3> QED BY <1>8, <3>1, <3>2, <3>3
  <2>2. store' \in [Key -> AnyValue]
    <3>1. PICK ks \in SUBSET DOMAIN request[c].items :
            store' = storedPart(request[c].items, ks)
      <4>1. CASE DbWrite(c)
        BY <4>1 DEF DbWrite, stored
      <4>2. CASE DbWriteFails(c)
        BY <4>2 DEF DbWriteFails
      <4> QED BY <1>8, <4>1, <4>2
    <3>2. store \in [Key -> AnyValue]
      BY DEF TypeOK
    <3> QED BY <2>1, <3>1, <3>2, StoredType
  <2>3. mirror' \in BOOLEAN
    BY <1>8 DEF DbWrite, DbWriteFails
  <2>4. late' \subseteq Key \X AnyValue
    <3>1. late \subseteq Key \X AnyValue
      BY DEF TypeOK
    <3>2. CASE DbWrite(c)
      BY <2>1, <3>1, <3>2, LateType DEF DbWrite
    <3>3. CASE DbWriteFails(c)
      <4>1. PICK ls \in SUBSET DOMAIN request[c].items, ks \in SUBSET DOMAIN request[c].items :
               late' = overtaken(ls) \cup {<<k, request[c].items[k]>> : k \in ls \ ks}
        BY <3>3 DEF DbWriteFails
      <4> QED BY <2>1, <3>1, <4>1, LateType
    <3> QED BY <1>8, <3>2, <3>3
  <2> QED BY <1>8, <2>1, <2>2, <2>3, <2>4 DEF DbWrite, DbWriteFails, TypeOK
<1>9. ASSUME NEW p \in late, LateWrite(p) PROVE TypeOK'
  <2>1. p[1] \in Key /\ p[2] \in AnyValue
    BY DEF TypeOK
  <2>2. store' \in [Key -> AnyValue] /\ late' \subseteq Key \X AnyValue
    BY <1>9, <2>1 DEF LateWrite, TypeOK
  <2> QED BY <1>9, <2>2 DEF LateWrite, TypeOK
<1>10. ASSUME NEW c \in Client, ProposeCommand(c) PROVE TypeOK'
  <2>1. /\ request' \in Requests
        /\ request[c].items \in Command
    BY <1>10, RequestType DEF ProposeCommand
  <2> QED BY <1>10, <2>1 DEF ProposeCommand, TypeOK
<1>11. ASSUME NEW c \in Client, ProposeRefused(c) PROVE TypeOK'
  <2>1. request' \in Requests
    BY <1>11, RequestType DEF ProposeRefused
  <2> QED BY <1>11, <2>1 DEF ProposeRefused, TypeOK
<1>12. CASE runDelivery
  <2>1. log[lastApplied + 1] \in Command
    BY <1>12 DEF runDelivery, TypeOK
  <2>2. /\ applied' \in Seq(Command) /\ Len(applied') <= Buffer
        /\ lastApplied' \in 0..commitIndex
    BY <1>12, <2>1, BoundsTyped DEF runDelivery, channelFree, TypeOK
  <2> QED BY <1>12, <2>2 DEF runDelivery, TypeOK
<1>13. CASE ReadRole
  BY <1>13 DEF ReadRole, RunAppliedLoop, TypeOK
<1>14. CASE GrpcHandle
  <2>1. store' \in [Key -> AnyValue]
    BY <1>14, Positions, StoredType DEF GrpcHandle, stored, TypeOK
  <2>2. /\ applied' = applied
        /\ handling' \in [at : {"role", "apply", "persist"}, follower : BOOLEAN]
    BY <1>14, GoesOn DEF GrpcHandle
  <2>3. late' \subseteq Key \X AnyValue
    <3>1. /\ late \subseteq Key \X AnyValue /\ Head(applied) \in Command
          /\ DOMAIN Head(applied) \in SUBSET DOMAIN Head(applied)
      BY <1>14, Positions DEF GrpcHandle, TypeOK
    <3>2. overtaken(DOMAIN Head(applied)) \subseteq Key \X AnyValue
      BY <3>1, LateType
    <3> QED BY <1>14, <3>1, <3>2 DEF GrpcHandle
  <2> QED BY <1>14, <2>1, <2>2, <2>3 DEF GrpcHandle, TypeOK
<1>15. CASE PersistApplied
  <2>1. wal' \in Seq(WalRec) /\ nextIndex' \in Nat
    BY <1>15, Positions DEF PersistApplied, WalRec, TypeOK
  <2>2. /\ applied' = Tail(applied)
        /\ handling' \in [at : {"role", "apply", "persist"}, follower : BOOLEAN]
    BY <1>15, GoesOn DEF PersistApplied
  <2>3. applied' \in Seq(Command) /\ Len(applied') <= Buffer
    BY <1>15, <2>2, BoundsTyped DEF PersistApplied, TypeOK
  <2> QED BY <1>15, <2>1, <2>2, <2>3 DEF PersistApplied, TypeOK
<1>16. ASSUME Restart, store' \in [Key -> AnyValue], mirror' \in BOOLEAN PROVE TypeOK'
  <2>1. /\ Len(applied') <= Buffer /\ applied' \in Seq(Command)
        /\ handling' \in [at : {"role", "apply", "persist"}, follower : BOOLEAN]
        /\ request' \in Requests
    <3>1. applied' = <<>> /\ handling' = [at |-> "role", follower |-> FALSE]
          /\ request' = [c \in Client |-> Idle]
      BY <1>16, RestartStep
    <3> QED BY <3>1, BoundsTyped
  <2> QED BY <1>16, <2>1, RestartStep DEF TypeOK
<1>17. CASE Crash
  BY <1>16, <1>17 DEF Crash, TypeOK
<1>18. CASE CrashInApply
  <2>1. store' \in [Key -> AnyValue]
    BY <1>18, Positions, StoredType DEF CrashInApply, TypeOK
  <2> QED BY <1>16, <1>18, <2>1 DEF CrashInApply, TypeOK
<1>19. ASSUME NEW c \in Client, CrashInDbWrite(c) PROVE TypeOK'
  <2>1. request[c].items \in Command
    BY <1>19, RequestType DEF CrashInDbWrite
  <2>2. store' \in [Key -> AnyValue]
    <3>1. PICK ks \in SUBSET DOMAIN request[c].items :
            store' = storedPart(request[c].items, ks)
      BY <1>19 DEF CrashInDbWrite
    <3>2. store \in [Key -> AnyValue]
      BY DEF TypeOK
    <3> QED BY <2>1, <3>1, <3>2, StoredType
  <2> QED BY <1>16, <1>19, <2>2 DEF CrashInDbWrite
<1>20. CASE UNCHANGED vars
  BY <1>20 DEF vars, TypeOK
<1> QED BY <1>1, <1>2, <1>3, <1>4, <1>5, <1>6, <1>7, <1>8, <1>9, <1>10, <1>11, <1>12,
           <1>13, <1>14, <1>15, <1>17, <1>18, <1>19, <1>20, NextCases

\* Steps that leave chosen, raft.wal, the channel, the store and mirror alone.
LEMMA QuietStep ==
    ASSUME TypeOK, ApplyInv,
           UNCHANGED <<chosen, loop, store, late, mirror, commitIndex>>,
           \A i \in 1..commitIndex : log'[i] = log[i]
    PROVE  ApplyInv'
BY DEF ApplyInv, WalInOrder, Committed, Delivered, InHand, StoreFollows, loop

\* The store after a part of the entry in hand, and after all of it.
LEMMA StoreApplies ==
    ASSUME TypeOK, ApplyInv, mirror, applied # <<>>, NEW k \in Key,
           NEW ks \in SUBSET DOMAIN Head(applied)
    PROVE  /\ storedPart(Head(applied), ks)[k] \in
                 {replay(chosen, k, Len(wal)), replay(chosen, k, Len(wal) + 1)}
           /\ stored(Head(applied))[k] = replay(chosen, k, Len(wal) + 1)
<1> DEFINE n == Len(wal)
           e == chosen[n + 1]
<1>1. n \in Nat /\ n + 1 <= Len(chosen) /\ Head(applied) = e /\ chosen \in Seq(Command)
  BY Positions DEF TypeOK
<1>2. replay(chosen, k, n + 1) = IF k \in DOMAIN e THEN e[k] ELSE replay(chosen, k, n)
  BY <1>1, ReplayNext
<1>3. store[k] \in {replay(chosen, k, n), replay(chosen, k, n + 1)}
  BY DEF ApplyInv, StoreFollows
<1>4. /\ storedPart(e, ks)[k] = IF k \in ks THEN e[k] ELSE store[k]
      /\ stored(e)[k] = IF k \in DOMAIN e THEN e[k] ELSE store[k]
  BY DEF storedPart, stored
<1> HIDE DEF n, e
<1> QED BY <1>1, <1>2, <1>3, <1>4 DEF n

LEMMA NextInv ==
    ASSUME TypeOK, ApplyInv, [Next]_vars
    PROVE  ApplyInv'
<1> USE DEF raft, loop, local
<1>1. ASSUME NEW c \in Command, OtherCommits(c) PROVE ApplyInv'
  <2>1. /\ chosen' \in Seq(Command) /\ Len(chosen) <= Len(chosen')
        /\ \A i \in 1..Len(chosen) : chosen'[i] = chosen[i]
    BY <1>1 DEF OtherCommits, TypeOK
  <2>2. WalInOrder' /\ Delivered' /\ InHand' /\ StoreFollows'
    BY <1>1, <2>1, ClusterStep DEF OtherCommits
  <2>3. Committed'
    BY <1>1, <2>1, Positions DEF OtherCommits, ApplyInv, Committed
  <2> QED BY <2>2, <2>3 DEF ApplyInv
<1>2. ASSUME NEW l \in leaderLogs, ReceiveEntries(l) PROVE ApplyInv'
  <2>1. WalInOrder' /\ Delivered' /\ InHand' /\ StoreFollows'
    BY <1>2, ClusterStep DEF ReceiveEntries, TypeOK
  <2>2. l \in Seq(Command) /\ log \in Seq(Command) /\ chosen \in Seq(Command)
        /\ commitIndex \in Nat
    BY LeaderLog DEF TypeOK
  <2>3. PICK n \in commitIndex..Len(l) : /\ commitIndex' = n
                                         /\ IsPrefix(SubSeq(l, 1, n), chosen)
    BY <1>2 DEF ReceiveEntries
  <2>4. /\ SubSeq(l, 1, n) \in Seq(Command) /\ Len(SubSeq(l, 1, n)) = n
        /\ \A i \in 1..n : SubSeq(l, 1, n)[i] = l[i]
    BY <2>2, <2>3
  <2>5. n <= Len(chosen) /\ \A i \in 1..n : l[i] = chosen[i]
    <3> DEFINE p == SubSeq(l, 1, n)
    <3>1. /\ p \in Seq(Command) /\ IsPrefix(p, chosen) /\ Len(p) = n
          /\ \A i \in 1..n : p[i] = l[i]
      BY <2>3, <2>4
    <3> HIDE DEF p
    <3>2. Len(p) <= Len(chosen) /\ \A i \in 1..Len(p) : p[i] = chosen[i]
      BY <2>2, <3>1, PrefixAt
    <3> QED BY <3>1, <3>2
  <2>6. \A i \in 1..n : log'[i] = l[i]
    <3>1. CASE IsPrefix(l, log)
      <4>1. \A i \in 1..Len(l) : log[i] = l[i]
        BY <2>2, <3>1, PrefixAt
      <4> QED BY <1>2, <2>2, <2>3, <3>1, <4>1 DEF ReceiveEntries
    <3>2. CASE ~IsPrefix(l, log)
      BY <1>2, <3>2 DEF ReceiveEntries
    <3> QED BY <3>1, <3>2
  <2>7. Committed'
    BY <1>2, <2>3, <2>5, <2>6 DEF ReceiveEntries, Committed
  <2> QED BY <2>1, <2>7 DEF ApplyInv
<1>3. CASE Campaign \/ Elected \/ stepDown
  BY <1>3, QuietStep DEF Campaign, Elected, stepDown
<1>4. CASE maybeAdvanceCommit
  <2>1. /\ chosen \in Seq(Command) /\ log \in Seq(Command)
        /\ Len(chosen) \in Nat /\ Len(log) \in Nat /\ commitIndex \in Nat
        /\ commitIndex <= Len(chosen) /\ commitIndex < Len(log)
        /\ Len(chosen) <= Len(log) /\ \A i \in 1..Len(chosen) : chosen[i] = log[i]
        /\ commitIndex' = commitIndex + 1 /\ log' = log
    BY <1>4, Positions, PrefixAt DEF maybeAdvanceCommit, TypeOK
  <2>2. log[commitIndex + 1] \in Command
    BY <2>1
  <2>3. /\ chosen' \in Seq(Command) /\ Len(chosen) <= Len(chosen')
        /\ commitIndex' <= Len(chosen')
        /\ \A i \in 1..Len(chosen) : chosen'[i] = chosen[i]
        /\ chosen'[commitIndex + 1] = log[commitIndex + 1]
    <3>1. CASE Len(chosen) > commitIndex
      BY <1>4, <2>1, <3>1 DEF maybeAdvanceCommit
    <3>2. CASE ~(Len(chosen) > commitIndex)
      <4>1. chosen' = Append(chosen, log[commitIndex + 1]) /\ Len(chosen) = commitIndex
        BY <1>4, <2>1, <3>2 DEF maybeAdvanceCommit
      <4> QED BY <2>1, <2>2, <4>1
    <3> QED BY <3>1, <3>2
  <2>4. WalInOrder' /\ Delivered' /\ InHand' /\ StoreFollows'
    BY <1>4, <2>3, ClusterStep DEF maybeAdvanceCommit
  <2>5. Committed'
    BY <2>1, <2>3 DEF ApplyInv, Committed
  <2> QED BY <2>4, <2>5 DEF ApplyInv
<1>5. ASSUME NEW c \in Client, NEW items \in Command, PermittedProposeCmd(c, items)
      PROVE  ApplyInv'
  BY <1>5, QuietStep DEF PermittedProposeCmd
<1>6. ASSUME NEW c \in Client, DbWrite(c) \/ DbWriteFails(c) PROVE ApplyInv'
  <2>1. WalInOrder' /\ Committed' /\ Delivered' /\ InHand'
    BY <1>6 DEF DbWrite, DbWriteFails, ApplyInv, WalInOrder, Committed, Delivered, InHand
  <2>2. StoreFollows'
    <3>1. CASE DbWrite(c)
      BY <3>1 DEF DbWrite, StoreFollows
    <3>2. CASE DbWriteFails(c)
      <4>1. PICK ls \in SUBSET DOMAIN request[c].items : \E ks \in SUBSET ls :
               /\ store' = storedPart(request[c].items, ks)
               /\ late' = overtaken(ls) \cup {<<k, request[c].items[k]>> : k \in ls \ ks}
               /\ mirror' = (mirror /\ ls = {})
        BY <3>2 DEF DbWriteFails
      <4>2. ASSUME mirror' PROVE mirror /\ store' = store /\ late' = {}
        <5>1. mirror /\ ls = {}
          BY <4>1, <4>2
        <5>2. late = {}
          BY <5>1 DEF ApplyInv, StoreFollows
        <5>3. late' = {}
          BY <4>1, <5>1, <5>2 DEF overtaken
        <5>4. store' = storedPart(request[c].items, {})
          BY <4>1, <5>1
        <5>5. store' = store
          BY <5>4 DEF storedPart, TypeOK
        <5> QED BY <5>1, <5>3, <5>5
      <4> QED BY <3>2, <4>2 DEF DbWriteFails, ApplyInv, StoreFollows
    <3> QED BY <1>6, <3>1, <3>2
  <2> QED BY <2>1, <2>2 DEF ApplyInv
<1>7. ASSUME NEW p \in late, LateWrite(p) PROVE ApplyInv'
  <2>1. WalInOrder' /\ Committed' /\ Delivered' /\ InHand'
    BY <1>7 DEF LateWrite, ApplyInv, WalInOrder, Committed, Delivered, InHand
  <2>2. ~mirror
    BY DEF ApplyInv, StoreFollows
  <2> QED BY <1>7, <2>1, <2>2 DEF LateWrite, ApplyInv, StoreFollows
<1>8. ASSUME NEW c \in Client, ProposeCommand(c) PROVE ApplyInv'
  <2>1. request[c].items \in Command
    BY <1>8, RequestType DEF ProposeCommand
  <2>2. \A i \in 1..commitIndex : log'[i] = log[i]
    BY <1>8, <2>1 DEF ProposeCommand, TypeOK
  <2> QED BY <1>8, <2>2, QuietStep DEF ProposeCommand
<1>9. ASSUME NEW c \in Client, ProposeRefused(c) PROVE ApplyInv'
  BY <1>9, QuietStep DEF ProposeRefused
<1>10. CASE runDelivery
  <2>1. /\ applied \in Seq(Command) /\ lastApplied \in Nat /\ lastApplied < commitIndex
        /\ log[lastApplied + 1] \in Command
        /\ applied' = Append(applied, log[lastApplied + 1])
        /\ lastApplied' = lastApplied + 1
        /\ UNCHANGED <<chosen, log, commitIndex, handling, wal, nextIndex, store, late, mirror>>
    BY <1>10 DEF runDelivery, TypeOK
  <2>2. log[lastApplied + 1] = chosen[lastApplied + 1]
    BY <2>1, Positions DEF ApplyInv, Committed
  <2>3. Delivered'
    <3>0. /\ Len(applied) \in Nat /\ Len(wal) \in Nat
          /\ Len(wal) + (Len(applied) + 1) = lastApplied + 1
          /\ \A i \in 1..Len(applied) : applied[i] = chosen[Len(wal) + i]
      BY <2>1, Positions DEF ApplyInv, Delivered
    <3>1. ASSUME NEW i \in 1..Len(applied')
          PROVE  applied'[i] = chosen[Len(wal) + i]
      <4>1. /\ Len(applied') = Len(applied) + 1
            /\ applied'[Len(applied) + 1] = log[lastApplied + 1]
            /\ \A j \in 1..Len(applied) : applied'[j] = applied[j]
        BY <2>1
      <4>2. i \in 1..Len(applied) \/ i = Len(applied) + 1
        BY <3>0, <4>1
      <4>3. CASE i \in 1..Len(applied)
        BY <3>0, <4>1, <4>3
      <4>4. CASE i = Len(applied) + 1
        BY <2>2, <3>0, <4>1, <4>4
      <4> QED BY <4>2, <4>3, <4>4
    <3> QED BY <2>1, <3>1, Positions DEF ApplyInv, Delivered
  <2>4. WalInOrder' /\ Committed' /\ InHand' /\ StoreFollows'
    BY <2>1 DEF ApplyInv, WalInOrder, Committed, InHand, StoreFollows
  <2> QED BY <2>3, <2>4 DEF ApplyInv
<1>11. CASE ReadRole
  <2>1. /\ handling' = [at |-> "apply", follower |-> role = "Follower"]
        /\ mirror' = (mirror /\ role = "Follower")
        /\ applied # <<>>
        /\ UNCHANGED <<chosen, log, commitIndex, lastApplied, applied, wal, nextIndex, store,
                       late>>
    BY <1>11 DEF ReadRole, RunAppliedLoop
  <2> QED BY <2>1 DEF ApplyInv, WalInOrder, Committed, Delivered, InHand, StoreFollows
<1>12. CASE GrpcHandle
  <2>1. /\ applied # <<>> /\ handling.at = "apply" /\ applied' = applied
        /\ handling'.at = "persist" /\ handling'.follower = handling.follower
        /\ handling.follower => /\ store' = stored(Head(applied))
                                /\ late' = overtaken(DOMAIN Head(applied))
        /\ UNCHANGED <<chosen, log, commitIndex, lastApplied, wal, nextIndex, mirror>>
    BY <1>12, GoesOn DEF GrpcHandle
  <2>2. WalInOrder' /\ Committed' /\ Delivered' /\ InHand'
    BY <2>1 DEF ApplyInv, WalInOrder, Committed, Delivered, InHand
  <2>3. StoreFollows'
    <3> SUFFICES ASSUME mirror PROVE StoreFollows'
      BY <2>1 DEF StoreFollows
    <3>1. handling.follower
      BY <2>1 DEF ApplyInv, StoreFollows
    <3>2. \A k \in Key : store'[k] = replay(chosen, k, Len(wal) + 1)
      BY <2>1, <3>1, StoreApplies
    <3>3. late' = {}
      BY <2>1, <3>1 DEF ApplyInv, StoreFollows, overtaken
    <3> QED BY <2>1, <3>1, <3>2, <3>3 DEF StoreFollows
  <2> QED BY <2>2, <2>3 DEF ApplyInv
<1>13. CASE PersistApplied
  <2>1. /\ applied # <<>> /\ handling.at = "persist" /\ applied' = Tail(applied)
        /\ handling'.at = "role"
        /\ wal' = Append(wal, [index |-> nextIndex, data |-> Head(applied)])
        /\ nextIndex' = nextIndex + 1
        /\ UNCHANGED <<chosen, log, commitIndex, lastApplied, store, late, mirror>>
    BY <1>13, GoesOn DEF PersistApplied
  <2>2. /\ wal \in Seq(WalRec) /\ nextIndex = Len(wal) /\ Len(wal) \in Nat
        /\ Head(applied) = chosen[Len(wal) + 1]
        /\ [index |-> nextIndex, data |-> Head(applied)] \in WalRec
    BY <2>1, Positions DEF TypeOK, ApplyInv, WalInOrder, WalRec
  <2>3. /\ Len(wal') = Len(wal) + 1
        /\ \A i \in 1..Len(wal) : wal'[i] = wal[i]
        /\ wal'[Len(wal) + 1] = [index |-> nextIndex, data |-> Head(applied)]
    BY <2>1, <2>2
  <2>4. WalInOrder' /\ Committed' /\ InHand'
    BY <2>1, <2>2, <2>3 DEF ApplyInv, WalInOrder, Committed, InHand
  <2>5. Delivered'
    <3>1. \A i \in 1..Len(wal') : wal'[i].data = chosen[i]
      BY <2>2, <2>3 DEF ApplyInv, Delivered
    <3>2. /\ Len(applied') = Len(applied) - 1
          /\ \A i \in 1..Len(applied') : applied'[i] = applied[i + 1]
      BY <2>1 DEF TypeOK
    <3>3. \A i \in 1..Len(applied') : applied'[i] = chosen[Len(wal') + i]
      BY <2>3, <3>2, Positions DEF ApplyInv, Delivered
    <3> QED BY <2>1, <2>3, <3>1, <3>2, <3>3, Positions DEF Delivered
  <2>6. StoreFollows'
    BY <2>1, <2>3 DEF ApplyInv, StoreFollows
  <2> QED BY <2>4, <2>5, <2>6 DEF ApplyInv
<1>14. ASSUME Restart,
              mirror' => mirror /\ \A k \in Key : store'[k] \in
                  {replay(chosen, k, Len(wal)), replay(chosen, k, Len(wal) + 1)}
       PROVE  ApplyInv'
  <2>1. /\ WalInOrder' /\ Committed' /\ Delivered' /\ InHand'
        /\ UNCHANGED <<chosen, wal>> /\ handling' = [at |-> "role", follower |-> FALSE]
        /\ late' = {}
    BY <1>14, RestartStep
  <2>2. StoreFollows'
    BY <1>14, <2>1 DEF StoreFollows
  <2> QED BY <2>1, <2>2 DEF ApplyInv
<1>15. CASE Crash
  BY <1>14, <1>15 DEF Crash, ApplyInv, StoreFollows
<1>16. CASE CrashInApply
  <2>1. mirror => \A k \in Key : store'[k] \in
            {replay(chosen, k, Len(wal)), replay(chosen, k, Len(wal) + 1)}
    BY <1>16, StoreApplies DEF CrashInApply
  <2> QED BY <1>14, <1>16, <2>1 DEF CrashInApply
<1>17. ASSUME NEW c \in Client, CrashInDbWrite(c) PROVE ApplyInv'
  BY <1>14, <1>17 DEF CrashInDbWrite
<1>18. CASE UNCHANGED vars
  BY <1>18, QuietStep DEF vars
<1> QED BY <1>1, <1>2, <1>3, <1>4, <1>5, <1>6, <1>7, <1>8, <1>9, <1>10, <1>11, <1>12,
           <1>13, <1>15, <1>16, <1>17, <1>18, NextCases

-----------------------------------------------------------------------------
(* Theorems *)

LEMMA Invariance == Spec => [](TypeOK /\ ApplyInv)
<1>1. Init => TypeOK /\ ApplyInv
  <2> SUFFICES ASSUME Init PROVE TypeOK /\ ApplyInv
    OBVIOUS
  <2>1. TypeOK
    BY BoundsTyped DEF Init, TypeOK, AnyValue
  <2>2. WalInOrder /\ Committed /\ Delivered /\ InHand
    BY DEF Init, WalInOrder, Committed, Delivered, InHand
  <2>3. StoreFollows
    BY DEF Init, StoreFollows, replay
  <2> QED BY <2>1, <2>2, <2>3 DEF ApplyInv
<1>2. (TypeOK /\ ApplyInv) /\ [Next]_vars => (TypeOK /\ ApplyInv)'
  BY NextType, NextInv
<1> QED BY <1>1, <1>2, PTL DEF Spec

\* Delivery never runs ahead of the commit nor the commit ahead of the log,
\* and the channel is never over its capacity.
THEOREM TypeCorrect == Spec => []TypeOK
BY Invariance, PTL

\* raft.wal can always be loaded and holds the first entries that the cluster
\* committed, each once and in order, whatever roles the node has had and
\* however often it was started again.
THEOREM WalDelivered == Spec => []WalIsDelivered
<1>1. TypeOK /\ ApplyInv => WalIsDelivered
  <2> SUFFICES ASSUME TypeOK, ApplyInv PROVE WalIsDelivered
    OBVIOUS
  <2>1. /\ ~gap /\ loaded \in Seq(Command) /\ Len(loaded) = Len(wal)
        /\ \A i \in 1..Len(wal) : loaded[i] = wal[i].data
    BY LoadedInOrder DEF ApplyInv
  <2>2. \A i \in 1..Len(wal) : wal[i].data = chosen[i]
    BY DEF ApplyInv, Delivered
  <2>3. chosen \in Seq(Command) /\ Len(wal) <= Len(chosen)
    BY Positions DEF TypeOK
  <2> HIDE DEF loaded
  <2>4. IsPrefix(loaded, chosen)
    BY <2>1, <2>2, <2>3, PrefixFrom
  <2> QED BY <2>1, <2>4 DEF WalIsDelivered
<1> QED BY <1>1, Invariance, PTL

\* A node that only follows holds what its raft.wal says, up to the one entry
\* in hand, through crashes between apply and persist and inside an apply.
THEOREM StoreMirrorsLog == Spec => []MirrorsLog
<1>1. TypeOK /\ ApplyInv => MirrorsLog
  <2> SUFFICES ASSUME TypeOK, ApplyInv PROVE MirrorsLog
    OBVIOUS
  <2>1. Len(loaded) = Len(wal)
    BY LoadedInOrder DEF ApplyInv
  <2> HIDE DEF loaded
  <2>2. mirror => \A k \in Key : store[k] \in {replayed(k, Len(wal)), replayed(k, Len(wal) + 1)}
    BY ReplayedIsReplay DEF ApplyInv, StoreFollows
  <2> QED BY <2>1, <2>2 DEF MirrorsLog
<1> QED BY <1>1, Invariance, PTL

=============================================================================
