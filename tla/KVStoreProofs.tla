---------------------------- MODULE KVStoreProofs ----------------------------
(***************************************************************************)
(* What the kvstore of a member and its snapshots hold, for every          *)
(* workload, snapshot count and number of crashes.                         *)
(***************************************************************************)
EXTENDS KVNodeProofs

USE ConstantsAssumption, CountsAssumption DEF Indexes

\* The solvers that a leaf without one of its own tries in turn, with their time
\* limits in seconds.
USE SMTT(15), ZenonT(20), SMTT(30), SMTT(60), SMTT(120)

-----------------------------------------------------------------------------
(* The pairs that a prefix of the log defines.                             *)

\* Before the first entry.
LEMMA NothingStored == ASSUME NEW l PROVE StoreAt(l, 0) = NoStore
<1>1. 1..0 = {}
  OBVIOUS
<1>2. \A k \in Keys : Writes(l, 0, k) = {}
  BY <1>1 DEF Writes
<1> QED
  BY <1>2 DEF StoreAt, NoStore

\* An entry of the store puts its own index in the place of its key.
LEMMA PutStep ==
  ASSUME NEW l, NEW i \in Nat \ {0}, l[i].kind = "put"
  PROVE  StoreAt(l, i) = [StoreAt(l, i - 1) EXCEPT ![l[i].arg] = {i}]
<1>1. \A j : j \in 1..i <=> j \in 1..i-1 \/ j = i
  OBVIOUS
<1>2. \A j \in 1..i-1 : j \in Nat /\ j < i
  OBVIOUS
<1>3. \A k : Writes(l, i, k) = IF k = l[i].arg THEN Writes(l, i - 1, k) \cup {i} ELSE Writes(l, i - 1, k)
  BY <1>1 DEF Writes
<1>4. \A k : Writes(l, i - 1, k) \subseteq 1..i-1
  BY DEF Writes
<1>5. \A k : {j \in Writes(l, i - 1, k) \cup {i} : \A m \in Writes(l, i - 1, k) \cup {i} : m <= j} = {i}
  BY <1>2, <1>4
<1> QED
  BY <1>3, <1>5, ZenonT(30) DEF StoreAt

\* Other entries leave the pairs alone.
LEMMA NoPutStep ==
  ASSUME NEW l, NEW i \in Nat, NEW j \in Nat, i <= j, \A m \in i+1..j : l[m].kind # "put"
  PROVE  StoreAt(l, j) = StoreAt(l, i)
<1>1. \A m : m \in 1..j <=> m \in 1..i \/ m \in i+1..j
  OBVIOUS
<1>2. \A k : Writes(l, j, k) = Writes(l, i, k)
  BY <1>1 DEF Writes
<1> QED
  BY <1>2 DEF StoreAt

\* What is stored for a key is the index of an entry that wrote it.
LEMMA StoredIsWrite ==
  ASSUME NEW l, NEW i \in Nat, NEW k \in Keys, NEW j \in StoreAt(l, i)[k]
  PROVE  j \in 1..i /\ l[j].kind = "put" /\ l[j].arg = k
BY DEF StoreAt, Writes

-----------------------------------------------------------------------------
(* The store and the snapshots.                                            *)

\* A snapshot becomes due before the store has loaded the one received last.
LateNil == hand = NilMsg /\ kvs /\ SnapshotDue

NoPuts(i, j) == \A m \in i+1..j : log[m].kind # "put"

\* The data of a snapshot misses at most the last put of its prefix.
Lags(s) ==
  \/ s.data = StoreAt(log, s.index)
  \/ \E j \in 1..s.index : s.data = StoreAt(log, j - 1) /\ NoPuts(j, s.index)

\* What the snapshots hold.
DataInv ==
  /\ Lags(snapFile)
  /\ pc \in Receiving => snap.data = StoreAt(log, snap.index)
  /\ pc \in Triggering => Lags(snap) /\ kvs /\ hand # NilMsg
  /\ pc = "recvPub" => snapFile.data = StoreAt(log, snapFile.index)

\* readCommits has received the nil that ends newKVStore, or will.
ReplayDone == kvPhase # "replay" \/ (hand = NilMsg /\ snapFile.index = 0)

\* newKVStore returns when the entries of the WAL have been applied, and does
\* not return at all in a process that finds a snapshot.
PhaseInv ==
  /\ kvs => kvPhase # "replay"
  /\ pc \in {"down", "bootNil"} => kvPhase = "replay" /\ hand = Nobody
  /\ pc = "bootNil" => lastIndex = 0
  /\ pc \in {"down", "bootNil", "start"} =>
       /\ appliedIndex = 0 /\ hand \in {Nobody, NilMsg}
       /\ kvPhase # "replay" => snapFile.index = 0
  /\ ReplayDone /\ pc # "stopped" => lastIndex <= appliedIndex /\ pc # "replayed"
  /\ pc = "replayed" => lastIndex = appliedIndex

\* What readCommits holds is the last put that was applied.
HandInv ==
  hand > 0 =>
    /\ hand <= appliedIndex /\ log[hand].kind = "put" /\ NoPuts(hand, appliedIndex)
    /\ kvPhase # "replay" /\ pc # "stopped" => lastIndex < hand

\* A nil that comes after replay is for a received snapshot: its file is there
\* and the map of the store is not newer.
NilInv ==
  kvPhase # "replay" /\ hand = NilMsg =>
    /\ snapFile.index > 0 /\ snapFile.data = StoreAt(log, snapFile.index)
    /\ pc = "recvPub" \/ (snapFile.index <= appliedIndex /\ NoPuts(snapFile.index, appliedIndex))
    /\ pc # "stopped" => \E w \in lastIndex..snapFile.index : kvStore = StoreAt(log, w)

\* Which prefix the map of the store is of.
TrackInv ==
  snapFile.index = 0 \/ (kvPhase # "replay" /\ pc # "stopped") =>
    /\ hand > 0 => kvStore = StoreAt(log, hand - 1)
    /\ hand = Nobody => \/ kvStore = StoreAt(log, appliedIndex)
                        \/ pc = "recvPub" /\ kvStore = StoreAt(log, snap.index)
    /\ hand = NilMsg /\ snapFile.index = 0 => kvStore = StoreAt(log, appliedIndex)

StoreInv == DataInv /\ PhaseInv /\ HandInv /\ NilInv /\ TrackInv

USE DEF NilMsg, Nobody

\* Every step keeps the invariant of the store unless a nil is late.
LEMMA StorePreserved == IInv /\ StoreInv /\ ~LateNil /\ [Next]_vars => StoreInv'
<1> SUFFICES ASSUME IInv, StoreInv, ~LateNil, [Next]_vars PROVE StoreInv'
  OBVIOUS
<1> USE DEF Receiving, Triggering
<1>0. Numbers
  BY IndexesAreNumbers DEF IInv
\* Steps that touch neither the store nor what it depends on.
<1> DEFINE Quiet ==
             /\ UNCHANGED <<log, snapFile, appliedIndex, lastIndex, kvPhase, kvs, hand, kvStore>>
             /\ pc \notin {"recvPub", "stopped"}
             /\ pc' \notin {"down", "bootNil", "start", "recvPub", "replayed"}
             /\ pc' \in Receiving => \/ pc \in Receiving /\ snap' = snap
                                     \/ snap'.data = StoreAt(log, snap'.index)
             /\ pc' \in Triggering => pc \in Triggering /\ snap' = snap
<1>Quiet. Quiet => StoreInv'
  <2> SUFFICES ASSUME Quiet PROVE StoreInv'
    OBVIOUS
  <2>1. DataInv'
    BY DEF StoreInv, DataInv, Lags, NoPuts
  <2>2. PhaseInv'
    BY DEF StoreInv, PhaseInv, ReplayDone
  <2>3. HandInv'
    BY DEF StoreInv, HandInv, NoPuts
  <2>4. NilInv'
    BY DEF StoreInv, NilInv, NoPuts
  <2>5. TrackInv'
    BY DEF StoreInv, TrackInv
  <2> QED
    BY <2>1, <2>2, <2>3, <2>4, <2>5 DEF StoreInv
\* Steps of the event loop that are quiet.
<1>Loop. SaveSnapWAL \/ AppendEntries \/ Advance \/ CompactLog \/ RemovedSelf => StoreInv'
  <2>1. SaveSnapWAL => Quiet
    BY DEF SaveSnapWAL, RecordSnapshot, node, kv
  <2>2. AppendEntries => Quiet
    BY DEF AppendEntries, disk, node, kv
  <2>3. Advance => Quiet
    BY DEF Advance, EndOfReady, disk, node, kv
  <2>4. CompactLog => Quiet
    BY DEF CompactLog, EndOfReady, disk, kv
  <2>5. RemovedSelf => Quiet
    BY DEF RemovedSelf, disk, kv
  <2> QED
    BY <1>Quiet, <2>1, <2>2, <2>3, <2>4, <2>5
\* Steps of the raft library.
<1>Ready. ASSUME NEW n, NEW c, NEW lo, NEW s, ReadyEntries(n, c, lo) \/ ReadySnapshot(s)
          PROVE  StoreInv'
  <2>1. ReadyEntries(n, c, lo) => Quiet
    BY DEF ReadyEntries, node, kv
  <2>2. ReadySnapshot(s) => Quiet
    <3> SUFFICES ASSUME ReadySnapshot(s) PROVE Quiet
      OBVIOUS
    <3>1. snap'.data = StoreAt(log, snap'.index)
      BY DEF ReadySnapshot, Snapshot
    <3> QED
      BY <3>1 DEF ReadySnapshot, node, kv
  <2> QED
    BY <1>Quiet, <1>Ready, <2>1, <2>2
<1> HIDE DEF Quiet
\* A process that starts.
<1>Boot. (Boot \/ BootNil \/ StartNode) => StoreInv'
  <2> SUFFICES ASSUME Boot \/ BootNil \/ StartNode PROVE StoreInv'
    OBVIOUS
  <2>1. CASE Boot
    <3>1. /\ pc = "down" /\ pc' \in {"walOpenFatal", "start", "bootNil"}
          /\ UNCHANGED <<log, snapFile, snap, appliedIndex, kvPhase, kvs, hand, kvStore>>
          /\ pc' = "bootNil" => lastIndex' = 0
      BY <1>0, <2>1 DEF Boot, disk, kv, Numbers
    <3>2. kvPhase = "replay" /\ hand = 0 /\ appliedIndex = 0 /\ ~kvs
      BY <3>1 DEF StoreInv, PhaseInv
    <3>3. DataInv'
      BY <3>1 DEF StoreInv, DataInv, Lags, NoPuts, Receiving, Triggering
    <3>4. PhaseInv'
      BY <3>1, <3>2 DEF PhaseInv, ReplayDone
    <3>5. HandInv' /\ NilInv'
      BY <3>1, <3>2 DEF HandInv, NilInv
    <3>6. TrackInv'
      BY <3>1, <3>2 DEF StoreInv, TrackInv
    <3> QED
      BY <3>3, <3>4, <3>5, <3>6 DEF StoreInv
  <2>2. CASE BootNil
    <3>1. /\ pc = "bootNil" /\ pc' = "start" /\ hand' = -1
          /\ UNCHANGED <<log, snapFile, snap, appliedIndex, lastIndex, kvPhase, kvs, kvStore>>
      BY <2>2 DEF BootNil, disk, node
    <3>2. kvPhase = "replay" /\ hand = 0 /\ appliedIndex = 0 /\ lastIndex = 0 /\ ~kvs
      BY <3>1 DEF StoreInv, PhaseInv
    <3>3. DataInv'
      BY <3>1 DEF StoreInv, DataInv, Lags, NoPuts, Receiving, Triggering
    <3>4. PhaseInv'
      BY <3>1, <3>2 DEF PhaseInv, ReplayDone
    <3>5. HandInv' /\ NilInv'
      BY <3>1, <3>2 DEF HandInv, NilInv
    <3>6. TrackInv'
      BY <3>1, <3>2 DEF StoreInv, TrackInv
    <3> QED
      BY <3>3, <3>4, <3>5, <3>6 DEF StoreInv
  <2>3. CASE StartNode
    <3>1. /\ pc = "start" /\ UNCHANGED <<log, snapFile, snap, lastIndex, kvPhase, kvs, hand, kvStore>>
          /\ \/ pc' = "loadStatePanic" /\ appliedIndex' = appliedIndex
             \/ pc' = "loop" /\ appliedIndex' = snapFile.index
      BY <2>3 DEF StartNode, IInv, BootInv, disk, node, kv
    <3>2. appliedIndex = 0 /\ hand \in {0, -1} /\ (kvPhase # "replay" => snapFile.index = 0)
      BY <3>1 DEF StoreInv, PhaseInv
    <3>3. DataInv'
      BY <3>1 DEF StoreInv, DataInv, Lags, NoPuts, Receiving, Triggering
    <3>4. PhaseInv'
      BY <1>0, <3>1, <3>2 DEF StoreInv, PhaseInv, ReplayDone, Numbers
    <3>5. HandInv'
      BY <3>1, <3>2 DEF HandInv
    <3>6. NilInv'
      BY <3>1, <3>2 DEF StoreInv, NilInv
    <3>7. TrackInv'
      BY <3>1, <3>2 DEF StoreInv, TrackInv
    <3> QED
      BY <3>3, <3>4, <3>5, <3>6, <3>7 DEF StoreInv
  <2> QED
    BY <2>1, <2>2, <2>3
\* saveSnap writes the file of a snapshot that lags no more than it may.
<1>SaveSnapFile. SaveSnapFile => StoreInv'
  <2> SUFFICES ASSUME SaveSnapFile PROVE StoreInv'
    OBVIOUS
  <2>a. UNCHANGED <<log, snap, appliedIndex, lastIndex, kvPhase, kvs, hand, kvStore>>
    BY DEF SaveSnapFile, node, kv
  <2>1. CASE pc = "recvFile"
    <3>1. snap.index >= snapFile.index /\ snap.index > appliedIndex
      BY <1>0, <2>1 DEF IInv, SnapInv, OrderInv, DiskInv, LoopPCs, Numbers
    <3>2. pc' = "recvPub" /\ snapFile' = snap
      BY <2>1, <3>1 DEF SaveSnapFile
    <3>3. snap.data = StoreAt(log, snap.index)
      BY <2>1 DEF StoreInv, DataInv
    <3>4. DataInv'
      BY <2>a, <3>2, <3>3 DEF DataInv, Lags
    <3>5. PhaseInv'
      BY <1>0, <2>1, <2>a, <3>1, <3>2 DEF StoreInv, PhaseInv, ReplayDone, Numbers
    <3>6. HandInv'
      BY <2>1, <2>a, <3>2 DEF StoreInv, HandInv, NoPuts
    <3>7. NilInv'
      <4> SUFFICES ASSUME kvPhase # "replay", hand = -1 PROVE NilInv'
        BY <2>a DEF NilInv
      <4>1. PICK w \in lastIndex..snapFile.index : kvStore = StoreAt(log, w)
        BY <2>1 DEF StoreInv, NilInv
      <4>2. w \in lastIndex..snap.index
        BY <1>0, <3>1 DEF Numbers
      <4>3. snap.index > 0
        BY <1>0, <3>1 DEF Numbers
      <4> QED
        BY <2>a, <3>2, <3>3, <4>1, <4>2, <4>3 DEF NilInv
    <3>8. TrackInv'
      <4>1. snapFile'.index # 0
        BY <1>0, <3>1, <3>2 DEF Numbers
      <4> QED
        BY <2>1, <2>a, <3>2, <4>1 DEF StoreInv, TrackInv
    <3> QED
      BY <3>4, <3>5, <3>6, <3>7, <3>8 DEF StoreInv
  <2>2. CASE pc = "trigFile"
    <3>1. pc' = "compact" /\ (snapFile' = snap \/ snapFile' = snapFile)
      BY <2>2 DEF SaveSnapFile
    <3>2. Lags(snap) /\ kvs /\ hand # -1 /\ kvPhase # "replay"
      BY <2>2 DEF StoreInv, DataInv, PhaseInv
    <3>3. DataInv'
      BY <2>2, <2>a, <3>1, <3>2 DEF StoreInv, DataInv, Lags, NoPuts
    <3>4. PhaseInv'
      BY <2>2, <2>a, <3>1, <3>2 DEF StoreInv, PhaseInv, ReplayDone
    <3>5. HandInv' /\ NilInv'
      BY <2>2, <2>a, <3>1, <3>2 DEF StoreInv, HandInv, NilInv, NoPuts
    <3>6. TrackInv'
      BY <2>2, <2>a, <3>1, <3>2 DEF StoreInv, TrackInv
    <3> QED
      BY <3>3, <3>4, <3>5, <3>6 DEF StoreInv
  <2> QED
    BY <2>1, <2>2 DEF SaveSnapFile
\* publishSnapshot tells the store of a file that has all its index stands for.
<1>PublishSnapshot. PublishSnapshot => StoreInv'
  <2> SUFFICES ASSUME PublishSnapshot PROVE StoreInv'
    OBVIOUS
  <2>1. pc = "recvPub" /\ UNCHANGED <<log, snap, snapFile, lastIndex, kvPhase, kvs, kvStore>>
    BY DEF PublishSnapshot, disk, node
  <2>2. snapFile.index = snap.index /\ snap.index > appliedIndex
    BY <1>0, <2>1 DEF IInv, SnapInv, Numbers
  <2>3. pc' = "append" /\ hand = 0 /\ hand' = -1 /\ appliedIndex' = snapFile.index
    BY <1>0, <2>2 DEF PublishSnapshot, Receptive, Numbers
  <2>4. snapFile.data = StoreAt(log, snapFile.index) /\ snapFile.index > 0
    BY <1>0, <2>1, <2>2 DEF StoreInv, DataInv, Numbers
  <2>5. DataInv'
    BY <2>1, <2>3 DEF StoreInv, DataInv, Lags, NoPuts
  <2>6. PhaseInv'
    BY <1>0, <2>1, <2>2, <2>3, <2>4 DEF StoreInv, PhaseInv, ReplayDone, Numbers
  <2>7. HandInv'
    BY <2>3 DEF HandInv
  <2>8. NilInv'
    <3> SUFFICES ASSUME kvPhase # "replay" PROVE NilInv'
      BY <2>1 DEF NilInv
    <3>1. lastIndex <= appliedIndex
      BY <2>1 DEF StoreInv, PhaseInv, ReplayDone
    <3>2. kvStore = StoreAt(log, appliedIndex) \/ kvStore = StoreAt(log, snap.index)
      BY <2>1, <2>3 DEF StoreInv, TrackInv
    <3>3. appliedIndex \in lastIndex..snapFile.index /\ snap.index \in lastIndex..snapFile.index
      BY <1>0, <2>2, <3>1 DEF Numbers
    <3>4. \A m \in snapFile.index+1..snapFile.index : FALSE
      BY <1>0 DEF Numbers
    <3>5. snapFile.index <= snapFile.index
      BY <1>0 DEF Numbers
    <3> QED
      BY <2>1, <2>3, <2>4, <3>2, <3>3, <3>4, <3>5 DEF NilInv, NoPuts
  <2>9. TrackInv'
    BY <2>1, <2>3, <2>4 DEF TrackInv
  <2> QED
    BY <2>5, <2>6, <2>7, <2>8, <2>9 DEF StoreInv
\* publishEntries hands the store one put after the other.
<1>PublishEntry. PublishEntry => StoreInv'
  <2> SUFFICES ASSUME PublishEntry PROVE StoreInv'
    OBVIOUS
  <2>1. next = appliedIndex + 1 /\ next \in 1..Len(log) /\ log[next] \in Entry
    BY NextEntry DEF PublishEntry
  <2>2. /\ pc = "publish" /\ appliedIndex' = next
        /\ pc' = IF next = lastIndex THEN "replayed" ELSE "publish"
        /\ UNCHANGED <<log, snap, snapFile, lastIndex, kvPhase, kvs, kvStore>>
    BY DEF PublishEntry, ReplayFinished, disk
  <2>3. \/ log[next].kind = "put" /\ hand = 0 /\ hand' = next
        \/ log[next].kind # "put" /\ hand' = hand
    BY DEF PublishEntry, PublishData, IgnoreEmpty, AddNode, RemoveNode, Receptive
  <2>4. DataInv'
    BY <2>2 DEF StoreInv, DataInv, Lags, NoPuts
  <2>5. ReplayDone => lastIndex <= appliedIndex
    BY <2>2 DEF StoreInv, PhaseInv
  <2>6. ReplayDone' => ReplayDone
    BY <2>1, <2>2, <2>3 DEF ReplayDone
  <2>7. PhaseInv'
    BY <1>0, <2>1, <2>2, <2>5, <2>6 DEF StoreInv, PhaseInv, Numbers
  <2>8. ASSUME NEW i \in Nat, i <= appliedIndex, NoPuts(i, appliedIndex), log[next].kind # "put"
        PROVE  NoPuts(i, next)
    <3>1. \A m \in i+1..next : m \in i+1..appliedIndex \/ m = next
      BY <1>0, <2>1 DEF Numbers
    <3> QED
      BY <2>8, <3>1 DEF NoPuts
  <2>9. HandInv'
    <3>1. CASE log[next].kind = "put" /\ hand = 0 /\ hand' = next
      <4>1. NoPuts(next, next)
        BY <2>1 DEF NoPuts
      <4>2. kvPhase # "replay" => lastIndex < next
        BY <1>0, <2>1, <2>5 DEF ReplayDone, Numbers
      <4> QED
        BY <2>1, <2>2, <3>1, <4>1, <4>2 DEF HandInv, NoPuts
    <3>2. CASE log[next].kind # "put" /\ hand' = hand
      <4> SUFFICES ASSUME hand > 0 PROVE HandInv'
        BY <3>2 DEF HandInv
      <4>1. /\ hand <= appliedIndex /\ log[hand].kind = "put" /\ NoPuts(hand, appliedIndex)
            /\ kvPhase # "replay" => lastIndex < hand
        BY <2>2 DEF StoreInv, HandInv
      <4>2. hand \in Nat
        BY DEF IInv, TypeOK
      <4>3. NoPuts(hand, next) /\ hand <= next
        BY <1>0, <2>1, <2>8, <3>2, <4>1, <4>2 DEF Numbers
      <4> QED
        BY <2>2, <3>2, <4>1, <4>3 DEF HandInv, NoPuts
    <3> QED
      BY <2>3, <3>1, <3>2
  <2>10. NilInv'
    <3> SUFFICES ASSUME kvPhase # "replay", hand' = -1 PROVE NilInv'
      BY <2>2 DEF NilInv
    <3>1. hand = -1 /\ log[next].kind # "put"
      BY <2>1, <2>3
    <3>2. /\ snapFile.index > 0 /\ snapFile.data = StoreAt(log, snapFile.index)
          /\ snapFile.index <= appliedIndex /\ NoPuts(snapFile.index, appliedIndex)
          /\ \E w \in lastIndex..snapFile.index : kvStore = StoreAt(log, w)
      BY <2>2, <3>1 DEF StoreInv, NilInv
    <3>3. NoPuts(snapFile.index, next) /\ snapFile.index <= next
      BY <1>0, <2>1, <2>8, <3>1, <3>2 DEF Numbers
    <3> QED
      BY <2>2, <3>2, <3>3 DEF NilInv, NoPuts
  <2>11. TrackInv'
    <3> SUFFICES ASSUME snapFile.index = 0 \/ kvPhase # "replay" PROVE TrackInv'
      BY <2>2 DEF TrackInv
    <3>1. /\ hand > 0 => kvStore = StoreAt(log, hand - 1)
          /\ hand = 0 => kvStore = StoreAt(log, appliedIndex)
          /\ hand = -1 /\ snapFile.index = 0 => kvStore = StoreAt(log, appliedIndex)
      BY <2>2 DEF StoreInv, TrackInv
    <3>2. CASE log[next].kind = "put" /\ hand = 0 /\ hand' = next
      <4>1. hand' > 0 /\ hand' - 1 = appliedIndex
        BY <1>0, <2>1, <3>2 DEF Numbers
      <4> QED
        BY <2>1, <2>2, <3>1, <3>2, <4>1 DEF TrackInv
    <3>3. CASE log[next].kind # "put" /\ hand' = hand
      <4>1. NoPuts(appliedIndex, next)
        BY <1>0, <2>1, <3>3 DEF NoPuts, Numbers
      <4>2. StoreAt(log, next) = StoreAt(log, appliedIndex)
        BY <1>0, <2>1, <4>1, NoPutStep DEF NoPuts, Numbers
      <4> QED
        BY <2>2, <3>1, <3>3, <4>2 DEF TrackInv
    <3> QED
      BY <2>3, <3>2, <3>3
  <2> QED
    BY <2>4, <2>7, <2>9, <2>10, <2>11 DEF StoreInv
\* The nil of publishEntries ends replay.
<1>PublishNil. PublishNil => StoreInv'
  <2> SUFFICES ASSUME PublishNil PROVE StoreInv'
    OBVIOUS
  <2>1. /\ pc = "replayed" /\ pc' = "publish" /\ hand = 0 /\ hand' = -1
        /\ UNCHANGED <<log, snap, snapFile, appliedIndex, lastIndex, kvPhase, kvs, kvStore>>
    BY DEF PublishNil, Receptive, disk, node
  <2>2. kvPhase = "replay"
    BY <2>1 DEF StoreInv, PhaseInv, ReplayDone
  <2>3. lastIndex = appliedIndex
    BY <2>1 DEF StoreInv, PhaseInv
  <2>4. DataInv'
    BY <2>1 DEF StoreInv, DataInv, Lags, NoPuts
  <2>5. PhaseInv'
    BY <1>0, <2>1, <2>2, <2>3 DEF StoreInv, PhaseInv, Numbers
  <2>6. HandInv' /\ NilInv'
    BY <2>1, <2>2 DEF HandInv, NilInv
  <2>7. TrackInv'
    BY <2>1, <2>2 DEF StoreInv, TrackInv
  <2> QED
    BY <2>4, <2>5, <2>6, <2>7 DEF StoreInv
\* maybeTriggerSnapshot takes the map less at most what readCommits holds.
<1>TriggerSnapshot. TriggerSnapshot => StoreInv'
  <2> SUFFICES ASSUME TriggerSnapshot PROVE StoreInv'
    OBVIOUS
  <2>1. /\ pc = "publish" /\ SnapshotDue
        /\ UNCHANGED <<log, snapFile, appliedIndex, lastIndex, kvPhase, kvs, hand, kvStore>>
    BY DEF TriggerSnapshot, disk, node, kv
  <2>2. CASE pc' \in {"nilStorePanic", "createSnapshotPanic"}
    BY <2>1, <2>2, <1>Quiet DEF Quiet
  <2>3. CASE pc' = "trigWal" /\ kvs /\ snap' = Snapshot(appliedIndex, kvStore, confState)
    <3>1. hand # -1 /\ kvPhase # "replay" /\ snap'.index = appliedIndex /\ snap'.data = kvStore
      BY <2>1, <2>3 DEF LateNil, StoreInv, PhaseInv, Snapshot
    <3>2. hand = 0 \/ hand > 0
      BY <3>1 DEF IInv, TypeOK
    <3>3. Lags(snap')
      <4>1. CASE hand = 0
        BY <2>1, <3>1, <4>1 DEF StoreInv, TrackInv, Lags
      <4>2. CASE hand > 0
        <5>1. /\ hand <= appliedIndex /\ NoPuts(hand, appliedIndex)
              /\ kvStore = StoreAt(log, hand - 1)
          BY <2>1, <3>1, <4>2 DEF StoreInv, TrackInv, HandInv
        <5>2. hand \in 1..appliedIndex
          BY <1>0, <4>2, <5>1 DEF IInv, TypeOK, Numbers
        <5> QED
          BY <3>1, <5>1, <5>2 DEF Lags
      <4> QED
        BY <3>2, <4>1, <4>2
    <3>4. DataInv'
      BY <2>1, <2>3, <3>1, <3>3 DEF StoreInv, DataInv, Lags, NoPuts
    <3>5. PhaseInv'
      BY <2>1, <2>3, <3>1 DEF StoreInv, PhaseInv, ReplayDone
    <3>6. HandInv' /\ NilInv'
      BY <2>1, <2>3, <3>1 DEF StoreInv, HandInv, NilInv, NoPuts
    <3>7. TrackInv'
      BY <2>1, <2>3, <3>1 DEF StoreInv, TrackInv
    <3> QED
      BY <3>4, <3>5, <3>6, <3>7 DEF StoreInv
  <2> QED
    BY <2>2, <2>3 DEF TriggerSnapshot
\* readCommits stores what it holds.
<1>ApplyEntry. ApplyEntry => StoreInv'
  <2> SUFFICES ASSUME ApplyEntry PROVE StoreInv'
    OBVIOUS
  <2>0. Numbers /\ hand \in Nat \ {0}
    BY IndexesAreNumbers DEF IInv, TypeOK, ApplyEntry
  <2>1. /\ hand' = 0 /\ kvStore' = [kvStore EXCEPT ![log[hand].arg] = {hand}]
        /\ UNCHANGED <<log, pc, snap, snapFile, appliedIndex, lastIndex, kvPhase, kvs>>
    BY DEF ApplyEntry, disk, node
  <2>2. hand <= appliedIndex /\ log[hand].kind = "put" /\ NoPuts(hand, appliedIndex)
    BY <2>0 DEF StoreInv, HandInv
  <2>3. StoreAt(log, appliedIndex) = [StoreAt(log, hand - 1) EXCEPT ![log[hand].arg] = {hand}]
    <3>1. StoreAt(log, appliedIndex) = StoreAt(log, hand)
      BY <2>0, <2>2, NoPutStep DEF NoPuts, Numbers
    <3> QED
      BY <2>0, <2>2, <3>1, PutStep
  <2>4. DataInv'
    BY <2>1 DEF StoreInv, DataInv, Lags, NoPuts
  <2>5. PhaseInv'
    BY <2>1 DEF StoreInv, PhaseInv, ReplayDone
  <2>6. HandInv' /\ NilInv'
    BY <2>1 DEF HandInv, NilInv
  <2>7. TrackInv'
    <3> SUFFICES ASSUME snapFile.index = 0 \/ (kvPhase # "replay" /\ pc # "stopped") PROVE TrackInv'
      BY <2>1 DEF TrackInv
    <3>1. hand > 0
      BY <2>0
    <3>2. kvStore = StoreAt(log, hand - 1)
      BY <3>1 DEF StoreInv, TrackInv
    <3>3. kvStore' = StoreAt(log, appliedIndex)
      BY <2>1, <2>3, <3>2
    <3> QED
      BY <2>1, <3>3 DEF TrackInv
  <2> QED
    BY <2>4, <2>5, <2>6, <2>7 DEF StoreInv
\* readCommits handles a nil.
<1>ReceiveNil. ReceiveNil => StoreInv'
  <2> SUFFICES ASSUME ReceiveNil PROVE StoreInv'
    OBVIOUS
  <2>1. /\ hand = -1 /\ hand' = 0
        /\ UNCHANGED <<log, pc, snap, snapFile, appliedIndex, lastIndex, kvs>>
    BY DEF ReceiveNil, disk, node
  <2>2. DataInv' /\ HandInv' /\ NilInv'
    BY <2>1 DEF StoreInv, DataInv, Lags, NoPuts, HandInv, NilInv
  <2>3. CASE snapFile.index = 0
    <3>1. kvPhase = "replay" /\ kvPhase' = "live" /\ kvStore' = kvStore
      BY <1>0, <2>1, <2>3 DEF ReceiveNil, AfterReturn, StoreInv, NilInv, Numbers
    <3>2. PhaseInv'
      BY <2>1, <2>3, <3>1 DEF StoreInv, PhaseInv, ReplayDone
    <3>3. TrackInv'
      BY <2>1, <2>3, <3>1 DEF StoreInv, TrackInv
    <3> QED
      BY <2>2, <3>2, <3>3 DEF StoreInv
  <2>4. CASE snapFile.index # 0
    <3>1. kvPhase' = kvPhase /\ kvStore' = snapFile.data
      BY <2>4 DEF ReceiveNil
    <3>2. PhaseInv'
      BY <2>1, <2>4, <3>1 DEF StoreInv, PhaseInv, ReplayDone
    <3>3. TrackInv'
      <4> SUFFICES ASSUME kvPhase # "replay" PROVE TrackInv'
        BY <2>1, <2>4, <3>1 DEF TrackInv
      <4>1. snapFile.data = StoreAt(log, snapFile.index)
        BY <2>1 DEF StoreInv, NilInv
      <4>2. CASE pc = "recvPub"
        <5>1. snapFile.index = snap.index
          BY <4>2 DEF IInv, SnapInv
        <5> QED
          BY <2>1, <3>1, <4>1, <4>2, <5>1 DEF TrackInv
      <4>3. CASE pc # "recvPub"
        <5>1. snapFile.index <= appliedIndex /\ NoPuts(snapFile.index, appliedIndex)
          BY <2>1, <4>3 DEF StoreInv, NilInv
        <5>2. StoreAt(log, appliedIndex) = StoreAt(log, snapFile.index)
          BY <1>0, <5>1, NoPutStep DEF NoPuts, Numbers
        <5> QED
          BY <2>1, <3>1, <4>1, <5>2 DEF TrackInv
      <4> QED
        BY <4>2, <4>3
    <3> QED
      BY <2>2, <3>2, <3>3 DEF StoreInv
  <2> QED
    BY <2>3, <2>4
\* main and the end of the channels.
<1>Main. (CommitsEnd \/ AssignKVS) => StoreInv'
  <2> SUFFICES ASSUME CommitsEnd \/ AssignKVS PROVE StoreInv'
    OBVIOUS
  <2>1. CASE CommitsEnd
    <3>1. /\ pc = "stopped" /\ hand = 0 /\ kvPhase' \in {"live", "ended"}
          /\ UNCHANGED <<log, pc, snap, snapFile, appliedIndex, lastIndex, kvs, hand, kvStore>>
      BY <2>1 DEF CommitsEnd, AfterReturn, Receptive, disk, node
    <3>2. DataInv' /\ HandInv' /\ NilInv'
      BY <3>1 DEF StoreInv, DataInv, Lags, NoPuts, HandInv, NilInv
    <3>3. PhaseInv'
      BY <3>1 DEF StoreInv, PhaseInv, ReplayDone
    <3>4. TrackInv'
      BY <3>1 DEF StoreInv, TrackInv
    <3> QED
      BY <3>2, <3>3, <3>4 DEF StoreInv
  <2>2. CASE AssignKVS
    <3>1. /\ kvPhase # "replay" /\ kvs'
          /\ UNCHANGED <<log, pc, snap, snapFile, appliedIndex, lastIndex, kvPhase, hand, kvStore>>
      BY <2>2 DEF AssignKVS, disk, node
    <3>2. DataInv' /\ HandInv'
      BY <3>1 DEF StoreInv, DataInv, Lags, NoPuts, HandInv
    <3>3. NilInv'
      BY <3>1 DEF StoreInv, NilInv, NoPuts
    <3>4. PhaseInv'
      BY <3>1 DEF StoreInv, PhaseInv, ReplayDone
    <3>5. TrackInv'
      BY <3>1 DEF StoreInv, TrackInv
    <3> QED
      BY <3>2, <3>3, <3>4, <3>5 DEF StoreInv
  <2> QED
    BY <2>1, <2>2
\* The log grows at its end only.
<1>Commit. ASSUME NEW e \in Workload, Commit(e) PROVE StoreInv'
  <2> USE <1>Commit
  <2>1. /\ pc = "loop" /\ log' = Append(log, e)
        /\ UNCHANGED <<pc, snap, snapFile, appliedIndex, lastIndex, kvPhase, kvs, hand, kvStore>>
    BY DEF Commit, disk, node, kv
  <2>2. /\ log \in Seq(Entry) /\ snapFile.index \in 0..Len(log) /\ appliedIndex \in 0..Len(log)
    BY <2>1, IndexesInLog DEF LoopPCs
  <2>3. \A i \in 0..Len(log) : StoreAt(log', i) = StoreAt(log, i)
    BY <2>1, <2>2, PrefixStays
  <2>4. \A i \in 1..Len(log) : log'[i] = log[i]
    BY <2>1, <2>2
  <2>5. \A i \in Nat, j \in 0..Len(log) : NoPuts(i, j)' <=> NoPuts(i, j)
    <3>1. \A i \in Nat, j \in 0..Len(log) : \A m \in i+1..j : m \in 1..Len(log)
      BY <2>2
    <3> QED
      BY <2>4, <3>1 DEF NoPuts
  <2>6. hand \in Nat \/ hand = -1
    BY DEF IInv, TypeOK
  <2>7. DataInv'
    <3>1. \A j \in 1..snapFile.index : j - 1 \in 0..Len(log) /\ j \in Nat
      BY <2>2
    <3>2. Lags(snapFile)'
      <4>1. Lags(snapFile)
        BY DEF StoreInv, DataInv
      <4> QED
        BY <2>1, <2>2, <2>3, <2>5, <3>1, <4>1 DEF Lags
    <3> QED
      BY <2>1, <3>2 DEF DataInv
  <2>8. PhaseInv'
    BY <2>1 DEF StoreInv, PhaseInv, ReplayDone
  <2>9. hand > 0 => hand \in 1..Len(log) /\ hand \in Nat /\ hand - 1 \in 0..Len(log)
    BY <2>2, <2>6 DEF StoreInv, HandInv
  <2>10. HandInv'
    BY <2>1, <2>2, <2>4, <2>5, <2>9 DEF StoreInv, HandInv
  <2>11. NilInv'
    <3>1. \A w \in lastIndex..snapFile.index : w \in 0..Len(log)
      BY <1>0, <2>2 DEF Numbers
    <3> QED
      BY <1>0, <2>1, <2>2, <2>3, <2>5, <3>1 DEF StoreInv, NilInv, Numbers
  <2>12. TrackInv'
    BY <2>1, <2>2, <2>3, <2>9 DEF StoreInv, TrackInv
  <2> QED
    BY <2>7, <2>8, <2>10, <2>11, <2>12 DEF StoreInv
\* A process that has ended leaves the disk.
<1>Down. Down => StoreInv'
  <2> SUFFICES ASSUME Down PROVE StoreInv'
    OBVIOUS
  <2>1. /\ pc' = "down" /\ appliedIndex' = 0 /\ lastIndex' = 0 /\ kvPhase' = "replay" /\ hand' = 0
        /\ ~kvs' /\ kvStore' = NoStore /\ UNCHANGED <<log, snapFile>>
    BY DEF Down, disk
  <2>2. DataInv'
    BY <2>1 DEF StoreInv, DataInv, Lags, NoPuts
  <2>3. PhaseInv' /\ HandInv' /\ NilInv'
    BY <2>1 DEF PhaseInv, ReplayDone, HandInv, NilInv
  <2>4. TrackInv'
    <3>1. kvStore' = StoreAt(log', 0)
      BY <2>1, NothingStored
    <3> QED
      BY <2>1, <3>1 DEF TrackInv
  <2> QED
    BY <2>2, <2>3, <2>4 DEF StoreInv
<1>1. CASE NodeStep
  BY <1>1, <1>Loop, <1>Boot, <1>SaveSnapFile, <1>PublishSnapshot,
     <1>PublishEntry, <1>PublishNil, <1>TriggerSnapshot DEF NodeStep
<1>2. CASE StoreStep
  BY <1>2, <1>ApplyEntry, <1>ReceiveNil, <1>Main DEF StoreStep
<1>3. CASE Environment
  BY <1>3, <1>Ready, <1>Commit, <1>Down DEF Environment, Exit, Crash
<1>4. CASE UNCHANGED vars
  <2>1. UNCHANGED <<log, pc, snap, snapFile, appliedIndex, lastIndex, kvPhase, kvs, hand, kvStore>>
    BY <1>4, ZenonT(30) DEF vars, disk, node, kv
  <2>2. DataInv' /\ HandInv'
    BY <2>1 DEF StoreInv, DataInv, Lags, NoPuts, HandInv
  <2>3. PhaseInv' /\ NilInv'
    BY <2>1 DEF StoreInv, PhaseInv, ReplayDone, NilInv, NoPuts
  <2>4. TrackInv'
    BY <2>1 DEF StoreInv, TrackInv
  <2> QED
    BY <2>2, <2>3, <2>4 DEF StoreInv
<1> QED
  BY <1>1, <1>2, <1>3, <1>4 DEF Next

\* A new member has an empty store and no snapshot.
LEMMA StoreInit == Init => StoreInv
<1> SUFFICES ASSUME Init PROVE StoreInv
  OBVIOUS
<1>1. /\ pc = "down" /\ appliedIndex = 0 /\ lastIndex = 0 /\ kvPhase = "replay" /\ hand = 0
      /\ ~kvs /\ kvStore = NoStore /\ snapFile.index = 0 /\ snapFile.data = NoStore
  BY DEF Init, NoSnapshot, Snapshot
<1>2. DataInv
  BY <1>1, NothingStored DEF DataInv, Lags, Receiving, Triggering
<1>3. PhaseInv /\ HandInv /\ NilInv /\ TrackInv
  BY <1>1, NothingStored DEF PhaseInv, ReplayDone, HandInv, NilInv, TrackInv
<1> QED
  BY <1>2, <1>3 DEF StoreInv

\* In every run in which no nil is late, readCommits, the snapshots and the
\* event loop agree on what was applied.
THEOREM StoreInvariance == Spec /\ []~LateNil => []StoreInv
BY StoreInit, StorePreserved, Invariance, PTL DEF Spec

\* The map that clients read is the one of the applied prefix, less what
\* readCommits holds, over crashes, replays and received snapshots, until the
\* member is removed.
THEOREM StoreFollowsLog == Spec /\ []~LateNil => [](pc # "stopped" => StoreIsCommittedPrefix)
<1>1. IInv /\ StoreInv => (pc # "stopped" => StoreIsCommittedPrefix)
  <2> SUFFICES ASSUME IInv, StoreInv, kvs, hand # -1, pc # "stopped" PROVE StoreIsCommittedPrefix
    BY DEF StoreIsCommittedPrefix
  <2>1. hand = 0 \/ hand > 0
    BY DEF IInv, TypeOK
  <2> QED
    BY <2>1 DEF StoreInv, PhaseInv, TrackInv, StoreIsCommittedPrefix
<1> QED
  BY <1>1, StoreInvariance, Invariance, PTL

\* A snapshot file misses at most the last put of its prefix, which the store
\* had been handed and had not applied when getSnapshot took the map.
THEOREM SnapshotsLagByOne == Spec /\ []~LateNil => []SnapshotLagsByOneEntry
<1>1. StoreInv => SnapshotLagsByOneEntry
  BY DEF StoreInv, DataInv, Lags, NoPuts, SnapshotLagsByOneEntry
<1> QED
  BY <1>1, StoreInvariance, PTL
=============================================================================
