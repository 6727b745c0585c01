--------------------------- MODULE KVMemberProofs ---------------------------
(***************************************************************************)
(* What a member knows of the cluster and what it shows its clients, for   *)
(* every workload, snapshot count and number of crashes.                   *)
(***************************************************************************)
EXTENDS KVNodeServed, KVStoreProofs

USE ConstantsAssumption, CountsAssumption DEF Indexes

\* The solvers that a leaf without one of its own tries in turn, with their time
\* limits in seconds.
USE SMTT(15), ZenonT(20), SMTT(30), SMTT(60), SMTT(120)

-----------------------------------------------------------------------------
(* The membership and the peers.                                           *)

ConfInv ==
  /\ snapFile.conf = MembersAt(log, snapFile.index)
  /\ pc \in Receiving \cup Triggering => snap.conf = MembersAt(log, snap.index)
  /\ ConfStateMatchesLog

\* One more entry in a range that ends at i.
LEMMA RangeStep ==
  ASSUME NEW i \in Nat
  PROVE  /\ \A j : j \in 1..i+1 <=> j \in 1..i \/ j = i + 1
         /\ \A j \in 1..i : \A m : m \in j+1..i+1 <=> m \in j+1..i \/ m = i + 1
         /\ \A m : m \notin (i+1)+1..i+1
  OBVIOUS

\* What the next entry does to the membership.
LEMMA MembersStep ==
  ASSUME NEW l, NEW i \in Nat, NEW n \in Nodes
  PROVE  n \in MembersAt(l, i + 1) <=>
           \/ l[i + 1].kind \in {"addNode", "bootNode"} /\ l[i + 1].arg = n
           \/ n \in MembersAt(l, i) /\ ~Removes(l[i + 1], n)
BY RangeStep DEF MembersAt, Removes

\* What it does to the peers.
LEMMA PeersStep ==
  ASSUME NEW l, NEW i \in Nat, NEW n \in Nodes
  PROVE  n \in PeersAt(l, i + 1) <=>
           \/ l[i + 1].kind = "addNode" /\ l[i + 1].arg = n
           \/ n \in PeersAt(l, i) /\ ~Removes(l[i + 1], n)
BY RangeStep DEF PeersAt, Removes

\* Before the first entry.
LEMMA NoMembers ==
  ASSUME NEW l PROVE MembersAt(l, 0) = {} /\ PeersAt(l, 0) = StartPeers
<1>1. 1..0 = {}
  OBVIOUS
<1>2. MembersAt(l, 0) = {}
  BY <1>1 DEF MembersAt
<1>3. PeersAt(l, 0) = {n \in Nodes : n \in StartPeers}
  BY <1>1 DEF PeersAt
<1> QED
  BY <1>2, <1>3, ConstantsAssumption DEF Nodes

\* The membership is that of the log in rc.confState and in every snapshot.
LEMMA ConfPreserved == IInv /\ ConfInv /\ [Next]_vars => ConfInv'
<1> SUFFICES ASSUME IInv, ConfInv, [Next]_vars PROVE ConfInv'
  OBVIOUS
<1> USE DEF ConfInv, ConfStateMatchesLog, LoopPCs, Receiving, Triggering
<1>1. CASE Boot \/ BootNil \/ RemovedSelf \/ PublishNil \/ AppendEntries
  BY <1>1 DEF Boot, BootNil, RemovedSelf, PublishNil, AppendEntries, disk, node, Fatals
<1>2. CASE StartNode
  <2>1. pc' = "loadStatePanic" \/ (pc' = "loop" /\ confState' = snapFile.conf /\ appliedIndex' = storage.snap)
    BY <1>2 DEF StartNode, ConfAtStart
  <2>2. storage.snap = snapFile.index /\ UNCHANGED <<log, snapFile, snap>>
    BY <1>2 DEF StartNode, IInv, BootInv, disk
  <2> QED
    BY <2>1, <2>2
<1>3. CASE SaveSnapWAL
  BY <1>3 DEF SaveSnapWAL, RecordSnapshot, node
<1>4. CASE SaveSnapFile
  <2>1. /\ pc \in {"recvFile", "trigFile"} /\ pc' \in {"recvPub", "compact"}
        /\ snapFile' = snap \/ snapFile' = snapFile
        /\ UNCHANGED <<log, snap, confState, appliedIndex>>
    BY <1>4 DEF SaveSnapFile, node
  <2> QED
    BY <2>1
<1>5. CASE PublishSnapshot
  <2>1. /\ pc = "recvPub" /\ UNCHANGED <<log, snapFile, snap>>
        /\ \/ pc' = "oldSnapshotFatal"
           \/ pc' = "append" /\ confState' = snap.conf /\ appliedIndex' = snap.index
    BY <1>5 DEF PublishSnapshot, disk
  <2> QED
    BY <2>1
<1>6. CASE PublishEntry
  <2>1. next = appliedIndex + 1 /\ next \in 1..Len(log) /\ log[next] \in Entry /\ appliedIndex \in Nat
    BY <1>6, NextEntry, IndexesInLog DEF PublishEntry
  <2>2. pc' \in {"publish", "replayed"} /\ appliedIndex' = next /\ UNCHANGED <<log, snapFile, snap>>
    BY <1>6, ZenonT(30) DEF PublishEntry, disk
  <2>3. confState = MembersAt(log, appliedIndex)
    BY <1>6 DEF PublishEntry
  <2>4. \A n \in Nodes : n \in confState' <=>
           \/ log[next].kind \in {"addNode", "bootNode"} /\ log[next].arg = n
           \/ n \in confState /\ ~Removes(log[next], n)
    <3> DEFINE e == log[next]
    <3>1. PublishData(e) \/ IgnoreEmpty(e) \/ AddNode(e) \/ RemoveNode(e)
      BY <1>6 DEF PublishEntry
    <3>2. e.kind \in {"put", "empty", "addNode", "bootNode", "removeNode"}
      BY <2>1 DEF Entry
    <3> QED
      BY <3>1, <3>2 DEF PublishData, IgnoreEmpty, AddNode, RemoveNode, Removes
  <2>5. \A n \in Nodes : n \in confState' <=> n \in MembersAt(log, next)
    BY <2>1, <2>3, <2>4, MembersStep
  <2>6. confState' \subseteq Nodes /\ MembersAt(log, next) \subseteq Nodes
    BY <1>6, NextPreserves, ZenonT(30) DEF IInv, TypeOK, MembersAt
  <2> QED
    BY <2>2, <2>5, <2>6, ZenonT(30)
<1>7. CASE Advance
  BY <1>7 DEF Advance, EndOfReady, disk, node
<1>8. CASE TriggerSnapshot
  <2>1. /\ pc = "publish" /\ UNCHANGED <<log, snapFile, confState, appliedIndex>>
        /\ \/ pc' \in {"nilStorePanic", "createSnapshotPanic"}
           \/ pc' = "trigWal" /\ snap' = Snapshot(appliedIndex, kvStore, confState)
    BY <1>8 DEF TriggerSnapshot, disk, node
  <2>2. pc' = "trigWal" => snap'.index = appliedIndex /\ snap'.conf = confState
    BY <2>1 DEF Snapshot
  <2>3. confState = MembersAt(log, appliedIndex) /\ snapFile.conf = MembersAt(log, snapFile.index)
    BY <2>1
  <2> QED
    BY <2>1, <2>2, <2>3, ZenonT(30)
<1>9. CASE CompactLog
  BY <1>9 DEF CompactLog, EndOfReady, disk
<1>10. CASE StoreStep
  BY <1>10 DEF StoreStep, ApplyEntry, ReceiveNil, CommitsEnd, AssignKVS, disk, node
<1>11. ASSUME NEW e \in Workload, Commit(e) PROVE ConfInv'
  <2>1. /\ log' = Append(log, e) /\ pc = "loop"
        /\ UNCHANGED <<snapFile, pc, snap, confState, appliedIndex>>
    BY <1>11 DEF Commit, disk, node
  <2>2. log \in Seq(Entry) /\ snapFile.index \in 0..Len(log) /\ appliedIndex \in 0..Len(log)
    BY <2>1, IndexesInLog
  <2>3. /\ MembersAt(log', snapFile.index) = MembersAt(log, snapFile.index)
        /\ MembersAt(log', appliedIndex) = MembersAt(log, appliedIndex)
    BY <2>1, <2>2, PrefixStays
  <2> QED
    BY <2>1, <2>3
<1>12. ASSUME NEW n, NEW c, NEW lo, ReadyEntries(n, c, lo) PROVE ConfInv'
  BY <1>12 DEF ReadyEntries, node
<1>13. ASSUME NEW s, ReadySnapshot(s) PROVE ConfInv'
  BY <1>13 DEF ReadySnapshot, Snapshot, node
<1>14. CASE Exit \/ Crash
  BY <1>14 DEF Exit, Crash, Down, disk
<1>15. CASE UNCHANGED vars
  BY <1>15, ZenonT(30) DEF vars, disk, node
<1> QED
  BY <1>1, <1>2, <1>3, <1>4, <1>5, <1>6, <1>7, <1>8, <1>9, <1>10, <1>11, <1>12, <1>13, <1>14,
     <1>15, ZenonT(30) DEF Next, NodeStep, Environment

\* rc.confState is the membership of the applied log, over snapshots made and
\* received, restarts and replays.
THEOREM MembershipIsKept == Spec => []ConfStateMatchesLog
<1>1. Init => ConfInv
  BY NoMembers DEF Init, ConfInv, ConfStateMatchesLog, NoSnapshot, Snapshot, LoopPCs, Receiving, Triggering
<1>2. ConfInv => ConfStateMatchesLog
  BY DEF ConfInv
<1> QED
  BY <1>1, <1>2, ConfPreserved, Invariance, PTL DEF Spec

\* The transport has the peers of the log as long as there is no snapshot.
LEMMA PeersPreserved == IInv /\ PeersFollowLog /\ [Next]_vars => PeersFollowLog'
<1> SUFFICES ASSUME IInv, PeersFollowLog, [Next]_vars PROVE PeersFollowLog'
  OBVIOUS
<1> USE DEF PeersFollowLog, LoopPCs
<1>1. CASE Boot \/ BootNil \/ RemovedSelf \/ PublishNil \/ AppendEntries
  BY <1>1 DEF Boot, BootNil, RemovedSelf, PublishNil, AppendEntries, disk, node, Fatals
<1>2. CASE StartNode
  <2>1. pc' = "loadStatePanic" \/ (pc' = "loop" /\ peers' = StartPeers /\ appliedIndex' = storage.snap)
    BY <1>2 DEF StartNode
  <2>2. storage.snap = snapFile.index /\ UNCHANGED <<log, snapFile>>
    BY <1>2 DEF StartNode, IInv, BootInv, disk
  <2> QED
    BY <2>1, <2>2, NoMembers
<1>3. CASE SaveSnapWAL
  BY <1>3 DEF SaveSnapWAL, RecordSnapshot, node
<1>4. CASE SaveSnapFile
  <2>1. /\ pc \in {"recvFile", "trigFile"}
        /\ snapFile' = IF snap.index >= snapFile.index THEN snap ELSE snapFile
        /\ UNCHANGED <<log, peers, appliedIndex>>
    BY <1>4 DEF SaveSnapFile, node
  <2>2. Numbers
    BY IndexesAreNumbers DEF IInv
  <2>3. snapFile'.index = 0 => snapFile.index = 0
    BY <2>1, <2>2 DEF Numbers
  <2> QED
    BY <2>1, <2>3
<1>5. CASE PublishSnapshot
  <2>1. /\ pc = "recvPub" /\ snapFile' = snapFile
        /\ pc' = "oldSnapshotFatal" \/ snap.index > appliedIndex
    BY <1>5 DEF PublishSnapshot, disk
  <2>2. snapFile.index = snap.index /\ appliedIndex \in Nat
    BY <2>1, IndexesInLog DEF IInv, SnapInv
  <2> QED
    BY <2>1, <2>2
<1>6. CASE PublishEntry
  <2>1. next = appliedIndex + 1 /\ next \in 1..Len(log) /\ log[next] \in Entry /\ appliedIndex \in Nat
    BY <1>6, NextEntry, IndexesInLog DEF PublishEntry
  <2>2. pc = "publish" /\ appliedIndex' = next /\ UNCHANGED <<log, snapFile>>
    BY <1>6 DEF PublishEntry, disk
  <2>3. \A n \in Nodes : n \in peers' <=>
           \/ log[next].kind = "addNode" /\ log[next].arg = n
           \/ n \in peers /\ ~Removes(log[next], n)
    <3> DEFINE e == log[next]
    <3>1. PublishData(e) \/ IgnoreEmpty(e) \/ AddNode(e) \/ RemoveNode(e)
      BY <1>6 DEF PublishEntry
    <3>2. e.kind \in {"put", "empty", "addNode", "bootNode", "removeNode"}
      BY <2>1 DEF Entry
    <3> QED
      BY <3>1, <3>2 DEF PublishData, IgnoreEmpty, AddNode, RemoveNode, Removes
  <2>4. snapFile.index = 0 => \A n \in Nodes : n \in peers' <=> n \in PeersAt(log, next)
    BY <2>1, <2>2, <2>3, PeersStep
  <2>5. peers' \subseteq Nodes /\ PeersAt(log, next) \subseteq Nodes
    BY <1>6, NextPreserves, ZenonT(30) DEF IInv, TypeOK, PeersAt
  <2> QED
    BY <2>2, <2>4, <2>5
<1>7. CASE Advance \/ TriggerSnapshot
  BY <1>7 DEF Advance, TriggerSnapshot, EndOfReady, disk, node
<1>8. CASE CompactLog
  BY <1>8 DEF CompactLog, EndOfReady, disk
<1>9. CASE StoreStep
  BY <1>9 DEF StoreStep, ApplyEntry, ReceiveNil, CommitsEnd, AssignKVS, disk, node
<1>10. ASSUME NEW e \in Workload, Commit(e) PROVE PeersFollowLog'
  <2>1. log' = Append(log, e) /\ pc = "loop" /\ UNCHANGED <<snapFile, pc, peers, appliedIndex>>
    BY <1>10 DEF Commit, disk, node
  <2> QED
    BY <2>1, IndexesInLog, PrefixStays
<1>11. ASSUME NEW n, NEW c, NEW lo, ReadyEntries(n, c, lo) PROVE PeersFollowLog'
  BY <1>11 DEF ReadyEntries, node
<1>12. ASSUME NEW s, ReadySnapshot(s) PROVE PeersFollowLog'
  BY <1>12 DEF ReadySnapshot, node
<1>13. CASE Exit \/ Crash
  BY <1>13 DEF Exit, Crash, Down, disk
<1>14. CASE UNCHANGED vars
  BY <1>14 DEF vars, disk, node
<1> QED
  BY <1>1, <1>2, <1>3, <1>4, <1>5, <1>6, <1>7, <1>8, <1>9, <1>10, <1>11, <1>12, <1>13, <1>14
     DEF Next, NodeStep, Environment

\* AddPeer and RemovePeer keep up with the log, over crashes and replays, until
\* the first snapshot is saved.
THEOREM PeersAreKept == Spec => []PeersFollowLog
<1>1. Init => PeersFollowLog
  BY DEF Init, PeersFollowLog, LoopPCs
<1> QED
  BY <1>1, PeersPreserved, Invariance, PTL DEF Spec

-----------------------------------------------------------------------------
(* A cluster that commits nothing but the proposals of the store.          *)

USE DEF NilMsg, Nobody

PutsOnly == \A e \in Workload : e.kind = "put"

\* Nothing is applied between a received snapshot and its nil.
PutsInv ==
  /\ \A i \in 1..Len(log) : log[i].kind = "put"
  /\ pc # "stopped"
  /\ kvPhase # "replay" /\ hand = NilMsg => appliedIndex = snapshotIndex

\* Then the nil is never late.
LEMMA PutsNotLate == IInv /\ StoreInv /\ PutsInv => ~LateNil
<1> SUFFICES ASSUME IInv, StoreInv, PutsInv, LateNil PROVE FALSE
  OBVIOUS
<1>1. hand = -1 /\ kvPhase # "replay" /\ appliedIndex - snapshotIndex > SnapCount
  BY DEF LateNil, SnapshotDue, StoreInv, PhaseInv
<1>2. Numbers
  BY IndexesAreNumbers DEF IInv
<1> QED
  BY <1>1, <1>2 DEF PutsInv, Numbers

\* Every step keeps it when the workload has no other entries.
LEMMA PutsPreserved ==
  ASSUME PutsOnly PROVE IInv /\ StoreInv /\ PutsInv /\ [Next]_vars => PutsInv'
<1> SUFFICES ASSUME IInv, StoreInv, PutsInv, [Next]_vars PROVE PutsInv'
  BY ZenonT(30)
<1> USE DEF PutsInv
<1>1. CASE Boot
  <2>1. pc' # "stopped" /\ UNCHANGED <<log, kvPhase, hand, appliedIndex, snapshotIndex>>
    BY <1>1 DEF Boot, kv
  <2> QED
    BY <2>1, ZenonT(30)
<1>2. CASE BootNil \/ PublishNil
  <2>1. kvPhase = "replay" /\ kvPhase' = kvPhase /\ log' = log /\ pc' # "stopped"
    BY <1>2 DEF BootNil, PublishNil, StoreInv, PhaseInv, ReplayDone
  <2> QED
    BY <2>1
<1>3. CASE StartNode
  <2>1. /\ pc' # "stopped" /\ UNCHANGED <<log, kvPhase, hand>>
        /\ UNCHANGED <<appliedIndex, snapshotIndex>> \/ appliedIndex' = snapshotIndex'
    BY <1>3, ZenonT(30) DEF StartNode, node, kv
  <2> QED
    BY <2>1
<1>4. CASE SaveSnapWAL \/ SaveSnapFile \/ AppendEntries \/ Advance \/ TriggerSnapshot
  BY <1>4 DEF SaveSnapWAL, SaveSnapFile, AppendEntries, Advance, EndOfReady, TriggerSnapshot, node, kv
<1>5. CASE PublishSnapshot
  BY <1>5 DEF PublishSnapshot, node
<1>6. CASE PublishEntry
  <2>1. next \in 1..Len(log)
    BY <1>6, NextEntry DEF PublishEntry
  <2>2. log[next].kind = "put"
    BY <2>1
  <2>3. hand' = next /\ log' = log /\ pc' # "stopped"
    BY <1>6, <2>2 DEF PublishEntry, PublishData, IgnoreEmpty, AddNode, RemoveNode
  <2> QED
    BY <2>1, <2>3
<1>7. CASE RemovedSelf
  <2>1. next \in 1..Len(log) /\ log[next].kind = "removeNode"
    BY <1>7, NextEntry DEF RemovedSelf
  <2> QED
    BY <2>1
<1>8. CASE CompactLog
  <2>1. /\ pc' # "stopped" /\ UNCHANGED <<log, kvPhase, hand, appliedIndex>>
        /\ snapshotIndex' = snapshotIndex \/ snapshotIndex' = appliedIndex
    BY <1>8 DEF CompactLog, EndOfReady, kv
  <2> QED
    BY <2>1
<1>9. CASE StoreStep
  BY <1>9 DEF StoreStep, ApplyEntry, ReceiveNil, CommitsEnd, AssignKVS, node
<1>10. ASSUME NEW e \in Workload, Commit(e) PROVE PutsInv'
  <2>1. log' = Append(log, e) /\ e.kind = "put" /\ log \in Seq(Entry)
    BY <1>10 DEF Commit, PutsOnly, IInv, TypeOK
  <2>2. \A i \in 1..Len(log') : log'[i] = e \/ (i \in 1..Len(log) /\ log'[i] = log[i])
    BY <2>1
  <2>3. \A i \in 1..Len(log') : log'[i].kind = "put"
    BY <2>1, <2>2
  <2>4. UNCHANGED <<pc, kvPhase, hand, appliedIndex, snapshotIndex>>
    BY <1>10 DEF Commit, node, kv
  <2> QED
    BY <2>3, <2>4
<1>11. ASSUME NEW n, NEW c, NEW lo, ReadyEntries(n, c, lo) PROVE PutsInv'
  BY <1>11 DEF ReadyEntries, node, kv
<1>12. ASSUME NEW s, ReadySnapshot(s) PROVE PutsInv'
  BY <1>12 DEF ReadySnapshot, node, kv
<1>13. CASE Exit \/ Crash
  BY <1>13 DEF Exit, Crash, Down
<1>14. CASE UNCHANGED vars
  BY <1>14, ZenonT(30) DEF vars, node, kv
<1> QED
  BY <1>1, <1>2, <1>3, <1>4, <1>5, <1>6, <1>7, <1>8, <1>9, <1>10, <1>11, <1>12, <1>13, <1>14
     DEF Next, NodeStep, Environment

\* No membership change and no empty entry: the store never lags behind a
\* received snapshot until the next one is due, and the member is not removed.
THEOREM PutsAreOrderly == ASSUME PutsOnly PROVE Spec => [](~LateNil /\ pc # "stopped")
<1>1. Init => PutsInv
  BY DEF Init, PutsInv
<1>2. IInv /\ StoreInv /\ PutsInv => ~LateNil /\ pc # "stopped"
  BY PutsNotLate DEF PutsInv
<1>3. IInv /\ StoreInv /\ PutsInv /\ [Next]_vars => StoreInv' /\ PutsInv'
  BY PutsPreserved, PutsNotLate, StorePreserved
<1> QED
  BY <1>1, <1>2, <1>3, StoreInit, Invariance, PTL DEF Spec

-----------------------------------------------------------------------------
(* What clients are served.                                                *)

\* The member is not removed, and no nil is late.
Orderly == ~LateNil /\ pc # "stopped"

\* The map is that of a prefix that is on disk and no shorter than the WAL was
\* when the process started.
StoreIndexed ==
  \E w \in Nat : /\ kvStore = StoreAt(log, w)
                 /\ lastIndex <= w /\ w <= walCommit /\ Durable(w)
                 /\ hand = NilMsg => w <= snapFile.index

\* A key that entry j wrote has this or a later write in a prefix with entry j.
LatestInv ==
  \A i \in 0..Len(log) : \A k \in Keys : \A j \in Writes(log, i, k) :
    \E new \in StoreAt(log, i)[k] : new >= j

\* Every write that was shown is committed and durable, and older than what
\* will be shown next.
ShownInv ==
  \A k \in Keys : \A old \in served[k] :
    /\ old \in 1..walCommit /\ log[old].kind = "put" /\ log[old].arg = k
    /\ Durable(old)
    /\ pc # "down" /\ ~kvs /\ (snapFile.index = 0 \/ kvPhase # "replay") => old <= lastIndex
    /\ kvs /\ hand = NilMsg => old <= snapFile.index

ServedInv == ShownInv /\ (kvs => served = kvStore)

\* The map that clients are shown is the one of a durable prefix.
LEMMA StoreHasIndex ==
  IInv /\ StoreInv /\ pc # "stopped" /\ kvPhase # "replay" => StoreIndexed
<1> SUFFICES ASSUME IInv, StoreInv, pc # "stopped", kvPhase # "replay" PROVE StoreIndexed
  OBVIOUS
<1>0. Numbers
  BY IndexesAreNumbers DEF IInv
<1>1. lastIndex <= appliedIndex
  BY DEF StoreInv, PhaseInv, ReplayDone
<1>2. /\ appliedIndex <= walCommit /\ Durable(appliedIndex)
      /\ snapFile.index <= walCommit /\ Durable(snapFile.index)
  BY <1>0 DEF IInv, AppliedIsDurable, DiskInv, Durable, Numbers
<1>3. CASE hand > 0
  <2>1. hand \in Nat /\ hand <= appliedIndex /\ lastIndex < hand /\ kvStore = StoreAt(log, hand - 1)
    BY <1>3 DEF IInv, TypeOK, StoreInv, HandInv, TrackInv
  <2>2. hand - 1 \in Nat /\ lastIndex <= hand - 1 /\ hand - 1 <= walCommit /\ Durable(hand - 1)
    BY <1>0, <1>2, <1>3, <2>1 DEF Durable, Numbers
  <2> QED
    BY <1>3, <2>1, <2>2 DEF StoreIndexed
<1>4. CASE hand = 0
  <2>1. CASE kvStore = StoreAt(log, appliedIndex)
    BY <1>0, <1>1, <1>2, <1>4, <2>1 DEF StoreIndexed, Numbers
  <2>2. CASE pc = "recvPub" /\ kvStore = StoreAt(log, snap.index)
    <3>1. snap.index = snapFile.index /\ appliedIndex < snap.index
      BY <2>2 DEF IInv, SnapInv, Receiving
    <3>2. lastIndex <= snap.index
      BY <1>0, <1>1, <3>1 DEF Numbers
    <3> QED
      BY <1>0, <1>2, <1>4, <2>2, <3>1, <3>2 DEF StoreIndexed, Numbers
  <2> QED
    BY <1>4, <2>1, <2>2 DEF StoreInv, TrackInv
<1>5. CASE hand = -1
  <2>1. PICK w \in lastIndex..snapFile.index : kvStore = StoreAt(log, w)
    BY <1>5 DEF StoreInv, NilInv
  <2>2. w \in Nat /\ lastIndex <= w /\ w <= snapFile.index /\ w <= walCommit /\ Durable(w)
    BY <1>0, <1>2 DEF Durable, Numbers
  <2> QED
    BY <2>1, <2>2 DEF StoreIndexed
<1> QED
  BY <1>3, <1>4, <1>5 DEF IInv, TypeOK

\* What the store has when it serves may be shown.
LEMMA StoreMayBeShown ==
  IInv /\ StoreInv /\ pc # "stopped" /\ kvs /\ served = kvStore => ShownInv
<1> SUFFICES ASSUME IInv, StoreInv, pc # "stopped", kvs, served = kvStore PROVE ShownInv
  OBVIOUS
<1>0. Numbers
  BY IndexesAreNumbers DEF IInv
<1>1. StoreIndexed
  BY StoreHasIndex DEF StoreInv, PhaseInv
<1>2. PICK w \in Nat : /\ kvStore = StoreAt(log, w) /\ w <= walCommit /\ Durable(w)
                       /\ hand = -1 => w <= snapFile.index
  BY <1>1 DEF StoreIndexed
<1>3. \A k \in Keys : \A old \in served[k] : old \in 1..w /\ log[old].kind = "put" /\ log[old].arg = k
  BY <1>2, StoredIsWrite
<1>4. \A old \in 1..w : old \in 1..walCommit /\ Durable(old) /\ (hand = -1 => old <= snapFile.index)
  BY <1>0, <1>2 DEF Durable, Numbers
<1> QED
  BY <1>3, <1>4 DEF ShownInv

\* The disk and the committed log only grow, as far as they are committed.
LEMMA DiskGrows ==
  ASSUME IInv, [Next]_vars
  PROVE  /\ walCommit <= walCommit' /\ snapFile.index <= snapFile'.index
         /\ \A i \in 1..walCommit : log'[i] = log[i] /\ (Durable(i) => Durable(i)')
<1>0. Numbers
  BY IndexesAreNumbers DEF IInv
<1>1. CASE UNCHANGED <<log, walCommit, walLast, snapFile>>
  BY <1>0, <1>1 DEF Durable, Numbers
<1>2. CASE SaveSnapFile
  <2>1. UNCHANGED <<log, walCommit, walLast>> /\ snapFile.index <= snapFile'.index /\ snapFile'.index \in Nat
    BY <1>0, <1>2 DEF SaveSnapFile, Numbers
  <2> QED
    BY <1>0, <2>1 DEF Durable, Numbers
<1>3. ASSUME NEW n \in Indexes, NEW c \in Indexes, NEW lo, ReadyEntries(n, c, lo)
      PROVE  /\ walCommit <= walCommit' /\ UNCHANGED <<log, snapFile>>
             /\ \A i \in 1..walCommit : Durable(i) => Durable(i)'
  <2>1. /\ lib.commit = walCommit /\ walCommit' = c /\ lib.commit <= c /\ UNCHANGED <<log, snapFile>>
        /\ (n > lib.commit /\ walLast' = n) \/ walLast' = walLast
    <3>1. lib.commit = walCommit
      BY <1>3 DEF ReadyEntries, IInv, OrderInv, LoopPCs
    <3>2. walCommit' = c /\ c \in lib.commit..n /\ UNCHANGED <<log, snapFile>>
      BY <1>3 DEF ReadyEntries
    <3>3. (n > lib.commit /\ walLast' = n) \/ walLast' = walLast
      BY <1>3 DEF ReadyEntries, SavedLast
    <3> QED
      BY <1>0, <3>1, <3>2, <3>3 DEF Numbers
  <2>2. \A i \in 1..walCommit : i <= walLast => i <= walLast'
    BY <1>0, <2>1 DEF Numbers
  <2> QED
    BY <2>1, <2>2 DEF Durable
<1>4. ASSUME NEW s \in Indexes, ReadySnapshot(s)
      PROVE  walCommit <= walCommit' /\ UNCHANGED <<log, walLast, snapFile>>
  <2>1. /\ lib.commit = walCommit /\ walCommit' = s /\ lib.commit < s /\ UNCHANGED <<log, walLast, snapFile>>
    BY <1>0, <1>4 DEF ReadySnapshot, IInv, OrderInv, LoopPCs, Numbers
  <2> QED
    BY <1>0, <2>1 DEF Numbers
<1>5. ASSUME NEW e \in Workload, Commit(e)
      PROVE  /\ UNCHANGED <<walCommit, walLast, snapFile>>
             /\ \A i \in 1..walCommit : log'[i] = log[i]
  <2>1. UNCHANGED <<walCommit, walLast, snapFile>> /\ log' = Append(log, e) /\ log \in Seq(Entry)
    BY <1>5 DEF Commit, disk, IInv, TypeOK
  <2>2. walCommit <= Len(log)
    BY DEF IInv, DiskInv
  <2> QED
    BY <1>0, <2>1, <2>2 DEF Numbers
<1>6. CASE NodeStep
  BY <1>1, <1>2, <1>6 DEF NodeStep, Boot, BootNil, StartNode, SaveSnapWAL, RecordSnapshot, PublishSnapshot,
     AppendEntries, PublishEntry, RemovedSelf, PublishNil, Advance, TriggerSnapshot, CompactLog, disk
<1>7. CASE StoreStep
  BY <1>1, <1>7 DEF StoreStep, ApplyEntry, ReceiveNil, CommitsEnd, AssignKVS, disk
<1>8. CASE Environment
  <2>1. CASE Exit \/ Crash
    BY <1>1, <2>1 DEF Exit, Crash, Down, disk
  <2>2. ASSUME NEW n \in Indexes, NEW c \in Indexes, NEW lo, ReadyEntries(n, c, lo)
        PROVE  /\ walCommit <= walCommit' /\ snapFile.index <= snapFile'.index
               /\ \A i \in 1..walCommit : log'[i] = log[i] /\ (Durable(i) => Durable(i)')
    BY <1>0, <1>3, <2>2 DEF Numbers
  <2>3. ASSUME NEW s \in Indexes, ReadySnapshot(s)
        PROVE  /\ walCommit <= walCommit' /\ snapFile.index <= snapFile'.index
               /\ \A i \in 1..walCommit : log'[i] = log[i] /\ (Durable(i) => Durable(i)')
    BY <1>0, <1>4, <2>3 DEF Numbers, Durable
  <2>4. ASSUME NEW e \in Workload, Commit(e)
        PROVE  /\ walCommit <= walCommit' /\ snapFile.index <= snapFile'.index
               /\ \A i \in 1..walCommit : log'[i] = log[i] /\ (Durable(i) => Durable(i)')
    <3>1. /\ UNCHANGED <<walCommit, walLast, snapFile>>
          /\ \A i \in 1..walCommit : log'[i] = log[i]
      BY <1>5, <2>4, ZenonT(30)
    <3>2. walCommit <= walCommit /\ snapFile.index <= snapFile.index
      BY <1>0 DEF Numbers
    <3>3. \A i \in 1..walCommit : Durable(i)' <=> Durable(i)
      BY <3>1, ZenonT(30) DEF Durable
    <3> QED
      BY <3>1, <3>2, <3>3, ZenonT(30)
  <2> QED
    BY <1>8, <2>1, <2>2, <2>3, <2>4, ZenonT(30) DEF Environment
<1>9. CASE UNCHANGED vars
  BY <1>1, <1>9 DEF vars, disk
<1> QED
  BY <1>6, <1>7, <1>8, <1>9 DEF Next

\* A process that goes on keeps what it found in the WAL; newKVStore returns
\* only where there is no snapshot.
LEMMA ProcessGoesOn ==
  ASSUME [Next]_vars, pc # "stopped", pc # "down", pc' # "down"
  PROVE  /\ lastIndex' = lastIndex /\ (kvs => kvs')
         /\ kvPhase' # kvPhase => snapFile.index = 0
<1>1. CASE NodeStep
  BY <1>1 DEF NodeStep, Boot, BootNil, StartNode, SaveSnapWAL, SaveSnapFile, PublishSnapshot, AppendEntries,
     PublishEntry, RemovedSelf, PublishNil, Advance, TriggerSnapshot, CompactLog, node, kv
<1>2. CASE StoreStep
  <2>1. CASE ApplyEntry \/ AssignKVS
    BY <2>1 DEF ApplyEntry, AssignKVS, node
  <2>2. CASE ReceiveNil
    BY <2>2 DEF ReceiveNil, node
  <2> QED
    BY <1>2, <2>1, <2>2 DEF StoreStep, CommitsEnd
<1>3. CASE Environment
  BY <1>3 DEF Environment, Commit, ReadyEntries, ReadySnapshot, Exit, Crash, Down, node, kv
<1>4. CASE UNCHANGED vars
  BY <1>4 DEF vars, node, kv
<1> QED
  BY <1>1, <1>2, <1>3, <1>4 DEF Next

\* The indexes are numbers after a step.
LEMMA NumbersNext == IInv' => Numbers'
<1>1. IInv => Numbers
  BY IndexesAreNumbers DEF IInv
<1> QED
  BY <1>1, PTL

\* A write that was shown stays behind what will be shown, also while the
\* member is down and replays its log.
LEMMA ShownPreserved ==
  ASSUME IInv, StoreInv, Orderly, ServedInv, [Next]_vars, ~kvs', served' = served
  PROVE  ShownInv'
<1>0. Numbers
  BY IndexesAreNumbers DEF IInv
<1>1. Numbers'
  BY NextPreserves, NumbersNext
<1>2. \A k \in Keys : \A old \in served[k] :
        old \in 1..walCommit /\ log[old].kind = "put" /\ log[old].arg = k /\ Durable(old)
  BY DEF ServedInv, ShownInv
<1>3. \A k \in Keys : \A old \in served[k] :
        old \in 1..walCommit' /\ log'[old].kind = "put" /\ log'[old].arg = k /\ Durable(old)'
  <2>1. \A i \in 1..walCommit : i \in 1..walCommit'
    BY <1>0, <1>1, DiskGrows DEF Numbers
  <2> QED
    BY <1>2, <2>1, DiskGrows
<1>4. ASSUME pc' # "down", snapFile'.index = 0 \/ kvPhase' # "replay",
             NEW k \in Keys, NEW old \in served[k]
      PROVE  old <= lastIndex'
  <2>1. CASE pc = "down"
    <3>1. kvPhase = "replay" /\ hand = 0 /\ ~kvs
      BY <2>1 DEF StoreInv, PhaseInv
    <3>2. Boot
      <4>1. ~NodeStep \/ Boot
        BY <2>1 DEF NodeStep, BootNil, StartNode, SaveSnapWAL, SaveSnapFile, PublishSnapshot, AppendEntries,
           PublishEntry, RemovedSelf, PublishNil, Advance, TriggerSnapshot, CompactLog
      <4>2. ~StoreStep
        BY <2>1, <3>1 DEF StoreStep, ApplyEntry, ReceiveNil, CommitsEnd, AssignKVS
      <4>3. ~Environment
        BY <1>4, <2>1 DEF Environment, Commit, ReadyEntries, ReadySnapshot, Exit, Crash, Down
      <4>4. pc' # pc
        BY <1>4, <2>1
      <4> QED
        BY <4>1, <4>2, <4>3, <4>4 DEF Next, vars
    <3>3. /\ snapFile' = snapFile /\ kvPhase' = kvPhase
          /\ lastIndex' = IF walLast > snapFile.index THEN walLast ELSE 0
      BY <3>2 DEF Boot, disk, kv
    <3>4. snapFile.index = 0 /\ old \in 1..walCommit /\ Durable(old)
      BY <1>2, <1>4, <3>1, <3>3
    <3> QED
      BY <1>0, <3>3, <3>4 DEF Durable, Numbers
  <2>2. CASE pc # "down"
    <3>1. /\ lastIndex' = lastIndex /\ ~kvs
          /\ kvPhase' # kvPhase => snapFile.index = 0
      BY <1>4, <2>2, ProcessGoesOn DEF Orderly
    <3>2. snapFile'.index = 0 => snapFile.index = 0
      BY <1>0, <1>1, DiskGrows DEF Numbers
    <3>3. snapFile.index = 0 \/ kvPhase # "replay"
      BY <1>4, <3>1, <3>2
    <3> QED
      BY <2>2, <3>1, <3>3 DEF ServedInv, ShownInv
  <2> QED
    BY <2>1, <2>2
<1> QED
  BY <1>3, <1>4 DEF ShownInv

\* What was shown is kept in mind by every step.
LEMMA ServedPreserved ==
  IInv /\ StoreInv /\ Orderly /\ Orderly' /\ ServedInv /\ [ServedNext]_<<vars, served>> => ServedInv'
<1>1. (IInv /\ StoreInv /\ Orderly /\ kvs /\ served = kvStore => ShownInv)'
  <2>1. IInv /\ StoreInv /\ Orderly /\ kvs /\ served = kvStore => ShownInv
    BY StoreMayBeShown DEF Orderly
  <2> QED
    BY <2>1, PTL
<1> SUFFICES ASSUME IInv, StoreInv, Orderly, Orderly', ServedInv, [ServedNext]_<<vars, served>>
             PROVE  ServedInv'
  OBVIOUS
<1>2. [Next]_vars
  BY DEF ServedNext
<1>3. IInv' /\ StoreInv'
  BY <1>2, NextPreserves, StorePreserved DEF Orderly
<1>4. kvs' => served' = kvStore'
  BY ZenonT(30) DEF ServedNext, ServedInv, vars, kv
<1>5. ~kvs' => served' = served
  BY DEF ServedNext
<1> QED
  BY <1>1, <1>2, <1>3, <1>4, <1>5, ShownPreserved DEF ServedInv

\* The map changes when readCommits stores an entry or loads a snapshot.
LEMMA StoreChanges ==
  ASSUME [Next]_vars, kvs, kvs', pc # "stopped"
  PROVE  ApplyEntry \/ (ReceiveNil /\ snapFile.index # 0) \/ kvStore' = kvStore
<1>1. CASE NodeStep
  BY <1>1 DEF NodeStep, Boot, BootNil, StartNode, SaveSnapWAL, SaveSnapFile, PublishSnapshot, AppendEntries,
     PublishEntry, RemovedSelf, PublishNil, Advance, TriggerSnapshot, CompactLog, kv
<1>2. CASE StoreStep
  BY <1>2 DEF StoreStep, ReceiveNil, CommitsEnd, AssignKVS
<1>3. CASE Environment
  BY <1>3 DEF Environment, Commit, ReadyEntries, ReadySnapshot, Exit, Crash, Down, kv
<1>4. CASE UNCHANGED vars
  BY <1>4 DEF vars, kv
<1> QED
  BY <1>1, <1>2, <1>3, <1>4 DEF Next

\* The log changes when the cluster commits an entry.
LEMMA LogChanges ==
  ASSUME [Next]_vars
  PROVE  log' = log \/ \E e \in Workload : Commit(e)
<1>1. CASE NodeStep
  BY <1>1 DEF NodeStep, Boot, BootNil, StartNode, SaveSnapWAL, SaveSnapFile, PublishSnapshot, AppendEntries,
     PublishEntry, RemovedSelf, PublishNil, Advance, TriggerSnapshot, CompactLog
<1>2. CASE StoreStep
  BY <1>2 DEF StoreStep, ApplyEntry, ReceiveNil, CommitsEnd, AssignKVS
<1>3. CASE Environment
  BY <1>3 DEF Environment, ReadyEntries, ReadySnapshot, Exit, Crash, Down
<1>4. CASE UNCHANGED vars
  BY <1>4 DEF vars
<1> QED
  BY <1>1, <1>2, <1>3, <1>4 DEF Next

\* One more entry is the latest write of its key and of no other.
LEMMA LatestPreserved == IInv /\ LatestInv /\ [Next]_vars => LatestInv'
<1> SUFFICES ASSUME IInv, LatestInv, [Next]_vars PROVE LatestInv'
  OBVIOUS
<1>1. CASE log' = log
  BY <1>1, ZenonT(30) DEF LatestInv
<1>2. ASSUME NEW e \in Workload, Commit(e) PROVE LatestInv'
  <2>1. log' = Append(log, e) /\ log \in Seq(Entry) /\ Len(log) \in Nat
    BY <1>2 DEF Commit, IInv, TypeOK
  <2> DEFINE n == Len(log)
             m == n + 1
  <2>2. Len(log') = m /\ log'[m] = e /\ \A j \in 1..n : log'[j] = log[j]
    BY <2>1
  <2>3. ASSUME NEW i \in 0..n
        PROVE  StoreAt(log', i) = StoreAt(log, i) /\ \A k \in Keys : Writes(log', i, k) = Writes(log, i, k)
    <3>1. StoreAt(log', i) = StoreAt(log, i)
      BY <2>1, PrefixStays
    <3>2. \A j \in 1..i : log'[j] = log[j]
      BY <2>1, <2>2
    <3> QED
      BY <3>1, <3>2 DEF Writes
  <2>4. ASSUME NEW k \in Keys, NEW j \in Writes(log', m, k)
        PROVE  \E new \in StoreAt(log', m)[k] : new >= j
    <3>1. j \in 1..m /\ (j \in Writes(log', n, k) \/ (j = m /\ log'[m].kind = "put" /\ log'[m].arg = k))
      BY <2>1 DEF Writes
    <3>2. CASE log'[m].kind = "put" /\ log'[m].arg = k
      <4>1. m \in Nat \ {0}
        BY <2>1
      <4> HIDE DEF m
      <4>2. StoreAt(log', m) = [StoreAt(log', m - 1) EXCEPT ![k] = {m}]
        BY <3>2, <4>1, PutStep
      <4>3. DOMAIN StoreAt(log', m - 1) = Keys
        BY DEF StoreAt
      <4>4. StoreAt(log', m)[k] = {m}
        BY <4>2, <4>3
      <4> QED
        BY <3>1, <4>1, <4>4
    <3>3. CASE ~(log'[m].kind = "put" /\ log'[m].arg = k)
      <4>1. j \in Writes(log, n, k)
        BY <2>1, <2>3, <3>1, <3>3
      <4>2. \E new \in StoreAt(log, n)[k] : new >= j
        BY <2>1, <4>1 DEF LatestInv
      <4>3. Writes(log', m, k) = Writes(log', n, k)
        BY <2>1, <3>3 DEF Writes
      <4>4. StoreAt(log', m)[k] = StoreAt(log, n)[k]
        BY <2>1, <2>3, <4>3 DEF StoreAt
      <4> QED
        BY <4>2, <4>4
    <3> QED
      BY <3>2, <3>3
  <2>5. \A i \in 0..m : i \in 0..n \/ i = m
    BY <2>1
  <2> HIDE DEF m, n
  <2> QED
    BY <2>2, <2>3, <2>4, <2>5 DEF LatestInv, n
<1> QED
  BY <1>1, <1>2, LogChanges

\* A later prefix is a step of what the member promises.
LEMMA ShowsLater ==
  ASSUME IInv, LatestInv, ServedInv, log' = log, NEW w \in Nat, w <= walCommit, served' = StoreAt(log, w),
         \A k \in Keys : \A old \in served[k] : old <= w
  PROVE  Promise!Next
<1>1. w \in 0..Len(log)
  <2>1. Numbers /\ walCommit <= Len(log)
    BY IndexesAreNumbers DEF IInv, DiskInv
  <2> QED
    BY <2>1 DEF Numbers
<1>2. \A k \in Keys : \A old \in served[k] : \E new \in served'[k] : new >= old
  <2>1. \A k \in Keys : \A old \in served[k] : old \in 1..w /\ log[old].kind = "put" /\ log[old].arg = k
    BY DEF ServedInv, ShownInv
  <2>2. \A k \in Keys : \A old \in served[k] : old \in Writes(log, w, k)
    BY <2>1 DEF Writes
  <2> QED
    BY <1>1, <2>2 DEF LatestInv
<1>3. Promise!StoreAt(log, w) = StoreAt(log, w)
  BY DEF Promise!StoreAt, Promise!Writes, StoreAt, Writes
<1> QED
  BY <1>1, <1>2, <1>3 DEF Promise!Next, Promise!Show

\* Every step of the member is one of what it promises.
LEMMA ServesNext ==
  IInv /\ StoreInv /\ Orderly /\ Orderly' /\ LatestInv /\ ServedInv /\ [ServedNext]_<<vars, served>>
    => [Promise!Next]_<<log, served>>
<1> SUFFICES ASSUME IInv, StoreInv, Orderly, Orderly', LatestInv, ServedInv,
                    [ServedNext]_<<vars, served>>
             PROVE  Promise!Next \/ UNCHANGED <<log, served>>
  OBVIOUS
<1>0. Numbers
  BY IndexesAreNumbers DEF IInv
<1>1. [Next]_vars
  BY DEF ServedNext
<1>2. kvs' => served' = kvStore'
  BY ZenonT(30) DEF ServedNext, ServedInv, vars, kv
<1>3. ~kvs' => served' = served
  BY DEF ServedNext
<1>4. ASSUME NEW e \in Workload, Commit(e) PROVE Promise!Next
  <2>1. log' = Append(log, e) /\ kvs' = kvs /\ kvStore' = kvStore
    BY <1>4 DEF Commit, kv
  <2>2. served' = served
    BY <1>2, <1>3, <2>1 DEF ServedInv
  <2> QED
    BY <2>1, <2>2 DEF Promise!Next, Promise!Grow
<1>5. CASE log' = log /\ kvs' /\ kvs
  <2>1. served = kvStore /\ served' = kvStore'
    BY <1>2, <1>5 DEF ServedInv
  <2>2. CASE ApplyEntry
    <3>a. hand \in Nat \ {0} /\ kvStore' = [kvStore EXCEPT ![log[hand].arg] = {hand}]
      BY <2>2 DEF ApplyEntry, IInv, TypeOK
    <3>b. hand > 0
      BY <3>a
    <3>1. /\ hand \in Nat \ {0} /\ kvStore' = [kvStore EXCEPT ![log[hand].arg] = {hand}]
          /\ hand <= appliedIndex /\ log[hand].kind = "put"
      BY <3>a, <3>b DEF StoreInv, HandInv
    <3>2. hand > 0 /\ kvPhase # "replay"
      BY <1>5, <3>b DEF StoreInv, PhaseInv
    <3>3. kvStore = StoreAt(log, hand - 1)
      BY <3>2 DEF StoreInv, TrackInv, Orderly
    <3>4. served' = StoreAt(log, hand)
      BY <2>1, <3>1, <3>3, PutStep
    <3>5. \A k \in Keys : \A old \in served[k] : old \in 1..hand-1
      BY <2>1, <3>1, <3>3, StoredIsWrite
    <3>6. \A old \in 1..hand-1 : old <= hand
      BY <3>1
    <3>7. hand <= walCommit
      BY <1>0, <3>1 DEF IInv, AppliedIsDurable, Numbers
    <3> QED
      BY <1>5, <3>1, <3>4, <3>5, <3>6, <3>7, ShowsLater
  <2>3. CASE ReceiveNil /\ snapFile.index # 0
    <3>1. hand = -1 /\ kvStore' = snapFile.data /\ kvPhase # "replay"
      BY <1>5, <2>3 DEF ReceiveNil, StoreInv, PhaseInv
    <3>2. served' = StoreAt(log, snapFile.index)
      BY <2>1, <3>1 DEF StoreInv, NilInv
    <3>3. \A k \in Keys : \A old \in served[k] : old <= snapFile.index
      BY <1>5, <3>1 DEF ServedInv, ShownInv
    <3>4. snapFile.index \in Nat /\ snapFile.index <= walCommit
      BY <1>0 DEF IInv, DiskInv, Numbers
    <3> QED
      BY <1>5, <3>2, <3>3, <3>4, ShowsLater
  <2>4. CASE kvStore' = kvStore
    BY <1>5, <2>1, <2>4
  <2> QED
    BY <1>1, <1>5, <2>2, <2>3, <2>4, StoreChanges DEF Orderly
<1>6. CASE log' = log /\ kvs' /\ ~kvs
  <2>1. AssignKVS
    <3>1. CASE NodeStep
      BY <1>6, <3>1, ZenonT(30) DEF NodeStep, Boot, BootNil, StartNode, SaveSnapWAL, SaveSnapFile, PublishSnapshot,
         AppendEntries, PublishEntry, RemovedSelf, PublishNil, Advance, TriggerSnapshot, CompactLog, kv
    <3>2. CASE StoreStep
      BY <1>6, <3>2, ZenonT(30) DEF StoreStep, ApplyEntry, ReceiveNil, CommitsEnd
    <3>3. CASE Environment
      BY <1>6, <3>3, ZenonT(30) DEF Environment, Commit, ReadyEntries, ReadySnapshot, Exit, Crash, Down, kv
    <3>4. CASE UNCHANGED vars
      BY <1>6, <3>4 DEF vars, kv
    <3> QED
      BY <1>1, <3>1, <3>2, <3>3, <3>4 DEF Next
  <2>2. kvPhase # "replay" /\ kvStore' = kvStore
    BY <2>1 DEF AssignKVS
  <2>3. StoreIndexed /\ pc # "down"
    BY <2>2, StoreHasIndex DEF Orderly, StoreInv, PhaseInv
  <2>4. PICK w \in Nat : kvStore = StoreAt(log, w) /\ lastIndex <= w /\ w <= walCommit
    BY <2>3 DEF StoreIndexed
  <2>5. \A k \in Keys : \A old \in served[k] : old \in 1..walCommit /\ old <= lastIndex
    BY <1>6, <2>2, <2>3 DEF ServedInv, ShownInv
  <2>6. \A old \in 1..walCommit : old <= lastIndex => old <= w
    BY <1>0, <2>4 DEF Numbers
  <2>7. served' = StoreAt(log, w)
    BY <1>2, <1>6, <2>2, <2>4
  <2> QED
    BY <1>6, <2>4, <2>5, <2>6, <2>7, ShowsLater
<1> QED
  BY <1>1, <1>3, <1>4, <1>5, <1>6, LogChanges

\* A member that is not removed shows its clients prefixes of the committed
\* log, and never an older write of a key than before, crashes included.
THEOREM ClientsAreServed == ServedSpec /\ []Orderly => ServesCommittedMap
<1>1. ServedInit => Promise!Init /\ Init /\ ServedInv
  BY DEF ServedInit, Init, Promise!Init, ServedInv, ShownInv, NoStore, Promise!NoStore
<1>4. Init => LatestInv
  <2> SUFFICES ASSUME Init PROVE LatestInv
    OBVIOUS
  <2>1. \A i \in 0..Len(log) : 1..i = {}
    BY DEF Init
  <2> QED
    BY <2>1 DEF LatestInv, Writes
<1>2. ServedInit /\ [][ServedNext]_<<vars, served>> => Spec
  <2>1. [ServedNext]_<<vars, served>> => [Next]_vars
    BY DEF ServedNext
  <2> QED
    BY <1>1, <2>1, PTL DEF Spec
<1>3. Orderly => ~LateNil
  BY DEF Orderly
<1> QED
  BY <1>1, <1>2, <1>3, <1>4, Invariance, StoreInvariance, LatestPreserved, ServedPreserved,
     ServesNext, PTL DEF Spec, ServedSpec, ServesCommittedMap, Promise!Spec

\* A cluster that commits only what the store proposes (the workload of run
\* kv_served) needs no assumption on the schedule.
THEOREM PutsAreServed ==
  ASSUME PutsOnly
  PROVE  /\ Spec => []StoreIsCommittedPrefix
         /\ Spec => []SnapshotLagsByOneEntry
         /\ ServedSpec => ServesCommittedMap
<1>1. Spec => []StoreIsCommittedPrefix /\ []SnapshotLagsByOneEntry
  BY PutsAreOrderly, StoreFollowsLog, SnapshotsLagByOne, PTL
<1>2. ServedSpec => Spec
  <2>1. ServedInit => Init
    BY DEF ServedInit
  <2>2. [ServedNext]_<<vars, served>> => [Next]_vars
    BY DEF ServedNext
  <2> QED
    BY <2>1, <2>2, PTL DEF ServedSpec, Spec
<1>3. ~LateNil /\ pc # "stopped" => Orderly
  BY DEF Orderly
<1>4. ServedSpec => ServesCommittedMap
  BY <1>2, <1>3, PutsAreOrderly, ClientsAreServed, PTL
<1> QED
  BY <1>1, <1>4, PTL
=============================================================================
