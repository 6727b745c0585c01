---------------------------- MODULE KVNodeProofs ----------------------------
(***************************************************************************)
(* Safety of KVNode for every log length, every number of crashes and      *)
(* received snapshots, and every SnapCount that is at least CatchUpN.      *)
(***************************************************************************)
EXTENDS KVNode, TLAPS

\* A restart finds index i on disk.
Durable(i) == i <= walLast \/ i <= snapFile.index

Receiving == {"recvWal", "recvFile", "recvPub"}
Triggering == {"trigWal", "trigFile", "compact"}
Settled == {"loop", "publish", "replayed"} \cup Triggering

\* What the disk satisfies at every moment, crashes included.
DiskInv ==
  /\ snapFile.index \in walSnaps
  /\ snapFile.index <= walCommit
  /\ walCommit <= Len(log)

\* What replayWAL has read when the library is started.
BootInv ==
  pc \in {"bootNil", "start"} =>
    /\ storage.snap = snapFile.index
    /\ storage.offset = snapFile.index
    /\ Durable(storage.last)

\* How the indexes of the event loop are ordered.
OrderInv ==
  /\ pc \in LoopPCs =>
       lib.commit = walCommit /\ snapshotIndex <= appliedIndex /\ appliedIndex <= lib.commit
  /\ pc \in LoopPCs \ {"recvPub"} => storage.offset <= snapshotIndex
  /\ pc \in LoopPCs \ ({"recvPub"} \cup Triggering) => storage.snap <= snapshotIndex
  /\ pc = "loop" => lib.applied = appliedIndex
  /\ pc \in Settled => lib.commit <= storage.last /\ Durable(storage.last)

\* What is known of the Ready being processed.
ReadyInv ==
  /\ pc = "append" =>
       /\ lib.commit <= rd.last /\ Durable(rd.last)
       /\ rd.hi = lib.commit
       /\ rd.lo <= rd.hi => rd.lo <= appliedIndex + 1
  /\ pc \in {"publish", "replayed"} => rd.hi = lib.commit /\ next = appliedIndex + 1

\* What is known of the snapshot being saved.
SnapInv ==
  /\ pc \in Receiving =>
       /\ snap.index = lib.commit /\ appliedIndex < snap.index
       /\ rd = [lo |-> snap.index + 1, hi |-> snap.index, last |-> snap.index]
  /\ pc = "recvPub" =>
       snapFile.index = snap.index /\ storage = NewStorage(snap.index, snap.index)
  /\ pc \in Triggering =>
       /\ snap.index = appliedIndex /\ appliedIndex = lib.commit /\ SnapshotDue
       /\ storage.snap = appliedIndex
  /\ pc \in {"recvFile", "trigFile"} => snap.index \in walSnaps

KVTypeOK ==
  /\ kvPhase \in {"replay", "live", "ended"} /\ kvs \in BOOLEAN
  /\ hand \in {NilMsg} \cup Indexes
  /\ kvStore \in Stores

\* What the numeric arguments use of TypeOK.
Numbers ==
  /\ Len(log) \in Nat /\ walLast \in Nat /\ walCommit \in Nat
  /\ snapFile.index \in Nat /\ snap.index \in Nat
  /\ storage.offset \in Nat /\ storage.last \in Nat /\ storage.snap \in Nat
  /\ lib.commit \in Nat /\ lib.applied \in Nat
  /\ rd.lo \in Nat /\ rd.hi \in Nat /\ rd.last \in Nat /\ next \in Nat
  /\ appliedIndex \in Nat /\ snapshotIndex \in Nat /\ lastIndex \in Nat

IInv ==
  /\ TypeOK /\ DiskInv /\ BootInv /\ OrderInv /\ ReadyInv /\ SnapInv
  /\ LoopNeverAborts /\ AppliedIsDurable
-----------------------------------------------------------------------------
(* Proofs.                                                                 *)

USE ConstantsAssumption, CountsAssumption DEF Indexes

\* The solvers that a leaf without one of its own tries in turn, with their time
\* limits in seconds.
USE SMTT(15), ZenonT(20), SMTT(30), SMTT(60), SMTT(120)

\* The values a process starts with.
LEMMA FreshTypes ==
  /\ NoStore \in Stores /\ NoSnapshot \in Snapshots /\ NoSnapshot.index = 0
  /\ NewStorage(0, 0) \in Storages /\ NewLib(0, 0) \in Libs
  /\ EmptyReady \in Readies
<1>1. NoStore \in Stores
  BY DEF NoStore, Stores
<1>2. NoSnapshot \in Snapshots /\ NoSnapshot.index = 0
  BY <1>1 DEF NoSnapshot, Snapshot, Snapshots
<1>3. NewStorage(0, 0) \in Storages /\ NewLib(0, 0) \in Libs /\ EmptyReady \in Readies
  BY DEF NewStorage, Storages, NewLib, Libs, EmptyReady, Readies
<1> QED
  BY <1>1, <1>2, <1>3

\* The type invariant makes every index a natural number.
LEMMA IndexesAreNumbers == TypeOK => Numbers
<1> SUFFICES ASSUME TypeOK PROVE Numbers
  OBVIOUS
<1>1. /\ Len(log) \in Nat /\ walLast \in Nat /\ walCommit \in Nat /\ next \in Nat
      /\ appliedIndex \in Nat /\ snapshotIndex \in Nat /\ lastIndex \in Nat
  BY DEF TypeOK
<1>2. snapFile.index \in Nat /\ snap.index \in Nat
  BY DEF TypeOK, Snapshots
<1>3. storage.offset \in Nat /\ storage.last \in Nat /\ storage.snap \in Nat
  BY DEF TypeOK, Storages
<1>4. lib.commit \in Nat /\ lib.applied \in Nat
  BY DEF TypeOK, Libs
<1>5. rd.lo \in Nat /\ rd.hi \in Nat /\ rd.last \in Nat
  BY DEF TypeOK, Readies
<1> QED
  BY <1>1, <1>2, <1>3, <1>4, <1>5 DEF Numbers

\* A member that starts for the first time has nothing on disk.
LEMMA InitInv == Init => IInv
<1> SUFFICES ASSUME Init PROVE IInv
  OBVIOUS
<1>1. TypeOK
  <2>1. log \in Seq(Entry) /\ Len(log) <= MaxLog /\ walSnaps \subseteq Indexes
    BY DEF Init
  <2>2. kvs \in BOOLEAN
    BY ZenonT(30) DEF Init
  <2>3. /\ snapFile \in Snapshots /\ snap \in Snapshots /\ storage \in Storages
        /\ lib \in Libs /\ rd \in Readies /\ kvStore \in Stores
    BY FreshTypes, ZenonT(30) DEF Init
  <2> QED
    BY <2>1, <2>2, <2>3 DEF Init, TypeOK, PCs, Nobody, NilMsg
<1>2. DiskInv /\ BootInv /\ OrderInv /\ ReadyInv /\ SnapInv
  BY FreshTypes DEF Init, DiskInv, BootInv, OrderInv, ReadyInv, SnapInv, LoopPCs,
         Receiving, Triggering, Settled
<1>3. LoopNeverAborts /\ AppliedIsDurable
  BY DEF Init, LoopNeverAborts, AppliedIsDurable
<1> QED
  BY <1>1, <1>2, <1>3 DEF IInv

\* Every step of the member, its store and its environment keeps IInv.
LEMMA NextPreserves == IInv /\ [Next]_vars => IInv'
<1> SUFFICES ASSUME IInv, [Next]_vars PROVE IInv'
  OBVIOUS
<1>0. Numbers
  BY IndexesAreNumbers DEF IInv
<1>Boot. Boot => IInv'
  <2> SUFFICES ASSUME Boot PROVE IInv'
    OBVIOUS
  <2>1. TypeOK'
    <3>1. snapFile.index \in Indexes /\ walLast \in Indexes
      BY DEF IInv, TypeOK, Snapshots
    <3>2. storage' \in Storages
      BY <3>1 DEF Boot, NewStorage, Storages
    <3>3. lastIndex' \in Indexes /\ pc' \in PCs
      BY <1>0, <3>1 DEF Boot, Numbers, PCs, Fatals, Indexes
    <3> QED
      BY <3>2, <3>3 DEF IInv, TypeOK, Boot, disk, kv, bounds
  <2>2. DiskInv' /\ BootInv'
    BY <1>0 DEF IInv, Boot, NewStorage, disk, node, kv, bounds, Numbers,
           DiskInv, BootInv, OrderInv, SnapInv, Durable, LoopPCs, Receiving, Triggering, Settled
  <2>3. OrderInv'
    BY <1>0 DEF IInv, Boot, NewStorage, disk, node, kv, bounds, Numbers,
           DiskInv, BootInv, OrderInv, ReadyInv, SnapInv, Durable, SnapshotDue, LoopPCs, Receiving, Triggering, Settled
  <2>4. ReadyInv'
    BY <1>0 DEF IInv, Boot, NewStorage, disk, node, kv, bounds, Numbers,
           DiskInv, OrderInv, ReadyInv, SnapInv, Durable, LoopPCs, Receiving, Triggering, Settled
  <2>5. SnapInv'
    BY <1>0 DEF IInv, Boot, NewStorage, disk, node, kv, bounds, Numbers,
           DiskInv, OrderInv, ReadyInv, SnapInv, SnapshotDue, LoopPCs, Receiving, Triggering, Settled
  <2>6. LoopNeverAborts' /\ AppliedIsDurable'
    BY <1>0 DEF IInv, Boot, NewStorage, disk, node, kv, bounds, Numbers,
           DiskInv, BootInv, OrderInv, ReadyInv, SnapInv, LoopNeverAborts, AppliedIsDurable,
           Durable, SnapshotDue, LoopPCs, Receiving, Triggering, Settled
  <2> QED
    BY <2>1, <2>2, <2>3, <2>4, <2>5, <2>6 DEF IInv
<1>BootNil. BootNil => IInv'
  <2> SUFFICES ASSUME BootNil PROVE IInv'
    OBVIOUS
  <2>1. TypeOK'
    BY DEF IInv, BootNil, Receptive, NilMsg, disk, node, kv, bounds, TypeOK,
           PCs, LoopPCs, Fatals, Storages, Libs, Readies, Snapshots
  <2>2. DiskInv' /\ BootInv'
    BY <1>0 DEF IInv, BootNil, Receptive, NilMsg, disk, node, kv, bounds, Numbers,
           DiskInv, BootInv, OrderInv, SnapInv, Durable, LoopPCs, Receiving, Triggering, Settled
  <2>3. OrderInv'
    BY <1>0 DEF IInv, BootNil, Receptive, NilMsg, disk, node, kv, bounds, Numbers,
           DiskInv, BootInv, OrderInv, ReadyInv, SnapInv, Durable, SnapshotDue, LoopPCs, Receiving, Triggering, Settled
  <2>4. ReadyInv'
    BY <1>0 DEF IInv, BootNil, Receptive, NilMsg, disk, node, kv, bounds, Numbers,
           DiskInv, OrderInv, ReadyInv, SnapInv, Durable, LoopPCs, Receiving, Triggering, Settled
  <2>5. SnapInv'
    BY <1>0 DEF IInv, BootNil, Receptive, NilMsg, disk, node, kv, bounds, Numbers,
           DiskInv, OrderInv, ReadyInv, SnapInv, SnapshotDue, LoopPCs, Receiving, Triggering, Settled
  <2>6. LoopNeverAborts' /\ AppliedIsDurable'
    BY <1>0 DEF IInv, BootNil, Receptive, NilMsg, disk, node, kv, bounds, Numbers,
           DiskInv, BootInv, OrderInv, ReadyInv, SnapInv, LoopNeverAborts, AppliedIsDurable,
           Durable, SnapshotDue, LoopPCs, Receiving, Triggering, Settled
  <2> QED
    BY <2>1, <2>2, <2>3, <2>4, <2>5, <2>6 DEF IInv
<1>StartNode. StartNode => IInv'
  <2> SUFFICES ASSUME StartNode PROVE IInv'
    OBVIOUS
  <2>1. TypeOK'
    <3>1. lib' \in Libs
      BY DEF IInv, StartNode, TypeOK, NewLib, Libs, Storages
    <3>2. confState' \subseteq Nodes /\ peers' \subseteq Nodes
      BY DEF IInv, StartNode, TypeOK, ConfAtStart, Snapshots, Nodes, node
    <3> QED
      BY <3>1, <3>2 DEF IInv, StartNode, TypeOK, PCs, LoopPCs, Fatals, Storages, disk, node, kv,
           bounds
  <2>2. DiskInv' /\ BootInv'
    BY <1>0 DEF IInv, StartNode, NewLib, ConfAtStart, disk, node, kv, bounds, Numbers,
           DiskInv, BootInv, OrderInv, SnapInv, Durable, LoopPCs, Receiving, Triggering, Settled
  <2>3. OrderInv'
    <3>1. CASE pc' = "loadStatePanic"
      BY <3>1 DEF OrderInv, LoopPCs, Triggering, Settled
    <3>2. CASE pc' # "loadStatePanic"
      <4>1. /\ pc' = "loop" /\ lib' = NewLib(walCommit, storage.offset)
            /\ snapshotIndex' = storage.snap /\ appliedIndex' = storage.snap
            /\ walCommit \in storage.snap..storage.last
            /\ UNCHANGED <<walLast, walCommit, snapFile, storage>>
        BY <3>2 DEF StartNode, disk
      <4>2. storage.snap = storage.offset /\ Durable(storage.last)
        BY DEF IInv, StartNode, BootInv
      <4> QED
        BY <1>0, <4>1, <4>2 DEF OrderInv, Numbers, NewLib, Durable, LoopPCs, Triggering
    <3> QED
      BY <3>1, <3>2
  <2>4. ReadyInv'
    BY <1>0 DEF IInv, StartNode, NewLib, ConfAtStart, disk, node, kv, bounds, Numbers,
           DiskInv, OrderInv, ReadyInv, SnapInv, Durable, LoopPCs, Receiving, Triggering, Settled
  <2>5. SnapInv'
    BY <1>0 DEF IInv, StartNode, NewLib, ConfAtStart, disk, node, kv, bounds, Numbers,
           DiskInv, OrderInv, ReadyInv, SnapInv, SnapshotDue, LoopPCs, Receiving, Triggering, Settled
  <2>6. LoopNeverAborts' /\ AppliedIsDurable'
    BY <1>0 DEF IInv, StartNode, NewLib, ConfAtStart, disk, node, kv, bounds, Numbers,
           DiskInv, BootInv, OrderInv, ReadyInv, SnapInv, LoopNeverAborts, AppliedIsDurable,
           Durable, SnapshotDue, LoopPCs, Receiving, Triggering, Settled
  <2> QED
    BY <2>1, <2>2, <2>3, <2>4, <2>5, <2>6 DEF IInv
<1>SaveSnapWAL. SaveSnapWAL => IInv'
  <2> SUFFICES ASSUME SaveSnapWAL PROVE IInv'
    OBVIOUS
  <2>1. TypeOK'
    BY ZenonT(30) DEF IInv, SaveSnapWAL, RecordSnapshot, disk, node, kv, bounds, TypeOK,
           PCs, LoopPCs, Fatals, Storages, Libs, Readies, Snapshots
  <2>2. DiskInv' /\ BootInv'
    BY <1>0 DEF IInv, SaveSnapWAL, RecordSnapshot, disk, node, kv, bounds, Numbers,
           DiskInv, BootInv, OrderInv, SnapInv, Durable, LoopPCs, Receiving, Triggering, Settled
  <2>3. OrderInv'
    BY <1>0 DEF IInv, SaveSnapWAL, RecordSnapshot, disk, node, kv, bounds, Numbers,
           DiskInv, BootInv, OrderInv, ReadyInv, SnapInv, Durable, SnapshotDue, LoopPCs, Receiving, Triggering, Settled
  <2>4. ReadyInv'
    BY <1>0 DEF IInv, SaveSnapWAL, RecordSnapshot, disk, node, kv, bounds, Numbers,
           DiskInv, OrderInv, ReadyInv, SnapInv, Durable, LoopPCs, Receiving, Triggering, Settled
  <2>5. SnapInv'
    BY <1>0 DEF IInv, SaveSnapWAL, RecordSnapshot, disk, node, kv, bounds, Numbers,
           DiskInv, OrderInv, ReadyInv, SnapInv, SnapshotDue, LoopPCs, Receiving, Triggering, Settled
  <2>6. LoopNeverAborts' /\ AppliedIsDurable'
    BY <1>0 DEF IInv, SaveSnapWAL, RecordSnapshot, disk, node, kv, bounds, Numbers,
           DiskInv, BootInv, OrderInv, ReadyInv, SnapInv, LoopNeverAborts, AppliedIsDurable,
           Durable, SnapshotDue, LoopPCs, Receiving, Triggering, Settled
  <2> QED
    BY <2>1, <2>2, <2>3, <2>4, <2>5, <2>6 DEF IInv
<1>SaveSnapFile. SaveSnapFile => IInv'
  <2> SUFFICES ASSUME SaveSnapFile PROVE IInv'
    OBVIOUS
  <2>a. pc \in {"recvFile", "trigFile"} /\ snapFile' = snap
    <3>1. pc \in {"recvFile", "trigFile"}
      BY DEF SaveSnapFile
    <3>2. snap.index = lib.commit /\ lib.commit = walCommit /\ snapFile.index <= walCommit
      BY <3>1 DEF IInv, DiskInv, OrderInv, SnapInv, LoopPCs, Receiving, Triggering
    <3> QED
      BY <3>1, <3>2, <1>0 DEF SaveSnapFile, Numbers
  <2>b. /\ pc = "recvFile" => pc' = "recvPub" /\ storage' = NewStorage(snap.index, snap.index)
        /\ pc = "trigFile" => pc' = "compact" /\ storage' = storage
    <3>1. pc = "recvFile" => storage.snap <= snapshotIndex /\ snapshotIndex <= appliedIndex
                               /\ appliedIndex < snap.index
      BY DEF IInv, OrderInv, SnapInv, LoopPCs, Receiving, Triggering
    <3> QED
      BY <3>1, <1>0 DEF SaveSnapFile, Numbers
  <2>c. UNCHANGED <<log, walSnaps, walLast, walCommit, lib, rd, next, snap, appliedIndex, snapshotIndex>>
    BY DEF SaveSnapFile, node
  <2>1. TypeOK'
    <3>1. snap \in Snapshots /\ snap.index \in Indexes /\ storage \in Storages
      BY DEF IInv, TypeOK, Snapshots
    <3>2. snapFile' \in Snapshots /\ storage' \in Storages /\ pc' \in PCs
      BY <2>a, <2>b, <3>1 DEF NewStorage, Storages, PCs, LoopPCs
    <3> QED
      BY <3>2 DEF IInv, SaveSnapFile, node, kv, bounds, TypeOK
  <2>2. DiskInv' /\ BootInv'
    <3>1. snap.index \in walSnaps /\ snap.index <= walCommit
      BY <2>a, <1>0 DEF IInv, OrderInv, SnapInv, LoopPCs, Receiving, Triggering, Numbers
    <3>2. DiskInv'
      BY <2>a, <2>c, <3>1 DEF IInv, DiskInv
    <3>3. BootInv'
      BY <2>a, <2>b DEF BootInv
    <3> QED
      BY <3>2, <3>3
  <2>3. OrderInv'
    <3>1. CASE pc = "recvFile"
      BY <3>1, <2>b, <2>c DEF IInv, OrderInv, LoopPCs, Receiving, Triggering, Settled
    <3>2. CASE pc = "trigFile"
      <4>1. snapFile.index <= snapFile'.index
        BY <3>2, <2>a DEF IInv, DiskInv, OrderInv, SnapInv, LoopPCs, Triggering
      <4>2. lib.commit <= storage.last /\ Durable(storage.last)
        BY <3>2 DEF IInv, OrderInv, Triggering, Settled
      <4>3. Durable(storage.last)'
        BY <1>0, <2>b, <2>c, <3>2, <4>1, <4>2, <2>a DEF Durable, Numbers
      <4> QED
        BY <3>2, <2>b, <2>c, <4>2, <4>3 DEF IInv, OrderInv, LoopPCs, Triggering
    <3> QED
      BY <2>a, <3>1, <3>2
  <2>4. ReadyInv'
    BY <1>0 DEF IInv, SaveSnapFile, NewStorage, disk, node, kv, bounds, Numbers,
           DiskInv, OrderInv, ReadyInv, SnapInv, Durable, LoopPCs, Receiving, Triggering, Settled
  <2>5. SnapInv'
    BY <2>a, <2>b, <2>c DEF IInv, SnapInv, SnapshotDue, NewStorage, Receiving, Triggering
  <2>6. LoopNeverAborts' /\ AppliedIsDurable'
    BY <1>0 DEF IInv, SaveSnapFile, NewStorage, disk, node, kv, bounds, Numbers,
           DiskInv, BootInv, OrderInv, ReadyInv, SnapInv, LoopNeverAborts, AppliedIsDurable,
           Durable, SnapshotDue, LoopPCs, Receiving, Triggering, Settled
  <2> QED
    BY <2>1, <2>2, <2>3, <2>4, <2>5, <2>6 DEF IInv
<1>PublishSnapshot. PublishSnapshot => IInv'
  <2> SUFFICES ASSUME PublishSnapshot PROVE IInv'
    OBVIOUS
  <2>1. TypeOK'
    BY ZenonT(30) DEF IInv, PublishSnapshot, Receptive, NilMsg, NewStorage, disk, node, kv, bounds, TypeOK,
           PCs, LoopPCs, Fatals, Storages, Libs, Readies, Snapshots
  <2>2. DiskInv' /\ BootInv'
    BY <1>0 DEF IInv, PublishSnapshot, Receptive, NilMsg, NewStorage, disk, node, kv, bounds, Numbers,
           DiskInv, BootInv, OrderInv, SnapInv, Durable, LoopPCs, Receiving, Triggering, Settled
  <2>3. OrderInv'
    BY <1>0 DEF IInv, PublishSnapshot, Receptive, NilMsg, NewStorage, disk, node, kv, bounds, Numbers,
           DiskInv, BootInv, OrderInv, ReadyInv, SnapInv, Durable, SnapshotDue, LoopPCs, Receiving, Triggering, Settled
  <2>4. ReadyInv'
    BY <1>0 DEF IInv, PublishSnapshot, Receptive, NilMsg, NewStorage, disk, node, kv, bounds, Numbers,
           DiskInv, OrderInv, ReadyInv, SnapInv, Durable, LoopPCs, Receiving, Triggering, Settled
  <2>5. SnapInv'
    BY <1>0 DEF IInv, PublishSnapshot, Receptive, NilMsg, NewStorage, disk, node, kv, bounds, Numbers,
           DiskInv, OrderInv, ReadyInv, SnapInv, SnapshotDue, LoopPCs, Receiving, Triggering, Settled
  <2>6. LoopNeverAborts' /\ AppliedIsDurable'
    BY <1>0 DEF IInv, PublishSnapshot, Receptive, NilMsg, NewStorage, disk, node, kv, bounds, Numbers,
           DiskInv, BootInv, OrderInv, ReadyInv, SnapInv, LoopNeverAborts, AppliedIsDurable,
           Durable, SnapshotDue, LoopPCs, Receiving, Triggering, Settled
  <2> QED
    BY <2>1, <2>2, <2>3, <2>4, <2>5, <2>6 DEF IInv
<1>AppendEntries. AppendEntries => IInv'
  <2> SUFFICES ASSUME AppendEntries PROVE IInv'
    OBVIOUS
  <2>a. FirstToApply = appliedIndex + 1
    BY DEF IInv, TypeOK, Readies, FirstToApply
  <2>b. /\ storage' \in Storages /\ storage'.last = rd.last
        /\ storage'.offset = storage.offset /\ storage'.snap = storage.snap
    BY ZenonT(30) DEF IInv, TypeOK, AppendEntries, Storages, Readies
  <2>c. pc' = "publish" /\ next' = appliedIndex + 1
    <3>1. rd.lo <= rd.hi => rd.lo <= appliedIndex + 1
      BY DEF IInv, AppendEntries, ReadyInv
    <3>2. ~(rd.lo <= rd.hi /\ rd.lo > appliedIndex + 1)
      BY <3>1, <1>0 DEF Numbers
    <3> QED
      BY <3>2, <2>a DEF AppendEntries
  <2>1. TypeOK'
    <3>1. next' \in 1..MaxLog+1
      BY <2>c DEF IInv, TypeOK
    <3>2. UNCHANGED <<log, disk, lib, rd, snap, node, kv, bounds>>
      BY DEF AppendEntries
    <3> QED
      BY <2>b, <2>c, <3>1, <3>2 DEF IInv, TypeOK, PCs, LoopPCs, disk, node, kv, bounds
  <2>2. DiskInv' /\ BootInv'
    BY <1>0, <2>a, <2>b, <2>c, ZenonT(30) DEF IInv, AppendEntries, disk, node, kv, bounds, Numbers,
           DiskInv, BootInv, OrderInv, SnapInv, Durable, LoopPCs, Receiving, Triggering, Settled
  <2>3. OrderInv'
    BY <1>0, <2>a, <2>b, <2>c DEF IInv, AppendEntries, disk, node, kv, bounds, Numbers,
           DiskInv, BootInv, OrderInv, ReadyInv, SnapInv, Durable, SnapshotDue, LoopPCs, Receiving, Triggering, Settled
  <2>4. ReadyInv'
    BY <1>0, <2>a, <2>b, <2>c DEF IInv, AppendEntries, disk, node, kv, bounds, Numbers,
           DiskInv, OrderInv, ReadyInv, SnapInv, Durable, LoopPCs, Receiving, Triggering, Settled
  <2>5. SnapInv'
    BY <1>0, <2>a, <2>b, <2>c DEF IInv, AppendEntries, disk, node, kv, bounds, Numbers,
           DiskInv, OrderInv, ReadyInv, SnapInv, SnapshotDue, LoopPCs, Receiving, Triggering, Settled
  <2>6. LoopNeverAborts' /\ AppliedIsDurable'
    BY <1>0, <2>a, <2>b, <2>c DEF IInv, AppendEntries, disk, node, kv, bounds, Numbers,
           DiskInv, BootInv, OrderInv, ReadyInv, SnapInv, LoopNeverAborts, AppliedIsDurable,
           Durable, SnapshotDue, LoopPCs, Receiving, Triggering, Settled
  <2> QED
    BY <2>1, <2>2, <2>3, <2>4, <2>5, <2>6 DEF IInv
<1>PublishNil. PublishNil => IInv'
  <2> SUFFICES ASSUME PublishNil PROVE IInv'
    OBVIOUS
  <2>1. TypeOK'
    BY DEF IInv, PublishNil, Receptive, NilMsg, disk, node, kv, bounds, TypeOK,
           PCs, LoopPCs, Fatals, Storages, Libs, Readies, Snapshots
  <2>2. DiskInv' /\ BootInv'
    BY <1>0 DEF IInv, PublishNil, Receptive, NilMsg, disk, node, kv, bounds, Numbers,
           DiskInv, BootInv, OrderInv, SnapInv, Durable, LoopPCs, Receiving, Triggering, Settled
  <2>3. OrderInv'
    BY <1>0 DEF IInv, PublishNil, Receptive, NilMsg, disk, node, kv, bounds, Numbers,
           DiskInv, BootInv, OrderInv, ReadyInv, SnapInv, Durable, SnapshotDue, LoopPCs, Receiving, Triggering, Settled
  <2>4. ReadyInv'
    BY <1>0 DEF IInv, PublishNil, Receptive, NilMsg, disk, node, kv, bounds, Numbers,
           DiskInv, OrderInv, ReadyInv, SnapInv, Durable, LoopPCs, Receiving, Triggering, Settled
  <2>5. SnapInv'
    BY <1>0 DEF IInv, PublishNil, Receptive, NilMsg, disk, node, kv, bounds, Numbers,
           DiskInv, OrderInv, ReadyInv, SnapInv, SnapshotDue, LoopPCs, Receiving, Triggering, Settled
  <2>6. LoopNeverAborts' /\ AppliedIsDurable'
    BY <1>0 DEF IInv, PublishNil, Receptive, NilMsg, disk, node, kv, bounds, Numbers,
           DiskInv, BootInv, OrderInv, ReadyInv, SnapInv, LoopNeverAborts, AppliedIsDurable,
           Durable, SnapshotDue, LoopPCs, Receiving, Triggering, Settled
  <2> QED
    BY <2>1, <2>2, <2>3, <2>4, <2>5, <2>6 DEF IInv
<1>Advance. Advance => IInv'
  <2> SUFFICES ASSUME Advance PROVE IInv'
    OBVIOUS
  <2>a. lib'.applied = lib.commit /\ lib'.commit = lib.commit
    BY DEF IInv, TypeOK, Advance, EndOfReady, Libs
  <2>b. appliedIndex = lib.commit
    BY DEF IInv, TypeOK, Advance, OrderInv, ReadyInv, Libs, Readies, LoopPCs
  <2>1. TypeOK'
    <3>1. snap' \in Snapshots /\ rd' \in Readies
      BY FreshTypes, ZenonT(30) DEF Advance, EndOfReady
    <3>2. lib' \in Libs
      BY ZenonT(30) DEF IInv, TypeOK, Advance, EndOfReady, Libs
    <3> QED
      BY <3>1, <3>2 DEF IInv, Advance, EndOfReady, TypeOK, PCs, LoopPCs, disk, node, kv, bounds
  <2>2. DiskInv' /\ BootInv'
    BY <1>0, <2>a, <2>b DEF IInv, Advance, EndOfReady, disk, node, kv, bounds, Numbers,
           DiskInv, BootInv, OrderInv, SnapInv, Durable, LoopPCs, Receiving, Triggering, Settled
  <2>3. OrderInv'
    BY <1>0, <2>a, <2>b DEF IInv, Advance, EndOfReady, disk, node, kv, bounds, Numbers,
           DiskInv, BootInv, OrderInv, ReadyInv, SnapInv, Durable, SnapshotDue, LoopPCs, Receiving, Triggering, Settled
  <2>4. ReadyInv'
    BY <1>0, <2>a, <2>b DEF IInv, Advance, EndOfReady, disk, node, kv, bounds, Numbers,
           DiskInv, OrderInv, ReadyInv, SnapInv, Durable, LoopPCs, Receiving, Triggering, Settled
  <2>5. SnapInv'
    BY <1>0, <2>a, <2>b DEF IInv, Advance, EndOfReady, disk, node, kv, bounds, Numbers,
           DiskInv, OrderInv, ReadyInv, SnapInv, SnapshotDue, LoopPCs, Receiving, Triggering, Settled
  <2>6. LoopNeverAborts' /\ AppliedIsDurable'
    BY <1>0, <2>a, <2>b DEF IInv, Advance, EndOfReady, disk, node, kv, bounds, Numbers,
           DiskInv, BootInv, OrderInv, ReadyInv, SnapInv, LoopNeverAborts, AppliedIsDurable,
           Durable, SnapshotDue, LoopPCs, Receiving, Triggering, Settled
  <2> QED
    BY <2>1, <2>2, <2>3, <2>4, <2>5, <2>6 DEF IInv
<1>TriggerSnapshot. TriggerSnapshot => IInv'
  <2> SUFFICES ASSUME TriggerSnapshot PROVE IInv'
    OBVIOUS
  <2>a. appliedIndex = lib.commit
    <3>1. pc = "publish" /\ next > rd.hi
      BY DEF TriggerSnapshot
    <3>2. rd.hi = lib.commit /\ next = appliedIndex + 1 /\ appliedIndex <= lib.commit
      BY <3>1 DEF IInv, OrderInv, ReadyInv, LoopPCs
    <3> QED
      BY <3>1, <3>2, <1>0 DEF Numbers
  <2>b. appliedIndex \in storage.snap+1..storage.last
    <3>1. storage.snap <= snapshotIndex /\ lib.commit <= storage.last
      BY DEF IInv, TriggerSnapshot, OrderInv, LoopPCs, Triggering, Settled
    <3>2. appliedIndex - snapshotIndex > SnapCount
      BY DEF TriggerSnapshot, SnapshotDue
    <3> QED
      BY <3>1, <3>2, <1>0, <2>a DEF Numbers
  <2>c. \/ pc' = "nilStorePanic" /\ UNCHANGED <<storage, snap>>
        \/ /\ pc' = "trigWal" /\ snap' = Snapshot(appliedIndex, kvStore, confState)
           /\ storage' = [storage EXCEPT !.snap = appliedIndex]
    BY <2>b DEF TriggerSnapshot
  <2>d. /\ pc' = "trigWal" => snap'.index = appliedIndex /\ storage'.snap = appliedIndex
        /\ storage'.offset = storage.offset /\ storage'.last = storage.last
    <3>1. storage \in Storages
      BY DEF IInv, TypeOK
    <3> QED
      BY <2>c, <3>1 DEF Snapshot, Storages
  <2>e. UNCHANGED <<log, walSnaps, walLast, walCommit, snapFile, lib, rd, next, appliedIndex, snapshotIndex>>
    BY DEF TriggerSnapshot, disk, node
  <2>1. TypeOK'
    <3>1. storage' \in Storages
      BY ZenonT(30) DEF IInv, TypeOK, TriggerSnapshot, Storages
    <3>2. snap' \in Snapshots
      <4>1. /\ snap \in Snapshots /\ appliedIndex \in Indexes /\ kvStore \in Stores
            /\ confState \subseteq Nodes
        BY DEF IInv, TypeOK
      <4> QED
        BY <2>c, <4>1 DEF Snapshot, Snapshots
    <3> QED
      BY <3>1, <3>2 DEF IInv, TriggerSnapshot, TypeOK, PCs, LoopPCs, Fatals, disk, node, kv, bounds
  <2>2. DiskInv' /\ BootInv'
    BY <1>0, <2>a, <2>b, <2>c, <2>d, ZenonT(30) DEF IInv, TriggerSnapshot, disk, node, kv, bounds, Numbers,
           DiskInv, BootInv, OrderInv, SnapInv, Durable, LoopPCs, Receiving, Triggering, Settled
  <2>3. OrderInv'
    BY <1>0, <2>a, <2>b, <2>c, <2>d, <2>e DEF IInv, TriggerSnapshot, OrderInv, Numbers, Durable,
           LoopPCs, Triggering, Settled
  <2>4. ReadyInv'
    BY <1>0, <2>a, <2>b, <2>c, <2>d DEF IInv, TriggerSnapshot, disk, node, kv, bounds, Numbers,
           DiskInv, OrderInv, ReadyInv, SnapInv, Durable, LoopPCs, Receiving, Triggering, Settled
  <2>5. SnapInv'
    BY <1>0, <2>a, <2>b, <2>c, <2>d, ZenonT(30) DEF IInv, TriggerSnapshot, disk, node, kv, bounds, Numbers,
           DiskInv, OrderInv, ReadyInv, SnapInv, SnapshotDue, LoopPCs, Receiving, Triggering, Settled
  <2>6. LoopNeverAborts' /\ AppliedIsDurable'
    BY <1>0, <2>a, <2>b, <2>c, <2>d, ZenonT(30) DEF IInv, TriggerSnapshot, disk, node, kv, bounds, Numbers,
           DiskInv, BootInv, OrderInv, ReadyInv, SnapInv, LoopNeverAborts, AppliedIsDurable,
           Durable, SnapshotDue, LoopPCs, Receiving, Triggering, Settled
  <2> QED
    BY <2>1, <2>2, <2>3, <2>4, <2>5, <2>6 DEF IInv
<1>CompactLog. CompactLog => IInv'
  <2> SUFFICES ASSUME CompactLog PROVE IInv'
    OBVIOUS
  <2>a. CompactIndex \in storage.offset+1..storage.last /\ CompactIndex <= appliedIndex
    <3>1. /\ appliedIndex \in Nat /\ snapshotIndex \in Nat /\ storage.offset \in Nat
          /\ storage.last \in Nat
      BY DEF IInv, TypeOK, Storages
    <3>2. /\ appliedIndex - snapshotIndex > SnapCount /\ storage.offset <= snapshotIndex
          /\ appliedIndex = lib.commit /\ lib.commit <= storage.last
      BY DEF IInv, CompactLog, OrderInv, SnapInv, SnapshotDue, LoopPCs, Triggering, Settled
    <3>3. appliedIndex > CatchUpN
      BY <3>1, <3>2
    <3> QED
      BY <3>1, <3>2, <3>3 DEF CompactIndex
  <2>b. lib'.applied = lib.commit /\ lib'.commit = lib.commit /\ appliedIndex = lib.commit
    BY <2>a DEF IInv, TypeOK, CompactLog, EndOfReady, SnapInv, Triggering, Libs
  <2>c. /\ storage' \in Storages /\ storage'.offset = CompactIndex
        /\ storage'.last = storage.last /\ storage'.snap = storage.snap
    <3>1. CompactIndex \in Indexes
      BY <2>a DEF IInv, TypeOK, Storages
    <3>2. storage' = [storage EXCEPT !.offset = CompactIndex]
      BY <2>a DEF CompactLog
    <3> QED
      BY <3>1, <3>2, ZenonT(30) DEF IInv, TypeOK, Storages
  <2>d. pc' = "loop" /\ snapshotIndex' = appliedIndex
    BY <2>a DEF CompactLog, EndOfReady
  <2>1. TypeOK'
    <3>1. snap' \in Snapshots /\ rd' \in Readies
      BY <2>a, FreshTypes, ZenonT(30) DEF CompactLog, EndOfReady
    <3>2. lib' \in Libs
      BY <2>a, ZenonT(30) DEF IInv, TypeOK, CompactLog, EndOfReady, Libs
    <3>3. /\ rd' = EmptyReady /\ next' = 1
          /\ UNCHANGED <<log, disk, appliedIndex, lastIndex, confState, peers, kv, bounds>>
      BY <2>a DEF CompactLog, EndOfReady
    <3> QED
      BY <2>c, <2>d, <3>1, <3>2, <3>3 DEF IInv, TypeOK, PCs, LoopPCs, disk, kv, bounds
  <2>2. DiskInv' /\ BootInv'
    BY <1>0, <2>a, <2>b, <2>c, <2>d DEF IInv, CompactLog, EndOfReady, disk, node, kv, bounds, Numbers,
           DiskInv, BootInv, OrderInv, SnapInv, Durable, LoopPCs, Receiving, Triggering, Settled
  <2>3. OrderInv'
    BY <1>0, <2>a, <2>b, <2>c, <2>d DEF IInv, CompactLog, EndOfReady, disk, node, kv, bounds, Numbers,
           DiskInv, BootInv, OrderInv, ReadyInv, SnapInv, Durable, SnapshotDue, LoopPCs, Receiving, Triggering, Settled
  <2>4. ReadyInv'
    BY <1>0, <2>a, <2>b, <2>c, <2>d DEF IInv, CompactLog, EndOfReady, disk, node, kv, bounds, Numbers,
           DiskInv, OrderInv, ReadyInv, SnapInv, Durable, LoopPCs, Receiving, Triggering, Settled
  <2>5. SnapInv'
    BY <1>0, <2>a, <2>b, <2>c, <2>d DEF IInv, CompactLog, EndOfReady, disk, node, kv, bounds, Numbers,
           DiskInv, OrderInv, ReadyInv, SnapInv, SnapshotDue, LoopPCs, Receiving, Triggering, Settled
  <2>6. LoopNeverAborts' /\ AppliedIsDurable'
    BY <1>0, <2>a, <2>b, <2>c, <2>d DEF IInv, CompactLog, EndOfReady, disk, node, kv, bounds, Numbers,
           DiskInv, BootInv, OrderInv, ReadyInv, SnapInv, LoopNeverAborts, AppliedIsDurable,
           Durable, SnapshotDue, LoopPCs, Receiving, Triggering, Settled
  <2> QED
    BY <2>1, <2>2, <2>3, <2>4, <2>5, <2>6 DEF IInv
\* IInv says nothing of the store but its type: a step of the store alone
\* keeps it.
<1>StoreOnly. UNCHANGED <<log, disk, pc, storage, lib, rd, next, snap, node, bounds>> /\ KVTypeOK' => IInv'
  <2> SUFFICES ASSUME UNCHANGED <<log, disk, pc, storage, lib, rd, next, snap, node, bounds>>, KVTypeOK' PROVE IInv'
    OBVIOUS
  <2> USE DEF disk, node, bounds
  <2>1. TypeOK' /\ DiskInv' /\ BootInv'
    BY DEF IInv, TypeOK, KVTypeOK, DiskInv, BootInv, Durable
  <2>2. OrderInv'
    BY DEF IInv, OrderInv, Durable
  <2>3. ReadyInv'
    BY DEF IInv, ReadyInv, Durable
  <2>4. SnapInv'
    BY DEF IInv, SnapInv, SnapshotDue
  <2>5. LoopNeverAborts' /\ AppliedIsDurable'
    BY DEF IInv, LoopNeverAborts, AppliedIsDurable
  <2> QED
    BY <2>1, <2>2, <2>3, <2>4, <2>5 DEF IInv
<1>StoreStep. StoreStep => IInv'
  <2> SUFFICES ASSUME StoreStep PROVE IInv'
    OBVIOUS
  <2>a. KVTypeOK
    BY DEF IInv, TypeOK, KVTypeOK
  <2>1. CASE ApplyEntry
    <3>1. {hand} \in SUBSET Indexes
      BY <2>1, <2>a DEF KVTypeOK, ApplyEntry, NilMsg
    <3>2. kvStore' \in Stores
      BY <2>1, <2>a, <3>1, ZenonT(30) DEF KVTypeOK, ApplyEntry, Stores
    <3>3. KVTypeOK'
      BY <2>1, <2>a, <3>2 DEF KVTypeOK, ApplyEntry, Nobody
    <3> QED
      BY <2>1, <3>3, <1>StoreOnly DEF ApplyEntry
  <2>2. CASE ReceiveNil
    <3>1. snapFile.data \in Stores
      BY DEF IInv, TypeOK, Snapshots
    <3>2. KVTypeOK'
      BY <2>2, <2>a, <3>1 DEF KVTypeOK, ReceiveNil, AfterReturn, Nobody
    <3> QED
      BY <2>2, <3>2, <1>StoreOnly DEF ReceiveNil
  <2>3. CASE CommitsEnd
    <3>1. KVTypeOK'
      BY <2>3, <2>a DEF KVTypeOK, CommitsEnd, AfterReturn
    <3> QED
      BY <2>3, <3>1, <1>StoreOnly DEF CommitsEnd
  <2>4. CASE AssignKVS
    <3>1. KVTypeOK'
      BY <2>4, <2>a DEF KVTypeOK, AssignKVS
    <3> QED
      BY <2>4, <3>1, <1>StoreOnly DEF AssignKVS
  <2> QED
    BY <2>1, <2>2, <2>3, <2>4 DEF StoreStep
<1>RemovedSelf. RemovedSelf => IInv'
  <2> SUFFICES ASSUME RemovedSelf PROVE IInv'
    OBVIOUS
  <2>1. TypeOK'
    BY ZenonT(30) DEF IInv, RemovedSelf, disk, node, kv, bounds, TypeOK,
           PCs, LoopPCs, Fatals, Storages, Libs, Readies, Snapshots
  <2>2. DiskInv' /\ BootInv'
    BY <1>0 DEF IInv, RemovedSelf, disk, node, kv, bounds, Numbers,
           DiskInv, BootInv, OrderInv, SnapInv, Durable, LoopPCs, Receiving, Triggering, Settled
  <2>3. OrderInv'
    BY <1>0 DEF IInv, RemovedSelf, disk, node, kv, bounds, Numbers,
           DiskInv, BootInv, OrderInv, ReadyInv, SnapInv, Durable, SnapshotDue, LoopPCs, Receiving, Triggering, Settled
  <2>4. ReadyInv'
    BY <1>0 DEF IInv, RemovedSelf, disk, node, kv, bounds, Numbers,
           DiskInv, OrderInv, ReadyInv, SnapInv, Durable, LoopPCs, Receiving, Triggering, Settled
  <2>5. SnapInv'
    BY <1>0 DEF IInv, RemovedSelf, disk, node, kv, bounds, Numbers,
           DiskInv, OrderInv, ReadyInv, SnapInv, SnapshotDue, LoopPCs, Receiving, Triggering, Settled
  <2>6. LoopNeverAborts' /\ AppliedIsDurable'
    BY <1>0 DEF IInv, RemovedSelf, disk, node, kv, bounds, Numbers,
           DiskInv, BootInv, OrderInv, ReadyInv, SnapInv, LoopNeverAborts, AppliedIsDurable,
           Durable, SnapshotDue, LoopPCs, Receiving, Triggering, Settled
  <2> QED
    BY <2>1, <2>2, <2>3, <2>4, <2>5, <2>6 DEF IInv
\* The committed entries of a Ready are on disk before any is published.
<1>ReadyEntries. ASSUME NEW n \in Indexes, NEW c \in Indexes, NEW lo \in 1..MaxLog+1,
                       ReadyEntries(n, c, lo)
                PROVE  IInv'
  <2> USE <1>ReadyEntries
  <2>a. c <= n /\ c <= Len(log) /\ lib.commit <= c /\ lo <= lib.applied + 1
    BY DEF IInv, TypeOK, ReadyEntries, Libs, Storages
  <2>b. /\ lib' \in Libs /\ lib'.commit = c
        /\ rd' \in Readies /\ rd'.lo = lo /\ rd'.hi = c /\ rd'.last = n
    BY ZenonT(30) DEF IInv, TypeOK, ReadyEntries, Libs, Readies
  <2>c. /\ pc = "loop" /\ pc' = "append" /\ walCommit' = c
        /\ UNCHANGED <<log, walSnaps, snapFile, storage, appliedIndex, snapshotIndex>>
    BY DEF ReadyEntries, node
  <2>d. walLast' \in Indexes /\ (n <= walLast' \/ n <= snapFile.index)
    <3>1. CASE n > lib.commit /\ walLast' = SavedLast(n)
      BY <3>1 DEF SavedLast
    <3>2. CASE n = storage.last /\ UNCHANGED walLast
      BY <2>c, <3>2 DEF IInv, TypeOK, OrderInv, Settled, Durable
    <3> QED
      BY <3>1, <3>2 DEF ReadyEntries
  <2>e. snapFile.index <= lib.commit /\ appliedIndex <= lib.commit
    BY <2>c DEF IInv, DiskInv, OrderInv, LoopPCs
  <2>f. /\ snapFile.index \in Nat /\ appliedIndex \in Nat /\ lib.commit \in Nat
        /\ walLast' \in Nat
    BY <2>d DEF IInv, TypeOK, Snapshots, Libs
  <2>1. TypeOK'
    BY <2>a, <2>b, <2>c, <2>d DEF IInv, ReadyEntries, TypeOK, PCs, LoopPCs, disk, node, kv, bounds
  <2>2. DiskInv' /\ BootInv'
    <3>1. snapFile.index <= c
      BY <2>a, <2>e, <2>f
    <3>2. snapFile'.index \in walSnaps'
      BY <2>c DEF IInv, DiskInv
    <3> QED
      BY <2>a, <2>c, <3>1, <3>2 DEF DiskInv, BootInv
  <2>3. OrderInv'
    <3>1. /\ storage.offset <= snapshotIndex /\ storage.snap <= snapshotIndex
          /\ snapshotIndex <= appliedIndex /\ appliedIndex <= lib.commit
      BY <2>c DEF IInv, OrderInv, LoopPCs, Triggering
    <3> QED
      BY <1>0, <2>a, <2>b, <2>c, <2>d, <3>1 DEF OrderInv, Numbers, LoopPCs, Triggering, Settled
  <2>4. ReadyInv'
    BY <1>0, <2>a, <2>b, <2>c, <2>d, <2>e, <2>f DEF IInv, Indexes, disk, node, kv, bounds, Numbers,
           DiskInv, OrderInv, ReadyInv, SnapInv, Durable, LoopPCs, Receiving, Triggering, Settled
  <2>5. SnapInv'
    BY <1>0, <2>a, <2>b, <2>c, <2>d, <2>e, <2>f DEF IInv, Indexes, disk, node, kv, bounds, Numbers,
           DiskInv, OrderInv, ReadyInv, SnapInv, SnapshotDue, LoopPCs, Receiving, Triggering, Settled
  <2>6. LoopNeverAborts' /\ AppliedIsDurable'
    <3>1. appliedIndex <= c /\ appliedIndex <= n
      BY <2>a, <2>e, <2>f
    <3>2. appliedIndex <= walLast' \/ appliedIndex <= snapFile.index
      BY <3>1, <2>d, <2>f
    <3> QED
      BY <2>c, <3>1, <3>2 DEF LoopNeverAborts, AppliedIsDurable
  <2> QED
    BY <2>1, <2>2, <2>3, <2>4, <2>5, <2>6 DEF IInv
<1>ReadySnapshot. ASSUME NEW s \in Indexes, ReadySnapshot(s) PROVE IInv'
  <2> USE <1>ReadySnapshot
  <2>a. s <= Len(log) /\ lib.commit < s /\ s \in 1..MaxLog
    <3>1. s \in lib.commit+1..Len(log)
      BY DEF ReadySnapshot
    <3>2. lib.commit \in Nat /\ Len(log) \in Nat /\ Len(log) <= MaxLog
      BY DEF IInv, TypeOK, Libs
    <3> QED
      BY <3>1, <3>2
  <2>b. snap' \in Snapshots /\ snap'.index = s
    <3>1. StoreAt(log, s) \in Stores
      BY <2>a DEF StoreAt, Writes, Stores
    <3>2. MembersAt(log, s) \subseteq Nodes
      BY DEF MembersAt
    <3> QED
      BY <2>a, <3>1, <3>2 DEF ReadySnapshot, Snapshot, Snapshots
  <2>c. /\ lib' \in Libs /\ lib'.commit = s
        /\ rd' \in Readies /\ rd' = [lo |-> s + 1, hi |-> s, last |-> s]
    <3>1. lib' \in Libs /\ lib'.commit = s
      BY ZenonT(30) DEF IInv, TypeOK, ReadySnapshot, Libs
    <3>2. rd' = [lo |-> s + 1, hi |-> s, last |-> s]
      BY DEF ReadySnapshot
    <3> QED
      BY <2>a, <3>1, <3>2 DEF Readies
  <2>d. /\ pc = "loop" /\ pc' = "recvWal" /\ walCommit' = s
        /\ UNCHANGED <<log, walSnaps, walLast, snapFile, storage, appliedIndex, snapshotIndex>>
    BY DEF ReadySnapshot, node
  <2>1. TypeOK'
    <3>1. recvSnaps' \in 0..MaxRecvSnaps
      <4>1. recvSnaps \in 0..MaxRecvSnaps
        BY DEF IInv, TypeOK
      <4>2. recvSnaps < MaxRecvSnaps /\ recvSnaps' = recvSnaps + 1
        BY DEF ReadySnapshot
      <4> QED
        BY <4>1, <4>2
    <3>2. UNCHANGED <<next, lastIndex, confState, peers, kvPhase, kvs, hand, kvStore, crashes>>
      BY DEF ReadySnapshot, node, kv
    <3> QED
      BY <2>a, <2>b, <2>c, <2>d, <3>1, <3>2 DEF IInv, TypeOK, PCs, LoopPCs
  <2>2. DiskInv' /\ BootInv'
    <3>1. snapFile.index \in walSnaps /\ snapFile.index <= walCommit /\ walCommit = lib.commit
      BY <2>d DEF IInv, DiskInv, OrderInv, LoopPCs
    <3> QED
      BY <1>0, <2>a, <2>d, <3>1 DEF DiskInv, BootInv, Numbers
  <2>3. OrderInv'
    <3>1. /\ storage.offset <= snapshotIndex /\ storage.snap <= snapshotIndex
          /\ snapshotIndex <= appliedIndex /\ appliedIndex <= lib.commit
      BY <2>d DEF IInv, OrderInv, LoopPCs, Triggering
    <3> QED
      BY <1>0, <2>a, <2>b, <2>c, <2>d, <3>1 DEF OrderInv, Numbers, LoopPCs, Triggering, Settled
  <2>4. ReadyInv'
    BY <1>0, <2>a, <2>b, <2>c, <2>d DEF IInv, Indexes, disk, node, kv, bounds, Numbers,
           DiskInv, OrderInv, ReadyInv, SnapInv, Durable, LoopPCs, Receiving, Triggering, Settled
  <2>5. SnapInv'
    <3>1. appliedIndex <= lib.commit
      BY <2>d DEF IInv, OrderInv, LoopPCs
    <3>2. appliedIndex' < s
      BY <1>0, <2>a, <2>d, <3>1 DEF Numbers
    <3> QED
      BY <2>b, <2>c, <2>d, <3>2 DEF SnapInv, Receiving, Triggering
  <2>6. LoopNeverAborts' /\ AppliedIsDurable'
    <3>1. AppliedIsDurable /\ walCommit = lib.commit
      BY <2>d DEF IInv, OrderInv, LoopPCs
    <3> QED
      BY <1>0, <2>a, <2>d, <3>1 DEF LoopNeverAborts, AppliedIsDurable, Numbers
  <2> QED
    BY <2>1, <2>2, <2>3, <2>4, <2>5, <2>6 DEF IInv
<1>PublishEntry. PublishEntry => IInv'
  <2> SUFFICES ASSUME PublishEntry PROVE IInv'
    OBVIOUS
  <2>a. next \in 1..MaxLog /\ next <= Len(log) /\ next <= lib.commit /\ next = appliedIndex + 1
    <3>1. pc = "publish" /\ next <= rd.hi
      BY DEF PublishEntry
    <3>2. next \in 1..MaxLog+1 /\ Len(log) <= MaxLog /\ walCommit <= Len(log)
      BY DEF IInv, TypeOK, DiskInv
    <3>3. next = appliedIndex + 1 /\ rd.hi = lib.commit /\ lib.commit = walCommit
      BY <3>1 DEF IInv, OrderInv, ReadyInv, LoopPCs
    <3> QED
      BY <1>0, <3>1, <3>2, <3>3 DEF Numbers
  <2>1. TypeOK'
    <3>1. log[next] \in Entry
      BY <2>a DEF IInv, TypeOK
    <3>2. confState' \subseteq Nodes /\ peers' \subseteq Nodes
      BY <3>1 DEF IInv, TypeOK, PublishEntry, PublishData, IgnoreEmpty, AddNode, RemoveNode, Entry
    <3>3. hand' \in {NilMsg} \cup Indexes
      <4>1. hand' = next \/ hand' = hand
        BY DEF PublishEntry, PublishData, IgnoreEmpty, AddNode, RemoveNode
      <4>2. hand \in {NilMsg} \cup Indexes
        BY DEF IInv, TypeOK
      <4> QED
        BY <2>a, <4>1, <4>2
    <3>4. pc' \in PCs /\ next' \in 1..MaxLog+1 /\ appliedIndex' \in Indexes
      BY <2>a, <1>0 DEF PublishEntry, PCs, LoopPCs, Numbers, Indexes
    <3>5. UNCHANGED <<log, walSnaps, walLast, walCommit, snapFile, storage, lib, rd, snap, snapshotIndex,
                      lastIndex, kvPhase, kvs, kvStore, crashes, recvSnaps>>
      BY DEF PublishEntry, PublishData, IgnoreEmpty, AddNode, RemoveNode, disk, kv, bounds
    <3> QED
      BY <3>2, <3>3, <3>4, <3>5 DEF IInv, TypeOK
  <2>b. /\ pc = "publish" /\ pc' \in {"publish", "replayed"} /\ appliedIndex' = next
        /\ next' = next + 1
        /\ UNCHANGED <<log, walSnaps, walLast, walCommit, snapFile, lib, rd, storage, snapshotIndex>>
    BY DEF PublishEntry, disk
  <2>2. DiskInv' /\ BootInv'
    BY <2>b DEF IInv, DiskInv, BootInv
  <2>3. OrderInv'
    <3>1. /\ lib.commit = walCommit /\ snapshotIndex <= appliedIndex
          /\ storage.offset <= snapshotIndex /\ storage.snap <= snapshotIndex
          /\ lib.commit <= storage.last /\ Durable(storage.last)
      BY <2>b DEF IInv, OrderInv, LoopPCs, Triggering, Settled
    <3> QED
      BY <1>0, <2>a, <2>b, <3>1 DEF OrderInv, Numbers, Durable, LoopPCs, Triggering
  <2>4. ReadyInv'
    BY <1>0, <2>a, <2>b DEF IInv, ReadyInv, Numbers
  <2>5. SnapInv'
    BY <2>b DEF SnapInv, Receiving, Triggering
  <2>6. LoopNeverAborts' /\ AppliedIsDurable'
    <3>1. lib.commit = walCommit /\ lib.commit <= storage.last /\ Durable(storage.last)
      BY <2>b DEF IInv, OrderInv, LoopPCs, Settled
    <3> QED
      BY <1>0, <2>a, <2>b, <3>1 DEF Numbers, Durable, LoopNeverAborts, AppliedIsDurable
  <2> QED
    BY <2>1, <2>2, <2>3, <2>4, <2>5, <2>6 DEF IInv
<1>Commit. ASSUME NEW e \in Workload, Commit(e) PROVE IInv'
  <2> USE <1>Commit
  <2>a. Len(log') = Len(log) + 1 /\ log' \in Seq(Entry)
    BY DEF IInv, TypeOK, Commit
  <2>b. /\ pc = "loop" /\ pc' = "loop"
        /\ UNCHANGED <<disk, storage, lib, rd, next, snap, node, kv, bounds>>
    BY DEF Commit
  <2>c. UNCHANGED <<walSnaps, walLast, walCommit, snapFile, appliedIndex, snapshotIndex>>
    BY <2>b DEF disk, node
  <2>1. TypeOK'
    <3>1. Len(log') <= MaxLog
      BY <1>0, <2>a DEF Commit, Numbers
    <3> QED
      BY <2>a, <2>b, <3>1 DEF IInv, TypeOK, disk, node, kv, bounds
  <2>2. DiskInv' /\ BootInv'
    BY <1>0, <2>a, <2>b, <2>c DEF IInv, DiskInv, BootInv, Numbers
  <2>3. OrderInv'
    BY <2>b, <2>c DEF IInv, OrderInv, Durable
  <2>4. ReadyInv'
    BY <2>b DEF ReadyInv
  <2>5. SnapInv'
    BY <2>b DEF SnapInv, Receiving, Triggering
  <2>6. LoopNeverAborts' /\ AppliedIsDurable'
    BY <2>b, <2>c DEF IInv, LoopNeverAborts, AppliedIsDurable
  <2> QED
    BY <2>1, <2>2, <2>3, <2>4, <2>5, <2>6 DEF IInv
<1>Down. Down /\ crashes' \in 0..MaxCrashes => IInv'
  <2> SUFFICES ASSUME Down, crashes' \in 0..MaxCrashes PROVE IInv'
    OBVIOUS
  <2>b. /\ snap' \in Snapshots /\ storage' \in Storages /\ lib' \in Libs /\ rd' \in Readies
        /\ kvStore' \in Stores
    BY FreshTypes, ZenonT(30) DEF Down
  <2>c. pc' = "down" /\ appliedIndex' = 0 /\ UNCHANGED <<log, walSnaps, walLast, walCommit, snapFile>>
    BY DEF Down, disk
  <2>1. TypeOK'
    <3>1. kvs' \in BOOLEAN
      BY ZenonT(30) DEF Down
    <3>2. /\ pc' = "down" /\ next' = 1 /\ appliedIndex' = 0 /\ snapshotIndex' = 0 /\ lastIndex' = 0
          /\ confState' = {} /\ peers' = {} /\ kvPhase' = "replay" /\ hand' = 0
          /\ UNCHANGED <<log, walSnaps, walLast, walCommit, snapFile, recvSnaps>>
      BY DEF Down, disk, Nobody
    <3> QED
      BY <2>b, <3>1, <3>2 DEF IInv, TypeOK, PCs
  <2>2. DiskInv' /\ BootInv'
    BY <2>c DEF IInv, DiskInv, BootInv
  <2>3. OrderInv'
    BY <2>c DEF OrderInv, LoopPCs, Settled, Triggering
  <2>4. ReadyInv'
    BY <2>c DEF ReadyInv
  <2>5. SnapInv'
    BY <2>c DEF SnapInv, Receiving, Triggering
  <2>6. LoopNeverAborts' /\ AppliedIsDurable'
    BY <1>0, <2>c DEF Numbers, LoopNeverAborts, AppliedIsDurable
  <2> QED
    BY <2>1, <2>2, <2>3, <2>4, <2>5, <2>6 DEF IInv
<1>Stutter. UNCHANGED vars => IInv'
  <2> SUFFICES ASSUME UNCHANGED vars PROVE IInv'
    OBVIOUS
  <2>1. KVTypeOK'
    BY DEF IInv, TypeOK, KVTypeOK, vars, kv
  <2> QED
    BY <2>1, <1>StoreOnly DEF vars
<1>1. CASE NodeStep
  BY <1>1, <1>Boot, <1>BootNil, <1>StartNode, <1>SaveSnapWAL,
     <1>SaveSnapFile, <1>PublishSnapshot, <1>AppendEntries,
     <1>PublishEntry, <1>RemovedSelf, <1>PublishNil, <1>Advance,
     <1>TriggerSnapshot, <1>CompactLog DEF NodeStep
<1>2. CASE StoreStep
  BY <1>2, <1>StoreStep
<1>3. CASE Environment
  <2>1. CASE \E e \in Workload : Commit(e)
    BY <2>1, <1>Commit
  <2>2. CASE \E n, c \in Indexes : \E lo \in 1..MaxLog+1 : ReadyEntries(n, c, lo)
    BY <2>2, <1>ReadyEntries
  <2>3. CASE \E s \in Indexes : ReadySnapshot(s)
    BY <2>3, <1>ReadySnapshot
  <2>4. CASE Exit
    BY <2>4, <1>Down DEF Exit, IInv, TypeOK
  <2>5. CASE Crash
    <3>1. crashes' \in 0..MaxCrashes
      BY <2>5 DEF Crash, IInv, TypeOK
    <3> QED
      BY <2>5, <3>1, <1>Down DEF Crash
  <2> QED
    BY <1>3, <2>1, <2>2, <2>3, <2>4, <2>5 DEF Environment
<1>4. CASE UNCHANGED vars
  BY <1>4, <1>Stutter
<1> QED
  BY <1>1, <1>2, <1>3, <1>4 DEF Next

\* The disk, the storage of the raft library, the Ready in hand and the
\* snapshot in hand agree with each other in every reachable state.
THEOREM Invariance == Spec => []IInv
<1>1. Init => IInv
  BY InitInv
<1>2. IInv /\ [Next]_vars => IInv'
  BY NextPreserves
<1> QED
  BY <1>1, <1>2, PTL DEF Spec

\* Every variable keeps its type: no index leaves the log, whatever the
\* interleaving of event loop, store, crashes and redelivery.
THEOREM TypeCorrect == Spec => []TypeOK
<1>1. IInv => TypeOK
  BY DEF IInv
<1> QED
  BY <1>1, Invariance, PTL

\* saveSnap keeps the promise of its comment: the newest snapshot file always
\* has its record in the WAL, so wal.Open never fails to find it.
THEOREM SnapshotAlwaysInWAL == Spec => []SnapshotInWAL
<1>1. IInv => SnapshotInWAL
  BY DEF IInv, DiskInv, SnapshotInWAL
<1> QED
  BY <1>1, Invariance, PTL

\* Neither entriesToApply nor publishSnapshot calls log.Fatal, and neither
\* CreateSnapshot nor Compact returns an error, as long as snapCount is not
\* below snapshotCatchUpEntriesN.
THEOREM LoopSafe == Spec => []LoopNeverAborts
<1>1. IInv => LoopNeverAborts
  BY DEF IInv
<1> QED
  BY <1>1, Invariance, PTL

\* What publishEntries has counted as applied survives a crash at any moment.
THEOREM NothingAppliedIsLost == Spec => []AppliedIsDurable
<1>1. IInv => AppliedIsDurable
  BY DEF IInv
<1> QED
  BY <1>1, Invariance, PTL

-----------------------------------------------------------------------------
(* Entries of the log.                                                     *)

\* A longer log has the same prefixes.
LEMMA PrefixStays ==
  ASSUME NEW l \in Seq(Entry), NEW e, NEW i \in 0..Len(l)
  PROVE  /\ MembersAt(Append(l, e), i) = MembersAt(l, i)
         /\ PeersAt(Append(l, e), i) = PeersAt(l, i)
         /\ StoreAt(Append(l, e), i) = StoreAt(l, i)
<1> DEFINE a == Append(l, e)
<1>1. \A j \in 1..i : a[j] = l[j]
  OBVIOUS
<1> HIDE DEF a
<1>2. \A j \in 1..i : j+1..i \subseteq 1..i
  OBVIOUS
<1>3. MembersAt(a, i) = MembersAt(l, i)
  BY <1>1, <1>2 DEF MembersAt
<1>4. PeersAt(a, i) = PeersAt(l, i)
  BY <1>1, <1>2 DEF PeersAt
<1>5. \A k \in Keys : Writes(a, i, k) = Writes(l, i, k)
  BY <1>1 DEF Writes
<1>6. StoreAt(a, i) = StoreAt(l, i)
  BY <1>5 DEF StoreAt
<1> QED
  BY <1>3, <1>4, <1>6 DEF a

\* The committed entries that are on disk or applied are in the log.
LEMMA IndexesInLog ==
  ASSUME IInv
  PROVE  /\ log \in Seq(Entry) /\ appliedIndex \in Nat
         /\ snapFile.index \in 0..Len(log)
         /\ pc \in LoopPCs => appliedIndex \in 0..Len(log)
         /\ pc \in Receiving \cup Triggering => snap.index \in 0..Len(log)
<1>1. Numbers /\ log \in Seq(Entry)
  BY IndexesAreNumbers DEF IInv, TypeOK
<1>2. snapFile.index <= walCommit /\ walCommit <= Len(log)
  BY DEF IInv, DiskInv
<1>3. pc \in LoopPCs => appliedIndex <= walCommit
  BY <1>1 DEF IInv, OrderInv, Numbers
<1>4. pc \in Receiving \cup Triggering => snap.index = lib.commit /\ lib.commit = walCommit
  BY DEF IInv, SnapInv, OrderInv, Receiving, Triggering, LoopPCs
<1> QED
  BY <1>1, <1>2, <1>3, <1>4 DEF Numbers

\* Entry e is entry appliedIndex + 1 of the log when publishEntries looks at it.
LEMMA NextEntry ==
  ASSUME IInv, pc = "publish", next <= rd.hi
  PROVE  next = appliedIndex + 1 /\ next \in 1..Len(log) /\ log[next] \in Entry
<1>1. Numbers /\ log \in Seq(Entry)
  BY IndexesAreNumbers DEF IInv, TypeOK
<1>2. next = appliedIndex + 1 /\ rd.hi = lib.commit /\ lib.commit = walCommit /\ walCommit <= Len(log)
  BY DEF IInv, ReadyInv, OrderInv, DiskInv, LoopPCs
<1> QED
  BY <1>1, <1>2 DEF Numbers
=============================================================================
