------------------------------- MODULE KVNode -------------------------------
(***************************************************************************)
(* One member of the raft-backed key-value store (goraft-explore): the     *)
(* event loop of raftNode, the disk it writes (write-ahead log and         *)
(* snapshot directory), the kvstore that reads commitC, and crashes        *)
(* followed by restarts.                                                   *)
(*                                                                         *)
(* The content of an entry is decided when it commits: "log" is the        *)
(* committed log of the cluster, of which this member holds the prefix up  *)
(* to storage.last (entries above Len(log) are uncommitted).               *)
(***************************************************************************)
EXTENDS KVLog

CONSTANTS
  StartPeers,    \* members named on the command line, but this one
  Workload,      \* entries the cluster may commit
  SnapCount,     \* defaultSnapCount
  CatchUpN,      \* snapshotCatchUpEntriesN
  MaxLog,        \* bound on the indexes of the log
  MaxCrashes,    \* bound on crashes
  MaxRecvSnaps   \* bound on snapshots received from the leader

ASSUME ConstantsAssumption ==
  /\ StartPeers \subseteq Others
  /\ Workload \subseteq Entry
  /\ MaxLog \in Nat
  /\ MaxCrashes \in Nat
  /\ MaxRecvSnaps \in Nat

\* Both are 10000 in the source; the proofs need no more than this.
ASSUME CountsAssumption ==
  /\ SnapCount \in Nat
  /\ CatchUpN \in Nat
  /\ CatchUpN <= SnapCount

VARIABLES
  log,            \* committed log of the cluster
  walSnaps,       \* snapshot indexes recorded in the WAL
  walLast,        \* last entry of the WAL
  walCommit,      \* commit index of the last HardState in the WAL
  snapFile,       \* newest file of the snapshot directory
  pc,             \* where the event loop is
  storage,        \* raft.MemoryStorage: dummy index, last index, snapshot index
  lib,            \* commit and applied index of the raft library
  rd,             \* the Ready being processed
  next,           \* next entry publishEntries looks at
  snap,           \* the snapshot being saved
  appliedIndex, snapshotIndex, lastIndex, confState,
  peers,          \* peers of rc.transport
  kvPhase,        \* which readCommits runs: in newKVStore, or its goroutine
  kvs,            \* main has assigned kvs and serves http
  hand,           \* what readCommits has received and not yet processed
  kvStore,
  crashes, recvSnaps

disk == <<walSnaps, walLast, walCommit, snapFile>>
node == <<appliedIndex, snapshotIndex, lastIndex, confState, peers>>
kv == <<kvPhase, kvs, hand, kvStore>>
bounds == <<crashes, recvSnaps>>
vars == <<log, disk, pc, storage, lib, rd, next, snap, node, kv, bounds>>

-----------------------------------------------------------------------------
(* Snapshots, messages and labels.                                        *)

Snapshot(i, data, conf) == [index |-> i, data |-> data, conf |-> conf]
NoSnapshot == Snapshot(0, NoStore, {})

Nobody == 0     \* readCommits holds nothing
NilMsg == -1    \* readCommits holds the nil message

EmptyReady == [lo |-> 1, hi |-> 0, last |-> 0]

\* log.Fatal and panic of the node, one label per call.
Fatals == {"walOpenFatal", "loadStatePanic", "oldSnapshotFatal", "gapFatal",
           "nilStorePanic", "createSnapshotPanic", "compactPanic"}

LoopPCs == {"loop", "recvWal", "recvFile", "recvPub", "append", "publish",
            "replayed", "trigWal", "trigFile", "compact"}

PCs == {"down", "bootNil", "start", "stopped"} \cup LoopPCs \cup Fatals

-----------------------------------------------------------------------------
NewStorage(i, last) == [offset |-> i, last |-> last, snap |-> i]

NewLib(commit, applied) == [commit |-> commit, applied |-> applied]

Init ==
  /\ log = <<>>
  /\ walSnaps = {0} /\ walLast = 0 /\ walCommit = 0 /\ snapFile = NoSnapshot
  /\ pc = "down"
  /\ storage = NewStorage(0, 0) /\ lib = NewLib(0, 0)
  /\ rd = EmptyReady /\ next = 1 /\ snap = NoSnapshot
  /\ appliedIndex = 0 /\ snapshotIndex = 0 /\ lastIndex = 0
  /\ confState = {} /\ peers = {}
  /\ kvPhase = "replay" /\ kvs = FALSE /\ hand = Nobody /\ kvStore = NoStore
  /\ crashes = 0 /\ recvSnaps = 0

\* The cluster commits one more entry (external).  Only a Ready shows the log
\* to the node, so it is enough that it grows while the loop waits for one.
Commit(e) ==
  /\ pc = "loop"
  /\ Len(log) < MaxLog
  /\ log' = Append(log, e)
  /\ UNCHANGED <<disk, pc, storage, lib, rd, next, snap, node, kv, bounds>>

\* readCommits is at its receive: an unbuffered send can complete.
Receptive == hand = Nobody /\ kvPhase \in {"replay", "live"}

\* startRaft up to the end of replayWAL, but for its nil message.
Boot ==
  /\ pc = "down"
  /\ LET f == snapFile.index
         last == IF walLast > f THEN walLast ELSE f
     IN /\ pc' = IF f \notin walSnaps THEN "walOpenFatal"
                 ELSE IF walLast > f THEN "start" ELSE "bootNil"
        /\ storage' = NewStorage(f, last)
        /\ lastIndex' = IF walLast > f THEN walLast ELSE 0
  /\ UNCHANGED <<log, disk, lib, rd, next, snap, appliedIndex, snapshotIndex,
                 confState, peers, kv, bounds>>

\* replayWAL found no entries: the commit channel is current at once.
BootNil ==
  /\ pc = "bootNil" /\ Receptive
  /\ hand' = NilMsg
  /\ pc' = "start"
  /\ UNCHANGED <<log, disk, storage, lib, rd, next, snap, node, kvPhase, kvs,
                 kvStore, bounds>>

\* Mutant: the membership of the snapshot is not restored.
ConfAtStart_Forgotten == {}

\* serveChannels takes the membership from the snapshot.
ConfAtStart == snapFile.conf

\* raft.StartNode or RestartNode, the transport, the head of serveChannels.
StartNode ==
  /\ pc = "start"
  /\ IF walCommit \notin storage.snap..storage.last
     THEN pc' = "loadStatePanic" /\ UNCHANGED <<lib, node>>
     ELSE /\ pc' = "loop"
          /\ lib' = NewLib(walCommit, storage.offset)
          /\ confState' = ConfAtStart
          /\ snapshotIndex' = storage.snap
          /\ appliedIndex' = storage.snap
          /\ peers' = StartPeers
          /\ UNCHANGED lastIndex
  /\ UNCHANGED <<log, disk, storage, rd, next, snap, kv, bounds>>

-----------------------------------------------------------------------------
(* The event loop on rc.node.Ready().                                      *)

\* Mutant: the entries are not saved to the WAL.
SavedLast_Nothing(n) == walLast

\* rc.wal.Save of entries that end at n: they replace what the WAL has there.
SavedLast(n) == n

\* A Ready with entries to append (n is the new last index), a commit index
\* and the committed entries lo..c, saved to the WAL.  The library never
\* rewrites what is committed, and may deliver again what was applied.
ReadyEntries(n, c, lo) ==
  /\ pc = "loop"
  /\ \/ n > lib.commit /\ walLast' = SavedLast(n)
     \/ n = storage.last /\ UNCHANGED walLast
  /\ c \in lib.commit..n /\ c <= Len(log)
  /\ lo \in storage.offset+1..lib.applied+1
  /\ walCommit' = c
  /\ lib' = [lib EXCEPT !.commit = c]
  /\ rd' = [lo |-> lo, hi |-> c, last |-> n]
  /\ pc' = "append"
  /\ UNCHANGED <<log, walSnaps, snapFile, storage, next, snap, node, kv, bounds>>

\* A Ready with a snapshot at s from the leader: the HardState goes to the
\* WAL first.
ReadySnapshot(s) ==
  /\ pc = "loop"
  /\ recvSnaps < MaxRecvSnaps
  /\ s \in lib.commit+1..Len(log)
  /\ recvSnaps' = recvSnaps + 1
  /\ walCommit' = s
  /\ lib' = [lib EXCEPT !.commit = s]
  /\ rd' = [lo |-> s + 1, hi |-> s, last |-> s]
  /\ snap' = Snapshot(s, StoreAt(log, s), MembersAt(log, s))
  /\ pc' = "recvWal"
  /\ UNCHANGED <<log, walSnaps, walLast, snapFile, storage, next, node, kv, crashes>>

\* Mutant: the snapshot file is written before the record of the WAL.
RecordSnapshot_FileFirst == snapFile' = snap /\ UNCHANGED walSnaps

RecordSnapshot == walSnaps' = walSnaps \cup {snap.index} /\ UNCHANGED snapFile

\* saveSnap, first half: the snapshot record of the WAL.
SaveSnapWAL ==
  /\ pc \in {"recvWal", "trigWal"}
  /\ RecordSnapshot
  /\ pc' = IF pc = "recvWal" THEN "recvFile" ELSE "trigFile"
  /\ UNCHANGED <<log, walLast, walCommit, storage, lib, rd, next, snap, node, kv, bounds>>

\* saveSnap, second half: the snapshot file, the newest of which Load returns.
\* A received snapshot then replaces the storage (ErrSnapOutOfDate is ignored).
SaveSnapFile ==
  /\ pc \in {"recvFile", "trigFile"}
  /\ snapFile' = IF snap.index >= snapFile.index THEN snap ELSE snapFile
  /\ IF pc = "recvFile"
     THEN /\ pc' = "recvPub"
          /\ storage' = IF storage.snap >= snap.index THEN storage
                        ELSE NewStorage(snap.index, snap.index)
     ELSE pc' = "compact" /\ UNCHANGED storage
  /\ UNCHANGED <<log, walSnaps, walLast, walCommit, lib, rd, next, snap, node, kv,
                 bounds>>

PublishSnapshot ==
  /\ pc = "recvPub"
  /\ \/ /\ snap.index <= appliedIndex
        /\ pc' = "oldSnapshotFatal"
        /\ UNCHANGED <<node, hand>>
     \/ /\ snap.index > appliedIndex
        /\ Receptive
        /\ hand' = NilMsg
        /\ confState' = snap.conf
        /\ snapshotIndex' = snap.index
        /\ appliedIndex' = snap.index
        /\ pc' = "append"
        /\ UNCHANGED <<lastIndex, peers>>
  /\ UNCHANGED <<log, disk, storage, lib, rd, next, snap, kvPhase, kvs, kvStore,
                 bounds>>

\* Mutant: nothing is sliced off a Ready that repeats applied entries.
FirstToApply_NoSlice == rd.lo

\* ents[appliedIndex-firstIdx+1:] of entriesToApply starts at this index.
FirstToApply == rd.lo + (appliedIndex - rd.lo + 1)

\* raftStorage.Append, transport.Send and entriesToApply.
AppendEntries ==
  /\ pc = "append"
  /\ storage' = [storage EXCEPT !.last = rd.last]
  /\ IF rd.lo <= rd.hi /\ rd.lo > appliedIndex + 1
     THEN pc' = "gapFatal" /\ UNCHANGED next
     ELSE pc' = "publish" /\ next' = FirstToApply
  /\ UNCHANGED <<log, disk, lib, rd, snap, node, kv, bounds>>

\* Mutant: the send gives up when the store is busy.
PublishData_DropsWhenBusy(e) ==
  /\ e.kind = "put"
  /\ hand' = IF Receptive THEN next ELSE hand
  /\ UNCHANGED <<confState, peers>>

\* What publishEntries does with an entry before it counts as applied.
PublishData(e) ==
  /\ e.kind = "put"
  /\ Receptive
  /\ hand' = next
  /\ UNCHANGED <<confState, peers>>

IgnoreEmpty(e) ==
  /\ e.kind = "empty"
  /\ UNCHANGED <<hand, confState, peers>>

AddNode(e) ==
  /\ e.kind \in {"addNode", "bootNode"}
  /\ confState' = confState \cup {e.arg}
  /\ peers' = IF e.kind = "addNode" THEN peers \cup {e.arg} ELSE peers
  /\ UNCHANGED hand

\* Mutant: the peer of a removed member stays.
RemoveNode_KeepsPeer(e) ==
  /\ e.kind = "removeNode" /\ e.arg # Self
  /\ confState' = confState \ {e.arg}
  /\ UNCHANGED <<peers, hand>>

RemoveNode(e) ==
  /\ e.kind = "removeNode" /\ e.arg # Self
  /\ confState' = confState \ {e.arg}
  /\ peers' = peers \ {e.arg}
  /\ UNCHANGED hand

\* Mutant: replay is declared finished at the first replayed entry.
ReplayFinished_TooEarly == next <= lastIndex

ReplayFinished == next = lastIndex

\* One iteration of publishEntries.
PublishEntry ==
  /\ pc = "publish" /\ next <= rd.hi
  /\ LET e == log[next]
     IN PublishData(e) \/ IgnoreEmpty(e) \/ AddNode(e) \/ RemoveNode(e)
  /\ appliedIndex' = next
  /\ next' = next + 1
  /\ pc' = IF ReplayFinished THEN "replayed" ELSE "publish"
  /\ UNCHANGED <<log, disk, storage, lib, rd, snap, snapshotIndex, lastIndex,
                 kvPhase, kvs, kvStore, bounds>>

\* The iteration that removes this member: publishEntries returns false
\* before the entry counts as applied, and the node stops.
RemovedSelf ==
  /\ pc = "publish" /\ next <= rd.hi
  /\ log[next].kind = "removeNode" /\ log[next].arg = Self
  /\ confState' = confState \ {Self}
  /\ pc' = "stopped"
  /\ UNCHANGED <<log, disk, storage, lib, rd, next, snap, appliedIndex,
                 snapshotIndex, lastIndex, peers, kv, bounds>>

\* The nil message after the entry at lastIndex: replay has finished.
PublishNil ==
  /\ pc = "replayed" /\ Receptive
  /\ hand' = NilMsg
  /\ pc' = "publish"
  /\ UNCHANGED <<log, disk, storage, lib, rd, next, snap, node, kvPhase, kvs,
                 kvStore, bounds>>

\* Mutant: the threshold is one entry too low.
SnapshotDue_AtCount == appliedIndex - snapshotIndex >= SnapCount

SnapshotDue == appliedIndex - snapshotIndex > SnapCount

\* node.Advance(); the Ready and its snapshot go out of scope.
EndOfReady ==
  /\ lib' = [lib EXCEPT !.applied = lib.commit]
  /\ rd' = EmptyReady /\ next' = 1 /\ snap' = NoSnapshot
  /\ pc' = "loop"

\* Everything is published and no snapshot is due: Advance.
Advance ==
  /\ pc = "publish" /\ next > rd.hi
  /\ ~SnapshotDue
  /\ EndOfReady
  /\ UNCHANGED <<log, disk, storage, node, kv, bounds>>

\* maybeTriggerSnapshot up to saveSnap: the map as it is now, as of appliedIndex.
TriggerSnapshot ==
  /\ pc = "publish" /\ next > rd.hi
  /\ SnapshotDue
  /\ \/ /\ ~kvs
        /\ pc' = "nilStorePanic"
        /\ UNCHANGED <<storage, snap>>
     \/ /\ kvs
        /\ appliedIndex \notin storage.snap+1..storage.last
        /\ pc' = "createSnapshotPanic"
        /\ UNCHANGED <<storage, snap>>
     \/ /\ kvs
        /\ appliedIndex \in storage.snap+1..storage.last
        /\ storage' = [storage EXCEPT !.snap = appliedIndex]
        /\ snap' = Snapshot(appliedIndex, kvStore, confState)
        /\ pc' = "trigWal"
  /\ UNCHANGED <<log, disk, lib, rd, next, node, kv, bounds>>

CompactIndex == IF appliedIndex > CatchUpN THEN appliedIndex - CatchUpN ELSE 1

\* maybeTriggerSnapshot after saveSnap, then Advance.
CompactLog ==
  /\ pc = "compact"
  /\ IF CompactIndex \notin storage.offset+1..storage.last
     THEN pc' = "compactPanic" /\ UNCHANGED <<storage, snapshotIndex, lib, rd, next, snap>>
     ELSE /\ storage' = [storage EXCEPT !.offset = CompactIndex]
          /\ snapshotIndex' = appliedIndex
          /\ EndOfReady
  /\ UNCHANGED <<log, disk, appliedIndex, lastIndex, confState, peers, kv, bounds>>

-----------------------------------------------------------------------------
(* The key-value store.                                                    *)

\* readCommits on an entry.
ApplyEntry ==
  /\ hand > 0
  /\ kvStore' = [kvStore EXCEPT ![log[hand].arg] = {hand}]
  /\ hand' = Nobody
  /\ UNCHANGED <<log, disk, pc, storage, lib, rd, next, snap, node, kvPhase, kvs,
                 bounds>>

\* Mutant: newKVStore does not start the second readCommits.
AfterReturn_NoGoroutine == "ended"

\* Mutant: readCommits goes on after nil even when there is no snapshot.
AfterReturn_GoesOn == kvPhase

\* What follows when readCommits returns: newKVStore starts it again once.
AfterReturn == IF kvPhase = "replay" THEN "live" ELSE "ended"

\* readCommits on nil: load the newest snapshot and go on, or return when
\* there is none.
ReceiveNil ==
  /\ hand = NilMsg
  /\ hand' = Nobody
  /\ \/ /\ snapFile.index = 0
        /\ kvPhase' = AfterReturn
        /\ UNCHANGED kvStore
     \/ /\ snapFile.index # 0
        /\ kvStore' = snapFile.data
        /\ UNCHANGED kvPhase
  /\ UNCHANGED <<log, disk, pc, storage, lib, rd, next, snap, node, kvs, bounds>>

\* Mutant: stop leaves commitC open.
CommitsEnd_Open == FALSE /\ UNCHANGED vars

\* stop has closed commitC and errorC: the range of readCommits ends, and so
\* does its receive from errorC.
CommitsEnd ==
  /\ pc = "stopped" /\ Receptive
  /\ kvPhase' = AfterReturn
  /\ UNCHANGED <<log, disk, pc, storage, lib, rd, next, snap, node, kvs, hand, kvStore,
                 bounds>>

\* newKVStore has returned to main, which assigns kvs and serves http.
AssignKVS ==
  /\ kvPhase # "replay" /\ ~kvs
  /\ kvs' = TRUE
  /\ UNCHANGED <<log, disk, pc, storage, lib, rd, next, snap, node, kvPhase, hand,
                 kvStore, bounds>>

\* The end of a process: the disk stays, and the next one starts afresh.
Down ==
  /\ pc' = "down"
  /\ storage' = NewStorage(0, 0) /\ lib' = NewLib(0, 0)
  /\ rd' = EmptyReady /\ next' = 1 /\ snap' = NoSnapshot
  /\ appliedIndex' = 0 /\ snapshotIndex' = 0 /\ lastIndex' = 0
  /\ confState' = {} /\ peers' = {}
  /\ kvPhase' = "replay" /\ kvs' = FALSE /\ hand' = Nobody /\ kvStore' = NoStore
  /\ UNCHANGED <<log, disk, recvSnaps>>

\* A panic, log.Fatal, or main returning from serveHttpKVAPI after stop.
Exit ==
  /\ pc \in Fatals \/ (pc = "stopped" /\ kvs)
  /\ Down
  /\ UNCHANGED crashes

Crash ==
  /\ pc \notin {"down", "stopped"} \cup Fatals
  /\ crashes < MaxCrashes
  /\ crashes' = crashes + 1
  /\ Down

-----------------------------------------------------------------------------
Indexes == 0..MaxLog

NodeStep ==
  \/ Boot \/ BootNil \/ StartNode
  \/ SaveSnapWAL \/ SaveSnapFile \/ PublishSnapshot
  \/ AppendEntries \/ PublishEntry \/ RemovedSelf \/ PublishNil
  \/ Advance \/ TriggerSnapshot \/ CompactLog

StoreStep == ApplyEntry \/ ReceiveNil \/ CommitsEnd \/ AssignKVS

Environment ==
  \/ \E e \in Workload : Commit(e)
  \/ \E n, c \in Indexes : \E lo \in 1..MaxLog+1 : ReadyEntries(n, c, lo)
  \/ \E s \in Indexes : ReadySnapshot(s)
  \/ Exit
  \/ Crash

Next == NodeStep \/ StoreStep \/ Environment

Spec == Init /\ [][Next]_vars

\* Goroutines are scheduled: the event loop runs until it waits for a Ready,
\* readCommits handles what it has received, main goes on and returns.
FairSpec ==
  /\ Spec
  /\ WF_vars(NodeStep)
  /\ WF_vars(ApplyEntry \/ ReceiveNil \/ CommitsEnd)
  /\ WF_vars(AssignKVS) /\ WF_vars(Exit)

-----------------------------------------------------------------------------
(* Properties.                                                             *)

Stores == [Keys -> SUBSET Indexes]
Snapshots == [index: Indexes, data: Stores, conf: SUBSET Nodes]
Storages == [offset: Indexes, last: Indexes, snap: Indexes]
Libs == [commit: Indexes, applied: Indexes]
Readies == [lo: 1..MaxLog+1, hi: Indexes, last: Indexes]

TypeOK ==
  /\ log \in Seq(Entry) /\ Len(log) <= MaxLog
  /\ walSnaps \subseteq Indexes /\ walLast \in Indexes /\ walCommit \in Indexes
  /\ snapFile \in Snapshots
  /\ pc \in PCs
  /\ storage \in Storages /\ lib \in Libs /\ rd \in Readies
  /\ next \in 1..MaxLog+1
  /\ snap \in Snapshots
  /\ appliedIndex \in Indexes /\ snapshotIndex \in Indexes /\ lastIndex \in Indexes
  /\ confState \subseteq Nodes /\ peers \subseteq Nodes
  /\ kvPhase \in {"replay", "live", "ended"} /\ kvs \in BOOLEAN
  /\ hand \in {NilMsg} \cup Indexes
  /\ kvStore \in Stores
  /\ crashes \in 0..MaxCrashes /\ recvSnaps \in 0..MaxRecvSnaps

\* The comment of saveSnap: the WAL is only opened at a snapshot index it has
\* recorded, whatever the moment of a crash.
SnapshotInWAL == snapFile.index \in walSnaps

\* The log.Fatal of entriesToApply and publishSnapshot and the panics on
\* CreateSnapshot and Compact in maybeTriggerSnapshot are never reached.
LoopNeverAborts ==
  pc \notin {"oldSnapshotFatal", "gapFatal", "createSnapshotPanic", "compactPanic"}

\* wal.Save comes before publishEntries: an entry counts as applied only when
\* a restart would find it on disk, and find it committed.
AppliedIsDurable ==
  /\ appliedIndex <= walCommit
  /\ appliedIndex <= walLast \/ appliedIndex <= snapFile.index

\* While http serves, the map is the committed log up to appliedIndex, less the
\* one entry readCommits has received and not stored: publishEntries skips,
\* repeats and reorders nothing, across redelivery, snapshots and restarts.
\* (A nil handled late finds the snapshot that is about to be published.)
StoreIsCommittedPrefix ==
  kvs /\ hand # NilMsg =>
    \/ kvStore = StoreAt(log, IF hand = Nobody THEN appliedIndex ELSE hand - 1)
    \/ pc = "recvPub" /\ kvStore = StoreAt(log, snap.index)

\* rc.confState is the membership the applied log defines: snapshots carry it
\* over restarts, publishSnapshot and serveChannels take it from them.
ConfStateMatchesLog ==
  pc \in LoopPCs => confState = MembersAt(log, appliedIndex)

\* A snapshot misses at most the one entry that was on its way to the store
\* when maybeTriggerSnapshot called getSnapshot.
SnapshotLagsByOneEntry ==
  LET i == snapFile.index
  IN \/ snapFile.data = StoreAt(log, i)
     \/ \E j \in 1..i : /\ snapFile.data = StoreAt(log, j - 1)
                        /\ \A m \in j+1..i : log[m].kind # "put"

\* The peers that the command line and the first i entries of l define.
PeersAt(l, i) ==
  {n \in Nodes :
     \/ n \in StartPeers /\ \A m \in 1..i : ~Removes(l[m], n)
     \/ \E j \in 1..i : /\ l[j].kind = "addNode" /\ l[j].arg = n
                       /\ \A m \in j+1..i : ~Removes(l[m], n)}

\* Where no snapshot hides entries from replay, transport has the peers that
\* the command line and the applied membership changes define, also after a
\* restart: AddPeer and RemovePeer of publishEntries, AddPeer of startRaft.
PeersFollowLog == snapFile.index = 0 /\ pc \in LoopPCs => peers = PeersAt(log, appliedIndex)

\* The event loop always gets back to its select: commitC has a reader.
LoopReturns ==
  []<>(pc \in {"loop", "down", "stopped"} \cup Fatals)

\* "done replaying log; new data incoming": once readCommits has received nil,
\* newKVStore returns and http is served.
NilEndsReplay == hand = NilMsg ~> (kvs \/ pc \in {"down", "stopped"} \cup Fatals)

\* "exit when raft goes down": a member that is removed from the cluster ends,
\* whether it learns of it while it serves or while it replays its log.
RemovedMemberExits == pc = "stopped" ~> pc = "down"

\* "All log entries are replayed over the commit channel, followed by a nil
\* message (to indicate the channel is current)": when replay is over and the
\* store has handled all it received, it has the committed pairs.
ReplayRestoresStore ==
  pc = "loop" /\ hand = Nobody /\ appliedIndex >= lastIndex =>
    kvStore = StoreAt(log, appliedIndex)

\* "after commit, update appliedIndex": a snapshot at appliedIndex holds every
\* entry up to that index.
SnapshotIsComplete == snapFile.data = StoreAt(log, snapFile.index)

\* newRaftNode replays the log of an earlier run: RestartNode accepts the disk
\* that any crash leaves.
RestartAcceptsDisk == pc # "loadStatePanic"
=============================================================================
