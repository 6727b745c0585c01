---------------------------- MODULE CommittedMap ----------------------------
(***************************************************************************)
(* What one member of the key-value store promises to its http clients:    *)
(* a GET shows the pairs of some prefix of the committed log, and no later *)
(* GET shows an older write of a key, whatever the member goes through in  *)
(* between.                                                                *)
(***************************************************************************)
EXTENDS KVLog

CONSTANT Workload    \* entries the cluster may commit

VARIABLES
  log,     \* the committed log
  view     \* the pairs clients saw last

Init == log = <<>> /\ view = NoStore

Grow(e) ==
  /\ log' = Append(log, e)
  /\ UNCHANGED view

Show(i) ==
  /\ view' = StoreAt(log, i)
  /\ \A k \in Keys : \A old \in view[k] : \E new \in view'[k] : new >= old
  /\ UNCHANGED log

Next ==
  \/ \E e \in Workload : Grow(e)
  \/ \E i \in 0..Len(log) : Show(i)

Spec == Init /\ [][Next]_<<log, view>>
=============================================================================
