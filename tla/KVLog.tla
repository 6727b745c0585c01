-------------------------------- MODULE KVLog --------------------------------
(***************************************************************************)
(* The log of the raft-backed key-value store (goraft-explore) and what a  *)
(* prefix of it amounts to.  The value an entry writes is identified by    *)
(* the index of the entry, so a store maps a key to {i} when entry i wrote *)
(* it last, and to {} when the key is absent.                              *)
(***************************************************************************)
EXTENDS Integers, Sequences, FiniteSets

CONSTANTS
  Keys,     \* keys of the store
  Self,     \* this member (rc.id)
  Others    \* ids of the other members

ASSUME SelfAssumption == Self \notin Others

Nodes == Others \cup {Self}

\* A proposal of the store, an empty entry (a new leader's), a membership
\* change with a url (POST), without one (bootstrap), and a removal.
Entry ==
  [kind: {"put"}, arg: Keys] \cup [kind: {"empty"}, arg: {Self}]
    \cup [kind: {"addNode", "bootNode", "removeNode"}, arg: Nodes]

-----------------------------------------------------------------------------
NoStore == [k \in Keys |-> {}]

Writes(l, i, k) == {j \in 1..i : l[j].kind = "put" /\ l[j].arg = k}

\* The key-value pairs after the first i entries of l.
StoreAt(l, i) ==
  [k \in Keys |-> {j \in Writes(l, i, k) : \A m \in Writes(l, i, k) : m <= j}]

Removes(e, n) == e.kind = "removeNode" /\ e.arg = n

\* The membership after the first i entries of l.
MembersAt(l, i) ==
  {n \in Nodes :
     \E j \in 1..i : /\ l[j].kind \in {"addNode", "bootNode"} /\ l[j].arg = n
                     /\ \A m \in j+1..i : ~Removes(l[m], n)}
=============================================================================
