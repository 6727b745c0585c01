------------------------------ MODULE MCKVNode ------------------------------
(* Instances of KVNode for TLC.                                            *)
EXTENDS KVNode

CONSTANTS k1, k2, self, other

Put(k) == [kind |-> "put", arg |-> k]
Empty == [kind |-> "empty", arg |-> self]
Add(n) == [kind |-> "addNode", arg |-> n]
Bootstrap(n) == [kind |-> "bootNode", arg |-> n]
Remove(n) == [kind |-> "removeNode", arg |-> n]

KeySet == {k1, k2}
OtherSet == {other}

PutsAndEmpty == {Put(k1), Put(k2), Empty}
Puts == {Put(k1), Put(k2)}
Membership == {Put(k1), Empty, Add(other), Remove(other), Remove(self), Bootstrap(other)}
=============================================================================
