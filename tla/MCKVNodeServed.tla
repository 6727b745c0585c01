--------------------------- MODULE MCKVNodeServed ---------------------------
(* The instances of MCKVNode for KVNodeServed.                             *)
EXTENDS MCKVNode, KVNodeServed
=============================================================================
