---------------------------- MODULE KVNodeServed ----------------------------
(***************************************************************************)
(* KVNode with a history variable: what http clients of the member were    *)
(* last served, through httpKVAPI's GET and kvstore.Lookup.                *)
(***************************************************************************)
EXTENDS KVNode

VARIABLE served

ServedInit == Init /\ served = NoStore

\* Lookup reads the map whenever main has gone on to serveHttpKVAPI.
ServedNext == Next /\ served' = IF kvs' THEN kvStore' ELSE served

ServedSpec == ServedInit /\ [][ServedNext]_<<vars, served>>

Promise == INSTANCE CommittedMap WITH view <- served

\* Clients see prefixes of the committed log and never an older write, also
\* when the member crashes and replays its log before it serves again: the nil
\* message of publishEntries comes no earlier than the last entry of the WAL.
ServesCommittedMap == Promise!Spec
=============================================================================
