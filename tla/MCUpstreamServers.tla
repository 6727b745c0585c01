------------------------- MODULE MCUpstreamServers --------------------------
(* Instances of UpstreamServers for TLC.                                   *)
EXTENDS UpstreamServers

CONSTANTS t1, t2

OneThread == {t1}
TwoThreads == {t1, t2}
=============================================================================
