---------------------------- MODULE MCDHCPLeases ----------------------------
(* Instances of DHCPLeases for TLC.                                        *)
EXTENDS DHCPLeases, TLC

CONSTANTS c1, c2, c3

ClientSet == {c1, c2}
ThreeClients == {c1, c2, c3}
ClientSymmetry == Permutations(ClientSet)
=============================================================================
