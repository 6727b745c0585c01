-------------------------- MODULE MCVanishingFiles --------------------------
(* Instances of VanishingFiles for TLC.                                    *)
EXTENDS VanishingFiles, TLC

CONSTANTS u1, u2, d1

TwoUploads == {u1, u2}
OneDownload == {d1}
NoDownload == {}

UploadSymmetry == Permutations(TwoUploads)

\* The longest TTL is five ticks in the instances.
TooLongTTL == {7}
LongTTL == {4}
=============================================================================
