--------------------------- MODULE MCResolverRing ---------------------------
(* Instances of ResolverRing for TLC.                                      *)
EXTENDS ResolverRing, TLC

CONSTANTS h1, h2, h3, h4, h5, t1, t2

FourHandlers == {h1, h2, h3, h4}
TwoThreads == {t1, t2}

=============================================================================
