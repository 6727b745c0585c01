---------------------------- MODULE MCQueryRoute ----------------------------
(* An instance of QueryRoute for TLC.                                      *)
EXTENDS QueryRoute

CONSTANTS h1, h2, a, none

TwoRoutes == {h1, h2}
OneKey == {a}
SmallAnswers == {<<>>, <<0>>, <<9, 1>>, <<9, 9>>}
SmallMessages == 1..6
=============================================================================
