-------------------------- MODULE MCPasswordChange --------------------------
(* An instance of PasswordChange for TLC.                                  *)
EXTENDS PasswordChange, TLC

CONSTANTS r1, r2, r3, alice, nobody, weak, strong1, strong2

SmallRequests == {r1, r2, r3}
OneUser == {alice}
OneStranger == {nobody}
SmallPasswords == {weak, strong1, strong2}
SmallStrong == {strong1, strong2}

RequestSymmetry == Permutations(SmallRequests)
=============================================================================
