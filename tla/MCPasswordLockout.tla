-------------------------- MODULE MCPasswordLockout --------------------------
(* An instance of PasswordLockout for TLC.                                  *)
EXTENDS PasswordLockout, TLC

Symmetry == Permutations(Threads)
=============================================================================
