-------------------------- MODULE MCServerLifecycle --------------------------
(* Instance of ServerLifecycle for TLC.                                     *)
EXTENDS ServerLifecycle, TLC

SessionSymmetry == Permutations(Sessions)
=============================================================================
