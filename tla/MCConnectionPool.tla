-------------------------- MODULE MCConnectionPool --------------------------
(* Instances of ConnectionPool for TLC.  Connection identities are only     *)
(* compared with each other, so permuting them is a symmetry.               *)
EXTENDS ConnectionPool, TLC

CONSTANTS r1, r2, r3, o1, o2

ConnSymmetry == Permutations(Conns)
=============================================================================
