------------------------------- MODULE MCPool -------------------------------
(* Pool, on a few connections and operations. *)
EXTENDS Pool, TLC

CONSTANTS c1, c2, c3, o1, o2, z1, m1, m2, r1

(* The connections are interchangeable. *)
ConnSymmetry == Permutations(Conns)
=============================================================================
