------------------------------ MODULE MCNodeLink ------------------------------
(* For TLC: connections are alike. *)
EXTENDS NodeLink, TLC

Alike == Permutations(Conns)
===============================================================================
