------------------------------- MODULE MCWorkspace -------------------------------
(* Instances of Workspace for TLC: two workers, on projects of their own or on *)
(* the same one.                                                               *)
EXTENDS Workspace, TLC

CONSTANTS w1, w2, p1, p2

(* The workers are alike, and so are the projects. *)
Symmetry == Permutations({w1, w2}) \cup Permutations({p1, p2})
================================================================================
