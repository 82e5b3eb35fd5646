------------------------------ MODULE MCServe ------------------------------
(* Instances of Serve for TLC.                                             *)
EXTENDS ServeProperties, TLC

\* Contracts are interchangeable.  Not used where liveness is checked.
Symmetry == Permutations(Task)
=============================================================================
