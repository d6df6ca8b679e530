----------------------------- MODULE MCServeLoop -----------------------------
(* Instances of ServeLoop for TLC: jobs of the same device are              *)
(* interchangeable.  The runs that check liveness do not use the symmetry.  *)
EXTENDS ServeLoop, TLC

Symmetry == Permutations(Jobs)
=============================================================================
