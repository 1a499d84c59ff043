---------------------- MODULE MCEnvironmentReconcile ----------------------
(***************************************************************************)
(* Small instances of EnvironmentReconcile for TLC.                        *)
(***************************************************************************)
EXTENDS EnvironmentReconcile, TLC

CONSTANTS w1, w2

Permutations2 == Permutations({w1, w2})

===========================================================================
