------------------------------ MODULE MCCageRun ------------------------------
(* CageRun for TLC: runners are interchangeable. *)
EXTENDS CageRun, TLC

RunnerSymmetry == Permutations(Runners)
=============================================================================
