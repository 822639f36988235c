-------------------------------- MODULE MCTffi --------------------------------
(* A small instance of Tffi: a few procs, datums and calls.                  *)
EXTENDS Tffi, TLC

TffiSymmetry == Permutations(Procs) \cup Permutations(Datums)
=============================================================================
