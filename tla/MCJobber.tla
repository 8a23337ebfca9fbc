------------------------------ MODULE MCJobber ------------------------------
(* Instances of Jobber for TLC: process numbers are model values that may  *)
(* be permuted; slots may not, for the code takes the first.               *)
EXTENDS Jobber, TLC

PidSymmetry == Permutations(Pids)

=============================================================================
