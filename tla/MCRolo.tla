------------------------------- MODULE MCRolo -------------------------------
(* Model values for module RoloStore.                                      *)
EXTENDS RoloStore, TLC

StoreSymmetry == Permutations(Sessions) \cup Permutations(Edits)

OutsideWriting == Places \ {"write_temp", "write_copy", "left"}

=============================================================================
