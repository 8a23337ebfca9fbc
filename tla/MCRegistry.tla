----------------------------- MODULE MCRegistry -----------------------------
(* Model values for module ClientRegistry.                                 *)
EXTENDS ClientRegistry, TLC

RegistrySymmetry == Permutations(Callers) \cup Permutations(Fds)

=============================================================================
