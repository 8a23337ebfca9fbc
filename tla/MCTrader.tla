------------------------------ MODULE MCTrader ------------------------------
(* Model values for module TraderService.                                  *)
EXTENDS TraderService, TLC

TraderSymmetry == Permutations(Services) \cup Permutations(Names)

=============================================================================
