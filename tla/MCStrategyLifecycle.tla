------------------------- MODULE MCStrategyLifecycle -------------------------
(* Small instances of StrategyLifecycle for TLC: one strategy the kill      *)
(* switch may pause and one it may not.                                     *)
EXTENDS StrategyLifecycle, TLC

Symmetry == Permutations(Handlers) \cup Permutations(Runs)
==============================================================================
