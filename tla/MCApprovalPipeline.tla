------------------------- MODULE MCApprovalPipeline -------------------------
(* Small instances of ApprovalPipeline for TLC.                             *)
EXTENDS ApprovalPipeline, TLC

Symmetry == Permutations(Deciders) \cup Permutations(Proposals)
==============================================================================
