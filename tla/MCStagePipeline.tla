-------------------------- MODULE MCStagePipeline --------------------------
(***************************************************************************)
(* Small instances of StagePipeline for TLC.                               *)
(***************************************************************************)
EXTENDS StagePipeline, TLC

CONSTANTS w1, w2

Symmetry == Permutations(Workers)
=============================================================================
