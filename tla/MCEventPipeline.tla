-------------------------- MODULE MCEventPipeline --------------------------
(* Instances of EventPipeline.tla for TLC. *)
EXTENDS EventPipeline, TLC

SlotsAlike == Permutations(Slots)
=============================================================================
