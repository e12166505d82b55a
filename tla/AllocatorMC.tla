---------------------------- MODULE AllocatorMC ----------------------------
(* The constants of the allocator's model-checking run are in AllocatorMC.cfg. *)
EXTENDS Allocator
=============================================================================
