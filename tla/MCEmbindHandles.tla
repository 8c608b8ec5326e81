---------------------------- MODULE MCEmbindHandles ----------------------------
(* Two plain objects, one of them with a member; a shared object; a slot. *)
EXTENDS EmbindHandles, TLC

CONSTANTS cut, shape, builder, curve, slot

MCWhole == [m \in Member |-> cut]
Symmetry == Permutations(Handle)
==============================================================================
