--------------------------- MODULE MCCMakeLibraries ---------------------------
(* Two sets of inputs whose builds share one library and differ in another,*)
(* as a build with and without FreeType do, and two identities, each of    *)
(* which may come to stand for either or for both.                         *)
EXTENDS CMakeLibraries

CONSTANTS A, B, Old, New, Kernel, Text

MCInputs == {A, B}
MCIdentities == {Old, New}
MCLibs == {Kernel, Text}
MCLibsOf == [i \in MCInputs |-> IF i = A THEN {Kernel} ELSE {Kernel, Text}]
=============================================================================
