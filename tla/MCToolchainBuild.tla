------------------------ MODULE MCToolchainBuild -------------------------
(***************************************************************************)
(* The two variants of the reference packages, one of them threaded.       *)
(***************************************************************************)
EXTENDS ToolchainBuild

MCVariants == {"single", "multi"}
MCThreaded == {"multi"}
=============================================================================
