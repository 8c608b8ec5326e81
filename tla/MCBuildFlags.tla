----------------------------- MODULE MCBuildFlags -----------------------------
(* The command lines of the runs: the rebuilds that name every step, the   *)
(* rebuild that BuildFlagMismatch's message recommends, and single steps.  *)
EXTENDS BuildFlags

Rebuilds == {Full, FromPch}
Recommended == {Full, <<"pch", "bindings", "link">>}
ByHand == {<<"pch">>, <<"bindings">>, <<"sources">>, <<"link">>}
Anything == Rebuilds \cup Recommended \cup ByHand
=============================================================================
