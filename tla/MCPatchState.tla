----------------------------- MODULE MCPatchState -----------------------------
(* Two versions of the patch scripts: the newer one patches more files.    *)
EXTENDS PatchState

CONSTANTS v1, v2, fix, rename, Using, Dump, Offset

MCVersions == {v1, v2}
MCEdits == {fix, rename}
MCBreaking == {rename}
(* BlendFunc_ChamfInv.hxx is patched by the script that warns,             *)
(* Standard_Dump.hxx has a sentinel, BRepOffset_MakeOffset.cxx a hash.     *)
MCFiles == {Using, Dump, Offset}
MCLenient == {Using}
MCGuarded == {Offset}
MCTargets == [v \in MCVersions |->
                IF v = v1 THEN {Dump} ELSE {Using, Dump, Offset}]
=============================================================================
