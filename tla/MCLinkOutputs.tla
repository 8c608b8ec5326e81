---------------------------- MODULE MCLinkOutputs ----------------------------
(* Two configurations of a YAML file, whose artifacts have the same names. *)
(* The single-threaded one emits a symbol map too, until it changes.       *)
EXTENDS LinkOutputs

CONSTANTS single, multi, old, new, wasm, symbols, s1, s2, m1, map,
          ocjs

MCBuilds == {single, multi}
MCName == [b \in Builds |-> ocjs]
MCVersions == {old, new}
MCPaths == {wasm, symbols}
MCContents == {s1, s2, m1, map}

Tree(first, second) == [p \in MCPaths |-> IF p = wasm THEN first ELSE second]

MCOutput == [l \in Builds \X Versions |->
               IF l[1] = multi THEN Tree(m1, NoFile)
               ELSE IF l[2] = old THEN Tree(s1, map)
               ELSE Tree(s2, NoFile)]
==============================================================================
