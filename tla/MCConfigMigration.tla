------------------------ MODULE MCConfigMigration ------------------------
(***************************************************************************)
(* Two builds with up to two flags of every kind, three with up to two of  *)
(* four kinds, two with up to three raw flags, repeated ones too; and,     *)
(* without flags, builds of all names, of all wrappers, and strangers.     *)
(***************************************************************************)
EXTENDS ConfigMigration

Setting(key, value) == [form |-> "setting", key |-> key, value |-> value]
Compiler(key, value) == [form |-> "compiler", key |-> key, value |-> value]
Other(key) == [form |-> "other", key |-> key, value |-> key]

Ctors == {Setting("EVAL_CTORS", "1"), Setting("EVAL_CTORS", "2")}
Expression == Setting("EVAL_CTORS", "expression")
Threads == {Setting("USE_PTHREADS", "true"), Setting("USE_PTHREADS", "false"),
            Setting("SHARED_MEMORY", "true"), Compiler("threads", "true")}
Exceptions == {Compiler("exceptions", "wasm"), Compiler("exceptions", "emscripten"),
               Setting("EXPORT_EXCEPTION_HANDLING_HELPERS", "true"),
               Setting("EXPORTED_RUNTIME_METHODS", {"FS"}),
               Setting("EXPORTED_RUNTIME_METHODS", {"FS", "helper"})}
Raw == {Other("--js-library"), Other("single.js")}
Words == Raw \union {Other("multi.js"), Other("--emit-symbol-map")}

Given == Ctors \union {Expression} \union Threads \union Exceptions \union Words

(* migrate adds helpers to the methods. *)
MCFlag == Given \union {Setting("EXPORTED_RUNTIME_METHODS", {"helper"})}
MCRepresentable == {f \in MCFlag : f.form = "setting"} \ {Expression}
MCShared == [bindings : {{}, {"gp_Pnt"}}, wrappers : SUBSET {"mesh.cpp", "hash.cpp"}]
Plain == [bindings |-> {"gp_Pnt"}, wrappers |-> {}]
MCMethod == {"FS", "helper"}
MCHelpers == {"helper"}

MCWord == {"", " ", "lib", "multi", "single", "build", "build2", "build3", "variant2", "$"}
MCBlank == {"", " "}
MCRegular == MCWord \ {"", " ", "$"}
MCNumbered(word, i) == word \o ToString(i)

(* All sequences of members of S up to a length; so many builds of them,   *)
(* one file for each, with names that are split.                           *)
UpTo(S, n) == UNION {[1..k -> S] : k \in 0..n}

File == <<"single", "multi", "build">>
Named(shared, i, flags) ==
    [shared |-> shared, base |-> <<"lib", File[i]>>, stem |-> File[i], flags |-> flags]

Names ==
    {[shared |-> Plain, base |-> base, stem |-> stem, flags |-> <<>>] :
        base \in {<<"">>, <<"", "lib">>, <<" ", "multi">>, <<" ", "single">>, <<"lib">>,
                  <<"lib", "">>, <<"lib", "multi">>, <<"lib", "multi", "single">>, <<"lib", "single">>},
        stem \in {"build", "build2", "build3", "variant2", "$"}}

Numbering == {n \in Names : n.base[1] = "lib" /\ n.stem \in {"build", "build3", "$"}}

Pairs(S, n) == {<<Named(Plain, 1, f), Named(Plain, 2, g)>> : f, g \in UpTo(S, n)}
Triples(S, n) == {Append(pair, Named(Plain, 3, f)) : pair \in Pairs(S, n), f \in UpTo(S, n)}

Strangers ==
    {<<Named(Plain, 1, <<>>), Named([Plain EXCEPT !.wrappers = {"mesh.cpp"}], 2, <<f>>)>> : f \in Raw}

Sharing == {<<Named(shared, 1, <<>>), Named(shared, 2, <<>>)>> : shared \in MCShared}

MCYmls ==
    UNION {Pairs(Given \ (Words \ Raw), 2), Triples(Ctors \union Raw, 2), Pairs(Words, 3),
           Strangers, Sharing, UNION {[1..n -> Names] : n \in 1..2}, [1..3 -> Numbering]}
=============================================================================
