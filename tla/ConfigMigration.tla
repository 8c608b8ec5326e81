-------------------------- MODULE ConfigMigration --------------------------
(***************************************************************************)
(* `libcascade migrate` (packages/toolchain/src/migrate/index.ts) turns    *)
(* the yml files of one package into one typed configuration: what most    *)
(* builds agree on becomes the base, the rest the delta of each variant.   *)
(* `libcascade build` (src/config/index.ts, src/config/render.ts) merges   *)
(* them back and renders one yml for each variant.  The module follows the *)
(* flags of the builds through both, and through a second migration of     *)
(* what was rendered; the names of the variants and the symbols of the     *)
(* wrapper files as far as the loader asks for them.                       *)
(*                                                                         *)
(* A flag is a record: "setting" is -sNAME=VALUE, "compiler" one of the    *)
(* typed flags or -O*, "other" everything else.  The grammar of the values *)
(* is the constant Representable; the text of the flags is not modelled.   *)
(* The name of an artifact is the sequence of its words, split at "_".     *)
(***************************************************************************)
EXTENDS Integers, FiniteSets, SequencesExt

CONSTANTS
    Flag,           \* the flags a yml may carry
    Representable,  \* the settings among them deserializeSetting can type
    Shared,         \* bindings, wrapper files, generateTypescriptDefinitions
    Word,           \* the words of artifact names, and the stems of ymls
    Blank,          \* those of nothing but white space, or of nothing
    Regular,        \* those of letters, digits, "_" and "-" only
    Numbered(_, _), \* a word and the place of a build, as `${candidate}${n}`
    Ymls,           \* the lists of builds given to migrate
    Method,         \* names for EXPORTED_RUNTIME_METHODS, whose order is immaterial
    Helpers,        \* EXCEPTION_HELPERS, a set of them
    Absent,         \* the value of a key nobody set
    Null            \* the value that unsets an inherited setting

ASSUME FlagAssumption ==
    /\ Representable \subseteq {f \in Flag : f.form = "setting"}
    /\ \A f \in Flag : /\ f = [form |-> f.form, key |-> f.key, value |-> f.value]
                      /\ f.form \in {"setting", "compiler", "other"}
    /\ \A f \in Flag : f.form # "other" => f.value \notin {Absent, Null}
    /\ \A f \in Representable : f.key = "EXPORTED_RUNTIME_METHODS" => f.value \in SUBSET Method
    /\ \A f \in Flag : f.form = "compiler" /\ f.key = "threads" => f.value = "true"
    /\ [form |-> "compiler", key |-> "threads", value |-> "true"] \in Flag
    /\ \A S \in SUBSET Method : Helpers \subseteq S =>
          [form |-> "setting", key |-> "EXPORTED_RUNTIME_METHODS", value |-> S] \in Representable

(* What a yml says of a build: `base` names its artifact, `stem` its file. *)
Build == [shared : Shared, base : Seq(Word), stem : Word, flags : Seq(Flag)]

ASSUME YmlAssumption == \A builds \in Ymls : builds \in Seq(Build) \ {<<>>}

(* No set of methods, and not "true", is taken for the absence of a value. *)
ASSUME MarkAssumption ==
    /\ Helpers \subseteq Method
    /\ Absent # Null
    /\ \A mark \in {Absent, Null} : mark # "true" /\ \A S \in SUBSET Method : mark # S

VARIABLES
    ymls,       \* the builds the user has: flags and what they must share
    wrappers,   \* the wrapper files on disk: "classes", "plain", "missing"
    config,     \* the migrated configuration, Absent before
    names,      \* its name and those of its variants
    todo,       \* the wrapper files it lists no symbols of
    rendered,   \* the builds rendered from it, <<>> before
    again,      \* the configuration migrated from the rendered builds
    stage       \* "yml", "migrated", "refused", "rendered", "again"

migrationVars == <<ymls, wrappers, config, names, todo, rendered, again, stage>>

----------------------------------------------------------------------------
(***************************************************************************)
(* Reading the flags of one build: later occurrences of a key replace      *)
(* earlier ones, and what has no typed form is kept in order.              *)
(***************************************************************************)
Typed(f, form) == f.form = form /\ (form = "setting" => f \in Representable)

(* The flags of a list that are in a set, in the order of the list. *)
Keep(flags, S) ==
    LET kept[i \in 0..Len(flags)] ==
            IF i = 0 THEN <<>>
            ELSE IF flags[i] \in S THEN Append(kept[i - 1], flags[i]) ELSE kept[i - 1]
    IN  kept[Len(flags)]

LastWins(flags, form) ==
    LET at(k) == {i \in DOMAIN flags : Typed(flags[i], form) /\ flags[i].key = k}
        keys  == {flags[i].key : i \in {j \in DOMAIN flags : Typed(flags[j], form)}}
    IN  [k \in keys |-> flags[Max(at(k))].value]

(* What has no typed form, in the order of the yml. *)
Untyped(flags) ==
    Keep(flags, {f \in ToSet(flags) : ~ Typed(f, "setting") /\ ~ Typed(f, "compiler")})

ParseFlags(flags) ==
    [settings      |-> LastWins(flags, "setting"),
     compilerFlags |-> LastWins(flags, "compiler"),
     rawFlags      |-> Untyped(flags)]

Get(map, key) == IF key \in DOMAIN map THEN map[key] ELSE Absent
Set(map, key, value) ==
    [k \in DOMAIN map \union {key} |-> IF k = key THEN value ELSE map[k]]
Delete(map, key) == [k \in DOMAIN map \ {key} |-> map[k]]

SettingEnabled(value) == value \notin {Absent, "false"}

ThreadFlag(parsed) ==
    LET settings == Delete(parsed.settings, "USE_PTHREADS")
    IN  IF SettingEnabled(Get(parsed.settings, "USE_PTHREADS"))
        THEN [parsed EXCEPT !.settings = settings,
                            !.compilerFlags = Set(@, "threads", "true")]
        ELSE [parsed EXCEPT !.settings = settings]

Methods(settings) ==
    IF "EXPORTED_RUNTIME_METHODS" \in DOMAIN settings
    THEN settings["EXPORTED_RUNTIME_METHODS"] ELSE {}

ExceptionHelpers(parsed) ==
    LET kept == Delete(parsed.settings, "EXPORT_EXCEPTION_HANDLING_HELPERS")
    IN  IF \/ Get(parsed.compilerFlags, "exceptions") # "wasm"
           \/ Helpers \subseteq Methods(kept) /\ DOMAIN kept = DOMAIN parsed.settings
        THEN parsed
        ELSE [parsed EXCEPT !.settings =
                Set(kept, "EXPORTED_RUNTIME_METHODS", Methods(kept) \union Helpers)]

Modernize(parsed) == ExceptionHelpers(ThreadFlag(parsed))

----------------------------------------------------------------------------
(***************************************************************************)
(* The common configuration.  The base value of a setting is the one most  *)
(* builds agree on, "not set" included, the earliest of them on a tie.     *)
(***************************************************************************)
Keys(maps) == UNION {DOMAIN maps[i] : i \in DOMAIN maps}

BaseValue(maps, key) ==
    LET count(i) == Cardinality({j \in DOMAIN maps : Get(maps[j], key) = Get(maps[i], key)})
        most     == {i \in DOMAIN maps : \A j \in DOMAIN maps : count(j) <= count(i)}
    IN  Get(maps[Min(most)], key)

(* Mutant: only what every build sets becomes the base. *)
BaseSettingsOfAll(maps) ==
    [k \in {k \in Keys(maps) : \A i \in DOMAIN maps : k \in DOMAIN maps[i]} |->
        BaseValue(maps, k)]

BaseSettings(maps) ==
    [k \in {k \in Keys(maps) : BaseValue(maps, k) # Absent} |-> BaseValue(maps, k)]

(* Mutant: what a build does not set is not unset. *)
DeltaWithoutUnset(maps, i) ==
    [k \in {k \in DOMAIN maps[i] : maps[i][k] # BaseValue(maps, k)} |-> maps[i][k]]

(* A variant declares what differs from the base; Null unsets a base key. *)
Delta(maps, i) ==
    [k \in {k \in Keys(maps) : Get(maps[i], k) # BaseValue(maps, k)} |->
        IF Get(maps[i], k) = Absent THEN Null ELSE maps[i][k]]

BaseFlags(maps) ==
    [k \in {k \in DOMAIN maps[1] : \A i \in DOMAIN maps : Get(maps[i], k) = maps[1][k]} |->
        maps[1][k]]

FlagDelta(maps, i) ==
    [k \in DOMAIN maps[i] \ DOMAIN BaseFlags(maps) |-> maps[i][k]]

BaseRaw(raws) ==
    Keep(raws[1], {f \in ToSet(raws[1]) : \A i \in DOMAIN raws : f \in ToSet(raws[i])})

(* Mutant: what the first build has is taken for common. *)
RawDeltaOfFirst(raws, i) == Keep(raws[i], ToSet(raws[i]) \ ToSet(raws[1]))

RawDelta(raws, i) == Keep(raws[i], ToSet(raws[i]) \ ToSet(BaseRaw(raws)))

Migrated(builds) ==
    LET parsed   == [i \in DOMAIN builds |-> Modernize(ParseFlags(builds[i].flags))]
        settings == [i \in DOMAIN builds |-> parsed[i].settings]
        flags    == [i \in DOMAIN builds |-> parsed[i].compilerFlags]
        raws     == [i \in DOMAIN builds |-> parsed[i].rawFlags]
    IN  [shared        |-> builds[1].shared,
         settings      |-> BaseSettings(settings),
         compilerFlags |-> BaseFlags(flags),
         rawFlags      |-> BaseRaw(raws),
         variants      |-> [i \in DOMAIN builds |->
             [settings      |-> Delta(settings, i),
              compilerFlags |-> FlagDelta(flags, i),
              rawFlags      |-> RawDelta(raws, i)]]]

Agree(builds) == \A i \in DOMAIN builds : builds[i].shared = builds[1].shared

ArtifactsDiffer(builds) ==
    \A i, j \in DOMAIN builds : builds[i].base = builds[j].base => i = j

----------------------------------------------------------------------------
(***************************************************************************)
(* Names.  Artifacts that begin with the same words and go on are split    *)
(* behind them; otherwise the variants are named after their files.        *)
(***************************************************************************)
SharedWords(builds) ==
    {n \in 1..Len(builds[1].base) : \A i \in DOMAIN builds :
        /\ n < Len(builds[i].base)
        /\ SubSeq(builds[i].base, 1, n) = SubSeq(builds[1].base, 1, n)}

CommonPart(builds) == SubSeq(builds[1].base, 1, Max(SharedWords(builds)))

OwnPart(builds, i) ==
    SubSeq(builds[i].base, Max(SharedWords(builds)) + 1, Len(builds[i].base))

Splits(builds) ==
    /\ SharedWords(builds) # {}
    /\ CommonPart(builds) # <<"">>
    /\ \A i \in DOMAIN builds : OwnPart(builds, i) # <<"">>

Candidate(builds, i) ==
    IF builds[i].stem \in Regular THEN builds[i].stem ELSE Numbered("variant", i)

(* A stem an earlier build has taken is numbered, and not looked up again. *)
Stems(builds) ==
    LET unique[i \in DOMAIN builds] ==
            IF Candidate(builds, i) \in {unique[j] : j \in 1..(i - 1)}
            THEN Numbered(Candidate(builds, i), i) ELSE Candidate(builds, i)
    IN  unique

DeriveNames(builds) ==
    [name     |-> IF Splits(builds) THEN CommonPart(builds) ELSE builds[1].base,
     variants |-> [i \in DOMAIN builds |->
         IF Splits(builds) THEN OwnPart(builds, i) ELSE <<Stems(builds)[i]>>]]

Unique(s) == \A i, j \in DOMAIN s : s[i] = s[j] => i = j

----------------------------------------------------------------------------
(***************************************************************************)
(* Loading and rendering a configuration.                                  *)
(***************************************************************************)
UnsetsBaseKeys(c) ==
    \A i \in DOMAIN c.variants : \A k \in DOMAIN c.variants[i].settings :
        c.variants[i].settings[k] = Null => k \in DOMAIN c.settings

(* validateBuildConfig: the name, bindings, variants and wrapper files.    *)
Loads(c) ==
    /\ ~ \E w \in Blank : names.name = <<w>>
    /\ c.shared.bindings # {}
    /\ DOMAIN c.variants # {}
    /\ Unique(names.variants)
    /\ UnsetsBaseKeys(c)
    /\ \A w \in c.shared.wrappers : wrappers[w] # "missing" /\ w \notin todo

MergeSettings(c, i) ==
    LET delta == c.variants[i].settings
        value(k) == IF k \in DOMAIN delta THEN delta[k] ELSE c.settings[k]
    IN  [k \in {k \in DOMAIN c.settings \union DOMAIN delta : value(k) # Null} |-> value(k)]

MergeCompilerFlags(c, i) ==
    LET delta == c.variants[i].compilerFlags
    IN  [k \in DOMAIN c.compilerFlags \union DOMAIN delta |->
            IF k \in DOMAIN delta THEN delta[k] ELSE c.compilerFlags[k]]

VariantRequiresThreads(c, i) ==
    \/ Get(MergeCompilerFlags(c, i), "threads") = "true"
    \/ \E key \in {"USE_PTHREADS", "SHARED_MEMORY"} :
           SettingEnabled(Get(MergeSettings(c, i), key))

(* The settings come first, then the typed flags, the raw flags last; the  *)
(* order among the keys of a map is of no consequence.                     *)
Rendering(form, map) ==
    SetToSeq({[form |-> form, key |-> k, value |-> map[k]] : k \in DOMAIN map})

(* Mutant: the raw flags of the variant are left out. *)
RenderWithoutVariantRaw(c, i) ==
    Rendering("setting", MergeSettings(c, i))
        \o Rendering("compiler", MergeCompilerFlags(c, i)) \o c.rawFlags

RenderEmccFlags(c, i) ==
    Rendering("setting", MergeSettings(c, i))
        \o Rendering("compiler", MergeCompilerFlags(c, i))
        \o c.rawFlags \o c.variants[i].rawFlags

----------------------------------------------------------------------------
MigrationInit ==
    /\ ymls \in Ymls
    /\ wrappers \in [ymls[1].shared.wrappers -> {"classes", "plain", "missing"}]
    /\ config = Absent
    /\ names = Absent
    /\ todo = {}
    /\ rendered = <<>>
    /\ again = Absent
    /\ stage = "yml"

(* libcascade migrate: refuses builds that are not variants of one build,  *)
(* and lists no symbols of a wrapper in which it reads no class.           *)
Migrate ==
    /\ stage = "yml"
    /\ IF Agree(ymls) /\ ArtifactsDiffer(ymls)
       THEN /\ config' = Migrated(ymls)
            /\ names' = DeriveNames(ymls)
            /\ todo' = {w \in ymls[1].shared.wrappers : wrappers[w] # "classes"}
            /\ stage' = "migrated"
       ELSE stage' = "refused" /\ UNCHANGED <<config, names, todo>>
    /\ UNCHANGED <<ymls, wrappers, rendered, again>>

(* libcascade build --render-only, of every variant. *)
Render ==
    /\ stage = "migrated"
    /\ IF Loads(config)
       THEN /\ rendered' = [i \in DOMAIN config.variants |->
                  [shared |-> config.shared, flags |-> RenderEmccFlags(config, i)]]
            /\ stage' = "rendered"
       ELSE rendered' = <<>> /\ stage' = "refused"
    /\ UNCHANGED <<ymls, wrappers, config, names, todo, again>>

(* libcascade migrate, given the rendered files: settings and flags.       *)
MigrateAgain ==
    /\ stage = "rendered"
    /\ again' = Migrated(rendered)
    /\ stage' = "again"
    /\ UNCHANGED <<ymls, wrappers, config, names, todo, rendered>>

(* The user writes, or removes, a wrapper, or lists the symbols of one.    *)
EditWrapper(w, content) ==
    /\ stage \in {"yml", "migrated"}
    /\ content # wrappers[w]
    /\ wrappers' = [wrappers EXCEPT ![w] = content]
    /\ UNCHANGED <<ymls, config, names, todo, rendered, again, stage>>

FillIn(w) ==
    /\ stage = "migrated"
    /\ w \in todo
    /\ todo' = todo \ {w}
    /\ UNCHANGED <<ymls, wrappers, config, names, rendered, again, stage>>

MigrationNext ==
    \/ Migrate \/ Render \/ MigrateAgain
    \/ \E w \in DOMAIN wrappers, content \in {"classes", "plain", "missing"} :
           EditWrapper(w, content)
    \/ \E w \in todo : FillIn(w)

MigrationSpec == MigrationInit /\ [][MigrationNext]_migrationVars

----------------------------------------------------------------------------
(* What a build asks of emcc, modernised: the reference of the migration. *)
Asked(i) == Modernize(ParseFlags(ymls[i].flags))

(* The builds, the stage and the files exist together (migrate writes a    *)
(* configuration or throws, render writes a yml for each variant).         *)
MigrationTypeOK ==
    /\ ymls \in Ymls
    /\ stage \in {"yml", "migrated", "refused", "rendered", "again"}
    /\ stage \in {"migrated", "rendered", "again"} =>
          /\ DOMAIN config = {"shared", "settings", "compilerFlags", "rawFlags", "variants"}
          /\ DOMAIN config.variants = DOMAIN ymls
          /\ DOMAIN names.variants = DOMAIN ymls
    /\ todo \subseteq DOMAIN wrappers
    /\ stage \in {"rendered", "again"} => DOMAIN rendered = DOMAIN ymls

(* The base and the delta of a variant, merged again by the loader, are    *)
(* the settings and typed flags its yml asked for: neither the majority    *)
(* that becomes the base nor the null that unsets it gives a build what    *)
(* another one asked for (migrate 564-603 against mergeSettings and        *)
(* mergeCompilerFlags).                                                    *)
EveryBuildKeepsItsFlags ==
    stage = "migrated" =>
        \A i \in DOMAIN ymls :
            /\ MergeSettings(config, i) = Asked(i).settings
            /\ MergeCompilerFlags(config, i) = Asked(i).compilerFlags

(* validateBuildConfig refuses a migrated configuration for nothing but    *)
(* what the ymls say or a wrapper file lacks: no bindings, an artifact     *)
(* without a name, a wrapper that is gone or whose symbols migrate left to *)
(* the user, and files of one name where names come from files.  So a      *)
(* variant unsets only a setting the base declares, and names split from   *)
(* those of the artifacts are unique (migrate 430-449, 564-588, 615-648).  *)
MigratedConfigLoads ==
    stage = "refused" =>
        \/ ~ Agree(ymls) \/ ~ ArtifactsDiffer(ymls)
        \/ ymls[1].shared.bindings = {}
        \/ \E w \in Blank : w = ymls[1].base[1]
        \/ \E w \in ymls[1].shared.wrappers : wrappers[w] = "missing" \/ w \in todo
        \/ /\ ~ Splits(ymls)
           /\ \E i, j \in DOMAIN ymls : i # j /\ Candidate(ymls, i) = Candidate(ymls, j)

(* The flags by which a yml asks for threads, before any rewriting.        *)
AsksForThreads(flags) ==
    LET parsed == ParseFlags(flags)
    IN  \/ "threads" \in DOMAIN parsed.compilerFlags
        \/ SettingEnabled(Get(parsed.settings, "USE_PTHREADS"))
        \/ SettingEnabled(Get(parsed.settings, "SHARED_MEMORY"))

(* The variant is built in the multi-threaded image, and probed for        *)
(* threads when it is loaded, exactly when its yml asked for threads,      *)
(* although migrate drops USE_PTHREADS and never writes `requires`         *)
(* (migrate 747-750, variantCapabilities, resolveImage).                   *)
ThreadsFollowTheYml ==
    stage = "migrated" =>
        \A i \in DOMAIN ymls :
            VariantRequiresThreads(config, i) <=> AsksForThreads(ymls[i].flags)

(* How often a list has a flag, as the list of its occurrences.            *)
Copies(f, flags) == Keep(flags, {f})

RawFlags(build) == ParseFlags(build.flags).rawFlags

(* A flag without a typed form reaches the emcc command of the builds that *)
(* had it, and of no other, as often as in the yml of the build; but one   *)
(* that every build has as often as in the first yml (migrate 607-612,     *)
(* renderEmccFlags).                                                       *)
NoRawFlagIsLostOrAdded ==
    stage = "rendered" =>
        \A i \in DOMAIN ymls : \A f \in Flag :
            LET common == \A j \in DOMAIN ymls : f \in ToSet(RawFlags(ymls[j]))
            IN  Copies(f, RawFlags(rendered[i]))
                    = Copies(f, RawFlags(ymls[IF common THEN 1 ELSE i]))

(* Not so: "migrate never drops a flag" (migrate-from-yaml.mdx:114), what  *)
(* a build repeats is repeated for it, as an option with several arguments *)
(* is. TLC finds it violated by a flag that the first build has fewer      *)
(* times.                                                                  *)
NoRawFlagIsDropped ==
    stage = "rendered" =>
        \A i \in DOMAIN ymls : \A f \in ToSet(RawFlags(ymls[i])) :
            Len(Copies(f, RawFlags(rendered[i]))) >= Len(Copies(f, RawFlags(ymls[i])))

(* Not so: "Variant names must be unique - they name the rendered yml, the *)
(* artifact base name, and the `--variant` CLI selector"                   *)
(* (config/index.ts:225-226), and so are those that migrate gives. TLC     *)
(* finds it violated by files named build, build3 and build.               *)
VariantNamesAreUnique == stage = "migrated" => Unique(names.variants)

(* Migrating what the configuration renders gives settings and flags back: *)
(* the modernisations are done once, and no majority changes.              *)
MigratingAgainChangesNothing == stage = "again" => again = config

(* "rawFlags renders back byte-identically" (migrate/index.ts:288): the    *)
(* flags without a typed form keep the order they had, as an option and    *)
(* its argument must (repeated flags aside).                               *)
RawFlagsKeepTheirOrder ==
    stage = "rendered" =>
        \A i \in DOMAIN ymls :
            LET raw == ParseFlags(ymls[i].flags).rawFlags
            IN  Cardinality(ToSet(raw)) = Len(raw)
                    => ParseFlags(rendered[i].flags).rawFlags = raw
=============================================================================
