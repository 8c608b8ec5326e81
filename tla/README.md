# A verification development of the opencascade.js build

TLA+ models of the build system of opencascade.js, the TLC runs that check
them on small instances, and TLAPS proofs of their main properties for every
value of the constants. Paths are those of the repository; a bare line number
such as `build-wasm.sh:968` refers to the file of that name.

opencascade.js is a compiler pipeline, a runtime and a release. It patches the
C++ sources of OCCT, generates Embind bindings from OCCT's headers, compiles
thousands of binding objects and some forty static libraries, links any selection
of them to WebAssembly, and publishes the result as npm packages and container
images. A consumer runs these images through a command line of its own; an
application calls the module through a patched Embind.

A full build takes hours, so nearly every step keeps what an earlier run made and
decides by a record on disk whether it is still good: a step is killed, a compile
flag or a patch changes, a tree is half replaced, and a later step must not take
the remains for current. In the runtime the difficulty is the order in which
types, classes and overloads become known, and who owns the memory behind a
handle; in the release it is that jobs of several runs look at registries and act
on what they saw later. A unit test starts from a clean directory and takes one
order; these models take any history of runs, kills and edits, and every order.

## 1. Inventory

### 1.1 The pipeline and the files it shares

The commands of `src/build-wasm.sh` run alone or as Nx targets (`project.json`),
which also cache outputs. They call Python programs and each other only through
files below the build directory:

| command | reads | writes |
|---|---|---|
| `apply-patches` | `src/patches/*`, the OCCT and emsdk clones | the clones, `patches-applied.json` |
| `pch` | flags, the patched headers | `pch.h.pch`, `build-flags.json`, the flat includes |
| `docs`, `generate` | headers through libclang | `bindings/`, its ledger, two manifests |
| `bindings` | `bindings/`, the PCH, flags | `compiled-bindings/*.cpp.o` and `.identity`, `binding-report.json` |
| `sources` | the patched sources, flags | `occt-cmake/` with `.ocjs-cmake-state.json`, `occt-libraries/` with `manifest.json` |
| `link-core` | a YAML file, objects, libraries | `link-core/`, `link-core.manifest.json`, `link-core.link-report.json` |
| `materialize` | the three of these | files in `OCJS_OUTPUT_DIR`, `materialized/<config>-<name>.json` |
| `provenance` | inventory, report, the output directory | `<name>.provenance.json` |
| `link`, `full` | all of it | `OCJS_OUTPUT_DIR`, directly |

There is no lock on the build directory. Bash runs under `set -e`; Python
programs end at an uncaught exception; a kill may come between any two calls.

### 1.2 Components

**Staged publication** (`build_state.py: replace_tree`). State: the published
directory, a private stage, a backup per process. Operations: populate, move
aside, install, restore, drop the backup. Used by the flat includes, the
bindings and the libraries. Hard: two renames with a gap between them, errors
in either, in the restore too, other writers, kills, an overlay layer on which
rename gives EXDEV and the live files are copied and removed one by one. Correct
when readers find whole trees, one publication's files only, and a tree moved aside
comes back.

**OCCT static libraries** (`step_sources_cmake`, `cmake_state.py`,
`scripts/cmake-state.py`). State: scratch tree with its mark, published
archives with their manifest. Operations: compute the identity, accept the
published tree, keep or discard the scratch tree, build, mark, publish. Hard:
make goes by time stamps, archives may be half-written, the published tree may
come from a container stage, and the identity is computed from a record of the
inputs and not from them. Correct when what is accepted is exactly the
libraries of the inputs its identity stands for, and some run gets there.

**Binding objects** (`compileBindings.py`). State: object and identity file of
each source, the report. Operations: prune, hand out, check, compile, record,
report. Hard: a pool of processes, two files per object that a kill can part,
compilations that are allowed to fail, sources that come and go. Correct when
after a report the objects are those of the present sources and inputs.

**Build flags** (`flags.py`, `paths.py: write_build_flags`, the command line of
`build-wasm.sh`). State: `build-flags.json` and the flags inside each artifact.
Operations: all commands, in any order a user types. Hard: one record stands
for three kinds of artifact that are rebuilt separately. Correct when artifacts
of two flag configurations are never linked together.

**Patches of the clones** (`step_apply_patches`, `scripts/patch-state.py`,
`src/patches`). State: the files of the clones, an ownership manifest.
Operations: prepare (accept, refuse or revert), the scripts, write. Hard:
scripts that look for a sentinel take any version of their work for done, some
exit 1 and one only warns, files are read, truncated and written, users edit the
clones meanwhile. Correct when a successful
run leaves what the present scripts make, and no user's edit is lost that the
manifest does not own.

**Link outputs** (`link-core`, `materialize`, `validate`, `provenance`:
`artifact-state.py`, `build_state.py: materialize_ledger`, `provenance.py`).
State: one `link-core` for all builds, its inventory and report, a marker per
build, output directories. Hard: commands by hand for another build than the one
linked last, cuts anywhere, Nx putting outputs back. Correct when an output
directory holds the link it was asked for, and provenance describes these files.

**Binding generation** (`generate-bindings.py`, `pipeline/generate.py`).
Publishes tree, ledger and manifests in four steps (`generate-bindings.py:51-62`).
Correct when no reader pairs a tree with the manifest of another. Not modelled.

**Code generation, template discovery** (`ocjs_bindgen/codegen`, `naming`,
`resolver`, `predicates`, `filters`, `discover.py`, `enumeration`). Pure: headers
to text. Correct when the text compiles and binds what the header declares.

**Link-time symbol resolution** (`manifest_registry.py`, `rewrite.py`,
`bind_symbols`). Pure decisions on the symbols a YAML file asks for: which
bucket, which NCollection instances. Correct when the closure is neither short
nor larger than asked.

**TypeScript declarations, documentation extraction**. Text from fragments.

**Overload dispatch** (`libembind-overloading.patch` on Embind's library). State:
registered types and the callbacks that wait for them, the tables of overloads of
each prototype, dispatchers by signature, their copies in derived classes.
Operations: the registrations of every binding object in the order of the link,
callbacks, calls. Hard: types that are registered after their use, overrides in
sibling classes, copies taken before the original is complete. Correct when a
started module calls what the source order of the overloads says, whatever the
order in which it started.

**Handles** (Embind's class handles with the patch's `borrowed` mark, the bindings
that return them, `embind_builtins.py`). State: C++ objects, their counters,
JavaScript handles and the counter that clones share, finalizers, envelopes.
Operations: constructors, results by value, pointer, counted handle and envelope,
clone, delete, dispose, nullify, collection. Hard: a collector that runs any time,
memory that C++ still owns, envelopes whose handles are gone in part. Correct when
an object lives exactly as long as something owns it.

**Configuration and migration** (`packages/toolchain/src/migrate`, `config`). State:
yml files, wrapper files, the typed configuration and its names, the rendered ymls.
Operations: migrate, load, render. Hard: the base is what most builds agree on, so
that every other build has to take back what it did not ask for; names are made of
other names; the loader refuses what is not filled in. Correct when every build keeps
its flags and only what the user left out is refused.

**Toolchain command line** (`packages/toolchain`: `driver`, `cli`, `assemble`).
State: a scratch directory, `dist`, the generated surface, `package.json`.
Operations: build (clear, run the container, rename artifacts into `dist`, check),
assemble (read, rewrite the glue, write the surface, merge the package). Hard:
failures and kills between two renames or in a write, after which half a glue may
look like a done one; a configuration edited meanwhile. Correct when what is packed, declared and generated is of one build.

**Release** (`.github/workflows/docker.yml`, `ci-release.mjs`, `ghcr-promotion.mjs`,
`promote-ghcr-tag.sh`, `generate-images.mjs`). State: two npm packages with their
dist-tags, image tags and signatures, git tags, GitHub Releases. Operations: the
publishing jobs of a run. Hard: concurrent runs of one and of several versions, jobs
that die after a registry has taken what they sent, reruns with other bytes, and
images that are compared without the index that is signed and pinned. Correct when all that carries a version is of one commit, complete and pinned.

**Dependency clones** (`clone-deps.sh`), **container image, other workflows,
documentation, tests**. Declarative or a sequence of calls.

`PROJECT.json` lists all of them with what is modelled and why the rest is
not; its list of hazards names the line where each bites.

## 2. Modules

| module | models | composed with |
|---|---|---|
| `PublishedTree` | what `replace_tree` promises to readers | abstract specification |
| `ReplaceTree` | `replace_tree`, one action per call, and on an overlay per file that is copied or removed | implements `PublishedTree` where renames work |
| `CMakeLibraries` | `step_sources_cmake` | its `Withdraw…` and `InstallTree` are the steps of `ReplaceTree` a reader can see |
| `BindingObjects` | `compileBindings.py` | |
| `BuildFlags` | the command line and the record of the flags | pch, pool and libraries reduced to the flags in them |
| `PatchState` | `apply-patches` | |
| `LinkOutputs` | `link-core` to `provenance` | |
| `EmbindOverloads` | registration and dispatch of overloads | |
| `Ownership` | what memory management promises | abstract specification |
| `EmbindHandles` | handles, envelopes, collection | implements `Ownership` |
| `ConfigMigration` | migrate, load, render, migrate again | |
| `ToolchainBuild` | `libcascade build` and `assemble` | the two commands share `dist` |
| `ReleasePipeline` | the publishing jobs of concurrent workflow runs | the promotion of tags is a part of two jobs |
| `MC…` | instances for TLC: the small sets, symmetry | |
| `CompilationProofs` | inductive invariants and theorems | `BindingObjects` and `BuildFlags` |
| `EmbindProofs` | the same | `EmbindHandles` and `EmbindOverloads` |
| `ToolchainProofs` | the same | `ToolchainBuild` and `ConfigMigration` |
| other `…Proofs` | the same | the component of that name |

A proof module about two components extends both, so one of them has prefixed names:
`LineInit` and `LineSpec` in `BuildFlags`, `MigrationSpec` in `ConfigMigration`,
`StartSpec` in `EmbindOverloads`. Nothing is composed by this; the theorems are about
each specification by itself.

### ReplaceTree

One writer is one process; `pc[w]` is the call it is about to make.
`Populate` to `Discard` are lines 79-108 of `build_state.py`. Directories have
`content`; `dest`, `stage` and `backup` are what the paths name, so that a rename
moves a directory and a copy or a removal looks at the path again. `hasBackup` is the
local `backup_exists`, set only after the move has returned, which is why an
interrupt between the move and the assignment (`…Interrupted`) leaves the backup
without a restore. `layered` says that the first live directory is on a lower layer
of an overlay: `shutil.move` then lists it (`ListLive`), copies file by file
(`CopyFile`), opens what is at the path by then (`OpenLive`), removes its files
(`RemoveFile`) and at last the directory. `Restore` may be refused with the place
vacant (`RestoreFails`). Three histories name what the properties except: `stranded`
(a kill, such an interrupt or such a refusal), `overlapped` (two writers copied the
lower directory at a time), and `layered` itself. Under `PublishesWholeTrees` the
content of the destination is `live` of `PublishedTree`. An empty directory, which
`build-wasm.sh` creates before the first publication, maps to no tree, and so
does everything when `layered` holds: there the code does not keep the promise
and the weaker `OneVintage` is checked instead.

`BUILD_SYSTEM.md:103` says that a publication "replaces the live tree
atomically". The model shows how far that goes: a writer killed between its two
renames leaves the directory absent and the tree in a backup that nothing
restores. `PublishedTree` allows the gap and `NeverLeftAside` excludes `stranded`.

### CMakeLibraries

Inputs and identities are two sets. The identity is a digest (taken to be free of
collisions) of what `apply-patches` recorded in `patches-applied.json`, of commits,
variables and tool versions; an edit after that, of a header dependency, or of the
flags written into the script goes into the build and not into it. `EditInputs`
changes either, or both, at any time, also under a run. The history
`sources[d]` keeps which inputs builds of identity `d` have read; the properties are
about identities that stand for one set of inputs, and say that nothing half-written
is accepted for the others. A library holds the inputs it was built from, or is
torn. CMake is external: parallel jobs that tear a file, finish it, or skip one that
exists because its time stamp is new enough, which is why a scratch tree of another
identity has to be discarded. `Tamper` and `CopyFromStage` are archives lost, damaged
or brought in from the `occt-libs` stage of the Dockerfile.

### BindingObjects

`input[f]` is the version of all that goes into the digest of `f`; it changes
between runs and may go back. `Compile` and `WriteIdentity` are separate actions, as
lines 198 and 267 are separate replacements, and so are the two removals after a failed
compilation. Pruning follows the walk of line 335 on: `listed` is the listing made
before anything is removed. The history `orphans` has the objects that a run put in
place and did not live to name in an identity file (divergence 1).

### BuildFlags

A command line is a sequence of commands; each artifact is the set of flags in
it. `PassOver` is `validate_build_flags && step_…` in a script under `set -e`;
`Refuse` is the comparison that stands alone. `pch` is three steps, since the
header is in place before its flags are recorded. An object has its flags and,
beside it, the identity that its `.identity` file names: `TakeCached` compares
the identity only, `CompileOne` replaces the object and `SignOne` the identity, in
any order of the sources (`unsigned`). The history `strays` is that of `orphans`
above. The libraries are one step here: between its start and its end only the step
itself looks at them.

### PatchState

A file is its patch (a version, none, or torn) and the user's edit. `Guarded`
files have scripts that compare hashes, the others scripts that look for a
sentinel; the script of a `Lenient` file (`patch_using_statements.py`) warns and goes
on where the others exit 1 (`RejectFile`). A script reads a file (`ReadFile`) and
writes what it has made of it later (`WriteFile`); `buffer` is what it holds
meanwhile. A `Kill` in between may find the file truncated (`Tear`). `Breaking`
edits take away the text that a script looks for. `State` is what `patch-state.py`
records of the dirty files. Edits may come at any moment, also between two steps of a
run. `Resolve` is what the refusal asks the user to do.

### LinkOutputs

`core`, `inventory` and `report` are the three outputs of `link-core`, written
at different times; `marker` is kept by configuration and name, `provenance` by
name alone, as the code does. The same command modelled as a step of the chain
or by hand differs only in what follows it (`chain`). `Restore` is Nx, which may
have cached any link, and `CutRestore` Nx killed in the middle.

### EmbindOverloads

A block of `EMSCRIPTEN_BINDINGS` is a sequence of registrations; `running` is what
remains of the one that runs, `agenda` the callbacks that the last registration
has set free, which run before anything else. `Bind…` are the three branches of
the patched `_embind_register_class_function` (lines 525-546 of the patch),
`Resolve…` the three of its inner callback (561-575), which waits for the types of the
result, of `this` and of the arguments together (`Rest` and `Params`): a method whose
result type never comes stays a stub. An entry is a stub or an invoker. The array of a signature is one object that all tables share, and is
therefore computed from `resolved`; the keys and entries of a `signatures` map
are copies, and therefore state (`dispatcher`). `Expected` is the reference: it
knows the hierarchy and the source order (`Comes`) only: the first overload that fits
decides by which JavaScript types, the last one with these types is called
(`Chosen`). A lone constructor of its arity, or a method that is registered as the
second of its name, is called without a look at the arguments: each is converted by its
type, and only the types in `Checked` throw for a value that is not theirs
(`Converts`), as a number without ASSERTIONS and a bool do not. `early` is a history variable, for the divergence
described in section 3. `Register` and `Await` are in a library file of the emsdk; the
repository has them in the glue of a built module, to which they are mapped. A
member of `Programs` is one module: the methods and constructors of each class in
source order.

### EmbindHandles

`record[h]` is `$$`; the clones of a handle are a family, named for the first of
them, with one counter. `Raw`, `Smart` and `Constructed` are the three ways in
which the runtime marks ownership; each `Return…` is one form of binding that
bindgen emits. `Finalize` and `Lose` are the collector, which takes an unreachable
handle with or without a finalizer, at any time or never. Envelopes are filled by
one method and emptied by the disposer. Under `LivesAsLongAsOwned` the memory is
`status` of `Ownership`, and the owners of an object are the handles that are not
borrowed, the C++ objects that point to it and the object it is a part of.

### ConfigMigration

The user's ymls are `ymls`, the typed configuration is `config` with its `names`;
`todo` are the wrapper files it lists no symbols of, which the user fills in
(`FillIn`), and `wrappers` what is on disk. `rendered` and `again` are what
`build --render-only` and a second `migrate` make of it. `Loads` is all of
`validateBuildConfig`. An artifact's name is a sequence of words, as `DeriveNames`
splits it at underscores; a raw flag counts as often as it stands there. The
operators are the functions of the source: `ParseFlags`, `Modernize`, the base
(`BaseSettings`, `BaseFlags`, `BaseRaw`) and the deltas; `MergeSettings` and
`MergeCompilerFlags` of the loader; `RenderEmccFlags`. A flag is a record, since no
property is about its text; `Representable` says for which settings the generated
grammar has a type.

### ToolchainBuild

The content of a file is the revision of the configuration it was made from and a
mark: a glue is `whole` or `normalized`, and while `writeFileSync` is at it `torn`, or
`cut` if the part that is written has the new worker reference, which is all that the
next `NormalizeGlue` looks for. `cmd` is the command that runs and where it is.
`Move` is one `renameSync`, which `MoveFails` refuses; `AssembleFails` is a write that
throws. `Check` looks at the manifest that is in `dist` and at its verdict on the
validation (mark `failed`); the manifest may be an older one when the
container made none, so that `Required` artifacts of an exit 0 are an assumption on
the image (its link ends in `validate-build.py`). `partial` and `halved` are
histories of moves and of writes of a glue that ended early. `built` and `assembled` are
histories of what the commands reported.

### ReleasePipeline

A run is the list of jobs that are left (`Path` for its kind, the chain of `needs`)
and where the first of them is. `LookUp` and `Publish`, `Inspect`, `Create` and
`Confirm`, `CheckSignature` and `Sign` are apart, since other runs act between a
registry's answer and what a job does with it. `QueueIsFree` is the concurrency
group of the two publish jobs. `Die` ends a job anywhere, and `Publish` may end in a
death after npm has taken the package; `Rerun` starts it from its first step. A
second run of the same commit is a resumption, whose bytes may differ. An `image` is
the digest of an index, and `Native` what images it is of: tags, signatures and pins
name the index, whose attestations differ from run to run, while the script compares
the images (`SameNative`). `contended` remembers the immutable tags that two runs with
different indexes found missing at once.

## 3. Runs

| run | question | bounds | states |
|---|---|---|---|
| `replace_tree` | Do readers find whole trees, and does a tree moved aside come back? | 2 writers, 2 files, 3 publications | 373 590 |
| `cmake_libraries` | Is what is accepted exact and current, and does some run get there? | 2 inputs that share one of 2 libraries, 2 identities, 4 faults | 1 192 740 |
| `binding_objects` | Are the objects current after a report, and does some run report? | 2 files, 2 workers, 2 versions, 4 events | 343 014 |
| `build_flags` | Is anything written across a mismatch, and do rebuilds give one configuration? | 2 flags, 2 sources, all the lines of `MCBuildFlags` | 3 577 894 |
| `patches` | Does a successful run leave what the present scripts make, without losing edits? | 3 files, one of each kind of script, 2 versions, 2 edits, 4 faults | 225 102 |
| `link_outputs` | Does a chain publish its own link and the truth about it? | 2 builds of one name, 2 paths, 2 versions, 3 faults | 702 154 |
| `embind_overloads` | Does a call reach the overload that the source says, in whatever order the module started? | 4 classes, an enum, an absent type; 11 methods, 4 constructors | 152 302 |
| `embind_handles` | Does an object live exactly as long as it is owned? | 2 plain objects, a member, a counted one, a slot; 4 handles, 1 envelope | 136 474 |
| `config_migration` | Does every build keep its flags through a migration, and what does the loader refuse? | 2 builds of 2 flags, 3 of 2, 2 of 3 raw flags; all names and wrappers of `MCConfigMigration` | 261 516 |
| `config_migration_order` | Do raw flags keep their order? | the same | violated |
| `toolchain_build` | Is what is built, generated and packed of one revision? | 2 variants, 2 revisions, 1 fault | 939 776 |
| `release_pipeline` | Is what carries a version of one commit, and complete? | 3 runs, 2 versions, 4 indexes of 3 builds' images, 1 death | 261 346 |

What the passing runs show:

- `replace_tree`: `PublishesWholeTrees` (refinement); `OneVintage` (also on
  an overlay layer, where readers may see a partial tree, but not a mixed one unless two
  writers copied it at a time); `NeverLeftAside` (unless somebody was `stranded`).
- `cmake_libraries`: `AcceptedIsExact` (nothing torn gets past the ledger, and if the
  identity stands for one set of inputs nothing but their libraries),
  `SuccessIsCurrent`, and `EventuallyPublished`.
- `binding_objects`: `ReportedObjectsAreCurrent` for all but orphans,
  `EventuallyReported` — the last although a dropped source makes a run raise
  (divergence 2), because each such run has removed the object that the next one would
  have raised at.
- `build_flags`: `NothingAcrossAMismatch` for any order of commands,
  `RebuildsLinkOneConfiguration` for lines that rebuild what they link, as long as there
  are no strays.
- `patches`: `PatchedIsCurrent`, with torn files and scripts that exit 1;
  `ForeignEditsSurvive`, but for an edit that races a script which is about to write
  that very file (`Raced`); `EventuallyPatched`. One exception is stated in the last,
  `EditIsRecorded`: an edit that a script rejects, made between that script and `write`,
  is recorded as owned; from then on `prepare` finds the tree as recorded, the script
  exits 1, and only the user can end that.
- `link_outputs`: `ChainPublishesItsLink`, `ProvenanceTellsTheTruth`,
  `EventuallyPublished`.
- `embind_overloads`: `DispatchFollowsRegistration` and
  `ConstructorsFollowRegistration` compare every call with the reference, over all
  orders of the blocks; `SiblingsAreIsolated` is the bug that the patch's comments
  describe ("Expected instance of <sibling>"), as an action property;
    `NoCallbackIsLost` (a started module has bound all functions and resolved those all of
  whose types came, result and `this` included, and no others), `EventuallyResolved`.
- `embind_handles`: `LivesAsLongAsOwned` (refinement: nothing is freed early or
  twice, the last owner frees at once), `CountsAreTrue` (the counters of Embind and of
  OCCT), `DisposerReleasesAll`.
- `config_migration`: `EveryBuildKeepsItsFlags`; `MigratedConfigLoads` (what was
  migrated is refused only because the ymls disagree, have no bindings or no name, are
  named alike, or because a wrapper file is missing or has no symbols listed);
  `NoRawFlagIsLostOrAdded` (a raw flag comes out as often as it went in, or, if all
  builds have it, as often as the first has); `MigratingAgainChangesNothing`.
- `toolchain_build`: `BuiltVariantsAreWhole`, `OnlyCutMovesLeavePartialArtifacts`
  (the promise of `driver/index.ts:255-257` with its limits: a kill and a refused rename
  between two renames do leave a mixture, of that variant, and nothing else does),
  `AssembledSurfaceIsCurrent` (a glue that ends early only if an assemble was cut while
  it wrote it), `ReleasesAreOfOneRevision`, `EventuallyReleased`.
- `release_pipeline`: `OneCommitPerVersion`, `ReleasesAreComplete`,
  `ToolchainPinsItsImage`, `PublishedStays`, `EventuallyReleased`.

### Finding

`config_migration_order`, `RawFlagsKeepTheirOrder`. `migrate` moves the raw flags
that all builds have to the base (`migrate/index.ts:607-612`), and rendering puts
the base first (`config/render.ts:107-109`). From `--js-library single.js
--emit-symbol-map` and `--js-library multi.js --emit-symbol-map` it makes
`--js-library --emit-symbol-map single.js`: the option gets another word for its
argument. Line 288 says that `rawFlags` "renders back byte-identically", and line 605
that raw flags are order-significant.

### Divergences seen while modelling

The models contain the following behaviour, which contradicts a sentence of the
repository; the passing properties are stated so that they hold beside it. Where a
definition is named in parentheses, it states the sentence, and TLC refutes it on the
instance of the module's run when it is put among the properties there.

1. *Objects.* The object is replaced (`compileBindings.py:198`) before its identity
   is (`:267`). Killed between the two, and with the inputs back at what they were,
      `object_needs_build` takes the object of the other inputs for cached. Lines 68-71
   say such an object must be rebuilt (`StaleObjectsAreRebuilt`). By the same way a line
   that rebuilds everything can link two configurations, which `strays` excludes.
2. *Pruning.* For a dropped source the walk removes object and identity at the
   first name (`:343-344`) and calls `os.remove` again when it comes to the second
   (`:346`): `FileNotFoundError`, before anything is compiled. Lines 399-400 promise
   a run that goes on to its report.
3. *Mismatch.* In `validate_build_flags && step_bindings` (`build-wasm.sh:968-969`)
   the failure of the left side does not end a `set -e` script: the command is passed
   over and the script exits 0. `flags.py:128-130` says "hard-fail rather than warn".
4. *Remedy.* What the error message recommends (`flags.py:177`,
   `pch bindings link`) never rebuilds the libraries; the link mixes two
   configurations, which `flags.py:173` excludes. With `sources` in the line it does
   not, which is theorem `RebuildsAreUniform`.
5. *Ownership of patches.* It is written after the last patch
   (`build-wasm.sh:754`). A first run that is killed leaves patched files without an
   owner, and every later run refuses them, although the command is called idempotent
   (`build-wasm.sh:888`).
6. *Stray outputs.* The marker of what may be removed is one per build, not per
   destination (`build-wasm.sh:708`). With two output directories in turn, files that
   the build does not make any more stay, where the documentation promises the
   "exact inventory".
7. *Forked dispatchers.* A derived class that gets its own table while an overload
   it inherits is still unresolved copies that overload's stub
   (`libembind-overloading.patch:118`, `:193`); the callback replaces the stub in the
   base only (`:573-574`), and the derived class throws `UnboundTypeError` for ever.
   `DispatchFollowsRegistration` leaves such classes out (`early`).
8. *Nullified handles.* `nullify()` clears the smart pointer, but `$$.ptr` stays what
   it was (`EmbindHandles`, `Nullify`), so a method call does not throw, as
   `handles-and-collections.mdx:46` says it does.
9. *Stuck releases.* The check that a version is what its channel names
   (`docker.yml:1134`, and 1201 for the verification) makes the rerun of an older
   release fail for good once a newer one was published; libcascade and the toolchain
   can end up naming different versions, since the queue covers one job at a time.
      `EventuallyReleased` is about versions that stay current.
10. *Removed variants.* `mergePackageExports` keeps the subpaths of variants that the
    configuration does not declare any more, while the packed files are replaced
    (`assemble/index.ts:823-871`). `AssembledSurfaceIsCurrent` claims the other
    direction only.
11. *Overwritten tags.* Two runs of one release can both find an immutable tag missing
   (`promote-ghcr-tag.sh:72`) and both create it (`:106`): the tag names one index and
   then another, where `MAINTAINER.md:265-267` says that resuming a release never
   overwrites an immutable tag (`ImmutableTagsStay`). `contended` leaves these tags out.
12. *Failed builds.* `renameSync` (`driver/index.ts:289`) throws when a destination
   cannot be replaced, after other artifacts were moved. Lines 255-257 say that "a failed
   build never leaves partial artifacts in `dist/`"
   (`FailedBuildsLeaveNoPartialArtifacts`).
13. *Repeated raw flags.* What every build `includes` goes to the base, as often as the
   first build has it, and is left out of all the others (`migrate/index.ts:607-612`):
   of `--js-library b.js --js-library c.js` one option is left when the first build has
   one. `migrate-from-yaml.mdx:114` says "migrate never drops a flag"
   (`NoRawFlagIsDropped`).
14. *Names of variants.* A name that is taken gets the number of its build and is not
   looked up again (`migrate/index.ts:442`): files `build`, `build3` and `build` give
   two variants `build3`, which `config/index.ts:225-226` refuses
   (`VariantNamesAreUnique`).
15. *Overlay.* Two writers that move the same lower directory aside copy and remove by
   path (`build_state.py:97`); one can put files of the other's publication into its
   backup and restore the mixture, where `BUILD_SYSTEM.md:103` promises atomicity.
   `overlapped` leaves this out of `OneVintage`.
16. *Torn glue.* `assemble` takes a glue that was cut behind the rewritten worker
   reference for normalized (`assemble/index.ts:334-346`) and packs it; `halved` says so.
17. *Extra builds.* `yaml_build.py:1081` passes the whole mapping of an extra build to
    `verifyBindings` instead of its list of bindings. No model is about it.

### Why the bounds are enough

A counterexample to these properties needs two versions of a thing (what is there
and what ought to be), two parts that can disagree (two files, libraries, builds,
packages), and two actors where there are several. Every instance has these. What
repeats without an end in the code — runs of a step — is unbounded in every model
except `ReplaceTree`, where a publication carries a number: three of them let a
writer publish between the two renames of another and then be overtaken itself. The
events from outside (`MaxFaults`, `MaxEvents`: kills, failures, edits, losses) are
bounded at one to four, and `MaxRev` revisions at two: a change, a kill in the run
that follows and a change or a kill in the next one where a step keeps state
between runs, one kill where a command starts from nothing. The two versions of
`BindingObjects` let an input move on, a run be killed and the input go back. The two
inputs of `CMakeLibraries` share a library so that a stale archive can be mistaken for a
good one, and one has a library more so that a left-over can be published; each
identity can come to stand for either or for both. The three files of `PatchState` have
the three kinds of scripts (one that warns, one with a sentinel, one with hashes). In
`LinkOutputs` one link makes a file that the next one does not.

The hierarchy of `EmbindOverloads` has a base and three siblings, one of which is
itself a parameter type; the methods differ in arity, in whether their types come
before or after, in one that never comes, and in results that come late or never; all
subsets of up to three of them, and nine together, are programs. `EmbindHandles` has one family more than objects that can be
owned twice, so that a clone, its original, an envelope and a further pointer coexist.
`ConfigMigration` needs three builds for a majority that is not everybody, and for a
numbered name that is taken. The plans of `ReleasePipeline` pair a release with each
thing that can cross it: its own resumption (with the same index, another index of the
same images, or other images), a newer release, another commit of its version, a canary, builds of main.
Each mutated action breaks its property within these bounds.

Writers, files and handles are interchangeable in `ReplaceTree` and `EmbindHandles`;
symmetry is used in these two runs, which have no liveness property. The deadlock
check is off where the system really ends: when the publications of `ReplaceTree` and
the handles of `EmbindHandles` are used up, when the module of `EmbindOverloads` has
started, when the second migration is done, and when all runs of `ReleasePipeline`
have ended.

### Fairness

- `CMakeLibraries`, `BindingObjects`, `PatchState`: weak fairness of `Run`. The
  steps are sequential code, or workers the system schedules, and whoever needs
  the result starts the step again. Nothing is assumed of the events outside; they
  are finitely many.
- `PatchState`: strong fairness of `Resolve`. A user who is refused again and again
  does at last what the message says.
- `LinkOutputs`: weak fairness of `Steps`, strong fairness of `Targets`: Nx
  is run again and again among commands by hand. Which build is run is
  left open, and no fairness is assumed of a command by hand.
- `EmbindOverloads`: weak fairness of `StartNext`. The start of a module is one thread
  that runs to its end; which block comes next is fixed by the link.
- `ToolchainBuild`: weak fairness of `Step`, a command that goes on; strong
  fairness of building all variants, of assembling and of checking out a torn
  `package.json`: the developer, or a CI job, repeats them until they succeed, among
  builds of single variants in any number.
- `ReleasePipeline`: weak fairness of every run's `Step` or `Rerun`. GitHub runs a job
  that may run, and `MAINTAINER.md` has failed jobs rerun. No run is assumed to win a
  queue or a race.
- `ReplaceTree`, `BuildFlags`, `EmbindHandles`, `ConfigMigration`: no liveness is
  claimed. A publication is one attempt; a command line may be wrong for ever; a
  collector need not collect.

## 4. Proofs

The theorems hold for all sets of files, writers, identities, builds, command
lines, flags, variants and all bounds, under the named assumptions of each module: sentinels are
not values, sets have the right type, a build makes at least one file
(`LibsOfAssumption`, `OutputAssumption`). TLC evaluates these on every run.

| module | theorems | inductive invariant and why it is needed |
|---|---|---|
| `ReplaceTreeProofs` | `TypeCorrect`, `NoMixedTree`, `TreeComesBack`, `PublicationIsWhole` | `StageInv`: a stage past `populate` is whole, of its number, and nobody else can reach it. `FreshInv`: directories of publications to come are empty. `BackupInv`: `hasBackup` is true to the backup where it is read. `LowerInv`: the lower directory is left for good. `CopyInv`: until two writers copy at a time, a writer that copies or removes does it in the lower directory, and every directory is of one publication. `WholeInv`: where renames work, not the destination alone but every tree a restore can bring back is whole |
| `CMakeLibrariesProofs` | `TypeCorrect`, `ScratchIsClean`, `AcceptedLibrariesAreExact`, `SuccessMeansCurrent` | `RunInv`: what a run reads is among the inputs of its identity. `ScratchInv`, `BuildInv`: what no job writes is missing, or not torn and right if the identity stands for one set of inputs, so that skipping is harmless. `PublishInv`, `ManifestInv`: so is what is staged, and what a manifest lists. `ResultInv`: a success has its manifest. `sources` only grows (`HistoryGrows`), so what was right for one set of inputs stays right or becomes an exception |
| `CompilationProofs`, objects | `TypeCorrect`, `ReportedAreCurrent`, `WorkersAreDisjoint` | `StampInv`: what an identity file names its object was made from, but for orphans and what a worker is about to sign. `StepInv`: what each worker has done is on disk. `DoneInv`: files no worker will look at any more are right |
| `CompilationProofs`, flags | `FlagsTypeCorrect`, `MismatchBlocks`, `RebuildsAreUniform`, `FullRebuilds` | `SignInv`: the same for the pool of a command line: an identity names what is in its object, but for strays and what is not signed yet. `HeaderInv`, `ObjectsInv`, `LibrariesInv`: after a `pch` earlier in this line the header, then the objects that are no strays and the libraries made after it, are of the environment, whatever they were before |
| `PatchStateProofs` | `TypeCorrect`, `AlwaysCurrent`, `ForeignEditsStay`, `OnlyEditsAreRejected` | `PhaseInv`: a script is between reading and writing only of a file that is still to do. `ManifestInv`: a manifest describes what a complete run of its own version has made, so a tree equal to it needs no patch. `TreeInv`: while patching, an unedited file has no patch of another version and is not torn |
| `LinkOutputsProofs` | `TypeCorrect`, `ChainsAreFaithful`, `NeverTorn`, `ProvenanceIsTrue` | `LinkInv`: report and inventory are of one link whenever both exist, since both are removed before either is written. `PlaceInv`: what a chain has copied stays until it ends |
| `ToolchainProofs`, build | `TypeCorrect`, `CommandsKeepTheInvariant`, `SuccessfulBuildsAreWhole`, `OnlyCutMovesLeaveArtifacts`, `AssembledSurfaceCorrect`, `ReleasesCorrect` | `Moving`: a required artifact is still in the scratch directory or in `dist`, as this container made it. `Unfinished`: what a build has not finished counts as not built. `CutGlue`: a glue is cut only where `halved` says so or while it is written. `Assembling`: what was read is still there, and what was passed is done |
| `ToolchainProofs`, migration | `MigrationTypeCorrect`, `StagesHoldTheMigration`, `BuildsKeepTheirFlags`, `LoaderAccepts`, `ThreadsFollow`, `RawFlagsArrive`, `MigrationIsStable` | `MigrationInv`: each later stage is the function of the earlier one that the code computes. The substance is in the lemmas, see below |
| `EmbindProofs`, handles | `HandlesTyped`, `CountersCount`, `LivesWhileOwned`, `DisposersRelease` | `RecordsInv`: a clone has the record of its family. `OneFamily`: a plain object is never owned by two families. `LivesInv`: alive is owned, or counted. `CountsAreTrue` itself: the last owner is only known from the counters |
| `EmbindProofs`, overloads | `DispatchTyped`, `SiblingsApart` | `StartInv`: the slots of a class, the dispatchers it owns and the functions these choose from are of its own line (`TablesInv`, `DispatchersInv`); a bound function is in a slot of its own class that no base owns (`BoundInv`), so that resolving it writes there and nowhere else |
| `EmbindProofs`, callbacks | `CallbacksWait`, `CallbacksCome` | `CallbacksInv`: a callback that was announced and has not run waits, once, with each type it misses, or is on the agenda to be told of it. `BlocksInv`: what remains of a block is of a class that has started, and each type is registered or still to come |
| `EmbindProofs`, methods | `MethodsInOrder`, `CallsInOrder` | `InPlaceInv`: a class outside `early` with a table of its own inherits nothing that is still to be bound or resolved. `MethodsInv`: of such a class (and bases) the slot of an arity is a function of what is bound and resolved along its line, a lone function or a dispatcher with the most derived one under each key. `LeadInv`: a lone method is called without a look at its arguments exactly if another method of the name came before it |
| `EmbindProofs`, constructors | `BoundInOrder`, `BodiesInOrder`, `ConstructorsInOrder` | `OrderInv`: in the running block, in every list that waits and on the agenda the functions of a class are in source order, and what is bound is a beginning of it. `CtorsInv`: the body of an arity is a function of what is bound and resolved |
| `ReleasePipelineProofs` | `TypeCorrect`, `VersionsOfOneCommit`, `CompleteReleases`, `PinnedImage`, `NothingIsReplaced` | `RunInv`: what the jobs behind a run have left in npm (`LeftInNpm`) and among the tags (`TagsThere`), and that the index it verified is signed, is what the tag names and is what it pins (`Verified`). `QueueInv`: one upload per channel. `WritersAgree`: whoever is about to write an immutable tag that is not contended has the index that is there. `StableInv`: the stable alias has the images of a commit that npm has |

Each `…Proofs` module proves that the invariant holds initially, then one lemma
per part with one step per action, and a temporal step at the end.
`PublicationIsWhole` is the refinement: initial states map to initial states and
each step to `Withdraw`, `Install` or a stutter. `NoMixedTree` holds on an overlay too,
by `CopyInv`.

Five arguments are less direct.

*Migration.* A majority is the value of some build (`LastExists`, `MergingSettings`),
so base and delta merge back, and a null only ever unsets what the base has. How often
a raw flag comes out (`RawFlagsArrive`) is an induction over positions, since `Keep`
is a function of a prefix: it is done with sets of prefixes that have a least
element (`LeastExists`, `Induct`), for which the recursion need not be instantiated.
`KeepAppend`, `KeepConcat` and `CopiesKept` say what `Keep` does to appended, joined and
filtered lists, and `CopiesJoined` has the copies of base and delta back in each build.
That the loader has nothing else to refuse (`LoaderAccepts`) follows from how names are
made: split names differ because the artifacts do, numbered ones are the exception that
the property states. For
`MigrationIsStable` a list of flags is `Settled` when modernizing it changes nothing;
what `migrate` returns is settled (`ModernizedIsSettled`), what is rendered from it reads
back as what it was (`ReadingBack`), and the base of what was split is that base again.

*Ownership.* `LivesWhileOwned` is the refinement of `Ownership` (`OwnersInv`, `Ages`).
Making handles (`Birth…`) and letting them go (`Release…`) are each one lemma for all
bindings: every action is an instance of one of them. A release is counted over the set
of handles that go, with the cardinalities of finite sets, because one disposal can
empty an envelope, free an object and drop a reference that the object held.

*Overloads.* `Line`, the prototype chain, is recursive over the hierarchy.
`AcyclicAssumption` (no class is its own base, which C++ guarantees) says that any set of
classes has one whose base is outside; from that follow the existence and uniqueness of
the lines (`LinesReach`, `LinesAgree`). `SeenKept` then follows every reference that a
call can take, from the holder of the table through the owner of a dispatcher to the
functions in its order, and finds none outside the line.

*Callbacks and constructors.* Whoever registers a type interrupts a list of callbacks
with another list, so a callback cannot be located by the step that is being made.
`CallbacksInv` says for each callback and type where it is, in both directions (`<=>`),
and that no list has it twice; a step then moves items between lists that are disjoint
by invariant. That a started module has no class left over needs `AcyclicAssumption`
once more: of the classes not registered one has its base outside, and its callback
would be pending without anything to wait for. For `OrderInv` the functions of one class wait
for the same type, so they move together, and each list is a beginning, a middle or an
end of the source. Then `CtorsInv` makes the body a function of the
bound set (`BodyOf`), which with `NoCallbackIsLost` is all constructors of that arity:
`ConstructorsInOrder` compares the choice among them with `Expected`, overload by
overload, a lone one with what its conversion does, where keys differ since `Key` of no two constructors of a class is the same.

*Methods.* A dispatcher is copied when a derived class joins an arity, and goes on
changing in place. `MethodsInv` is about the copies: what a class holds, or inherits from
the `Holder` of its line (`SlotAbove`), is what the bound functions of its line give
(`DispatcherOf`). Binding appends, and `OrderInv` with the line order puts the new function behind all
that is there (`MethodBinds`, `DispatcherGrows`). Resolving deletes the raw key and writes
the JavaScript key, and either may be shared with a function of a base:
`DispatcherResolved` shows that the deleted key is the one written then, and that what is
overwritten is overridden. That needs the base's function to be in place, hence
`InPlaceInv`; where it is not, divergence 7 is what happens. A descendant with a table
of its own has left `Clean` or had all of it in place before (`Overtaken`), so no step
of a base concerns it. With `NoCallbackIsLost`, `LastExists`,
`LeadInv` and `ChosenIs` the entry that a call selects is the one `Expected` names
(`MethodAnswers`), or is called as `Expected` says when nothing is selected
(`NothingChosen`).

The inductive invariants of this table were first checked by TLC on the instances of
section 3. The proofs added assumptions the models had left implicit, and TLC evaluates
them on every run: a version that two published runs share is of one kind, and
indexes of the same images are of one commit and version (`PlansAssumption`; the suffix
of a version tells the one, the labels of an image the other), markers are not packages
(`NamesAssumption`), there is some object (`KindsAssumption`), a flag is its form, key and
value, threads can be rendered and so can every set of runtime methods that has the
exception helpers (`FlagAssumption`), no method list is taken for a missing value
(`MarkAssumption`), there is a build to migrate (`YmlAssumption`), the functions of a class are its own and its
constructors no methods (`ProgramsAssumption`), what a call throws is not a function
(`FnAssumption`), a type that is checked is a type and one that is never registered is not a class (`HierarchyAssumption`), a
class is told by its type id and any other type by a name that is not one
(`JsTypeAssumption`), and the arguments of a call are a list (`CallsAssumption`).

Some invariants are proved for every value of the constants and are not checked by a
run any more: the types of `ReplaceTree`, `CMakeLibraries`, `BindingObjects`,
`BuildFlags`, `PatchState`, `LinkOutputs`, `EmbindOverloads`, `ConfigMigration` and
`ToolchainBuild`, `CompleteScratchIsClean`, `OneWorkerPerFile`, `ScriptsAcceptTheTree`, `DestIsNeverTorn`
and `ThreadsFollowTheYml`.

Only model-checked: the liveness properties (`EventuallyPublished` of two modules,
`EventuallyReported`, `EventuallyPatched`, `EventuallyResolved`, `EventuallyReleased`
of two modules), since liveness under fairness and `ENABLED` are out of the prover's
reach. Every invariant and every action property that a passing run checks is proved.
None of these theorems assumes more than the named assumptions: what the code does not
keep is excepted in the property itself, by a history variable that says when it
happened (`stranded`, `overlapped`, `sources`, `orphans`, `strays`, `partial`, `halved`,
`early`, `contended`) or by a formula (`Raced`, `EditIsRecorded`). No module uses
RECURSIVE operators.

## 5. What the models assume

- One command at a time in a build directory, except in `ReplaceTree`, and one in a
  consumer's package. Nothing in the code enforces it; two command lines at once are a listed hazard of
  which only the publication of trees is covered.
- A kill ends the whole process group: no worker or CMake job lives on.
- Inputs change between runs, except in `PatchState` and `CMakeLibraries`.
  `compileBindings.py` computes the identity of a source before it compiles what is there
  then; an edit in between is recorded under the old identity, as one under a run of
  CMake is, which `sources` follows.
- Digests are free of collisions, links reproducible (`Output` is a function),
  and Nx keys its cache by all that a link reads.
- Temporary files left by killed writes are not state: nothing reads them.
- A container that exits 0 has written the artifacts its yml asks for, as the link of
  the pinned images ends in `validate-build.py`.
- Two overloads of one class differ in what a call can tell apart; bindgen merges
  those that do not. A class is registered once.
- A program uses a handle only while its object lives. What a call on a dangling
  borrowed handle does is open. The module is built without ASSERTIONS, as emcc
  does by default from -O1 on.
- A commit has one version; an image's labels tell its commit; two indexes may have the
  same images and never the same digest by chance; digests, npm and the
  registries are consistent once they have answered (no registry lag), and eight
  hexadecimal digits tell commits apart.
- Whether the overlay branch is taken is fixed for the first live directory; what
  is installed afterwards, and what is copied, is on the upper layer. The removal of an
  old backup of the same process id (`rmtree` with errors ignored) succeeds.

## 6. Not modelled

- `link` and `full` writing straight to the output directory, what `validate-build.py`
  looks at, a clone that moves to another commit below `patches-applied.json`, the C++
  that patches change, and pool workers killed by the system while
  `multiprocessing.Pool` waits.
- The four-step publication of generated bindings, and whether the declared inputs of
  Nx targets cover what their commands read: both depend on what programs read, not on
  a protocol that the code states.
- Code generation, template discovery, symbol resolution, declarations and extracted
  documentation: pure functions from text to text, whose correctness is in the text.
- Embind: static methods and free functions (copies of the same registration code),
  the wildcard of optional parameters, value objects, `deleteLater` (which no
  declaration of the repository offers), classes that
  JavaScript extends.
- Migration: the order of typed before raw flags, the extraction of symbols from custom
  C++ (whether a wrapper has classes is a choice), the grammar of values (a constant of
  the model), the names and wrappers of the second migration.
- Toolchain: two commands at once, `--render-only`, an assemble that leaves
  `package.json` alone, torn writes of the files of the surface (which no command reads),
  the content of the surface, engine detection. A build without `js.symbols` leaves an older
  one in `dist`; only required artifacts are claimed to be of one build.
- Release: two of the three image stages (their tags are disjoint and their steps the
  same), the retention job, the expiry of digests that jobs hand on, "re-run all jobs",
  the preparation of a release commit, and the jobs that build and test the candidate,
  which write nothing outside their run.
- The documentation site, templates, tests, and the experiments of the repository.

## 7. What could follow

An abstract "current or nothing" specification which `CMakeLibraries`, `BindingObjects`,
`LinkOutputs` and `ToolchainBuild` implement, with the refinements proved; `clone-deps.sh`
composed with `PatchState`; the retention job beside `ReleasePipeline`.
