--------------------------- MODULE ToolchainBuild ---------------------------
(***************************************************************************)
(* `libcascade build` and `libcascade assemble` (packages/toolchain/src):  *)
(* one container run for each variant fills a scratch directory, whose     *)
(* files are renamed into dist one by one; assemble rewrites the glue of   *)
(* the threaded variants, writes the generated surface file by file and    *)
(* merges its subpaths into package.json.  The developer edits the         *)
(* configuration at any time.  Any command may be killed at any step, and  *)
(* any rename or write may throw.  One command runs at a time: nothing in  *)
(* the code locks dist.                                                    *)
(*                                                                         *)
(* The content of a file is the revision of the configuration it was made  *)
(* from.  A file that writeFileSync has only begun is "torn"; a glue that  *)
(* ends behind the rewritten worker reference is "cut".  A manifest that   *)
(* tells of a failed validation is "failed".                               *)
(***************************************************************************)
EXTENDS Naturals, Sequences, SequencesExt

CONSTANTS
    Variants,   \* all variants the configuration may ever declare
    Threaded,   \* those that require threads
    MaxRev,     \* bound: revisions of the configuration
    MaxFaults   \* bound: kills, refused images, and containers, renames and
                \*   writes that fail

ASSUME ToolchainAssumption ==
    /\ Variants # {} /\ Threaded \subseteq Variants
    /\ MaxRev \in Nat \ {0} /\ MaxFaults \in Nat

VARIABLES
    rev,        \* the revision of libcascade.config.ts
    declared,   \* the variants it declares
    scratch,    \* variant -> suffix -> content of .libcascade/out/<variant>
    dist,       \* variant -> suffix -> content of dist
    surface,    \* generated file of dist -> the reading it was rendered from
    package,    \* package.json: its subpaths and packed files, by variant
    cmd,        \* the command that runs
    built,      \* history: the revision the last build of a variant reported
    assembled,  \* history: nothing was started since an assemble succeeded
    partial,    \* history: what ended the last move of a variant early
    halved,     \* history: those whose glue was not written to its end
    faults      \* bound: the faults so far

history == <<partial, halved>>
vars == <<rev, declared, scratch, dist, surface, package, cmd, built, assembled,
          history, faults>>

----------------------------------------------------------------------------
ARTIFACT_SUFFIXES ==
    <<"js", "wasm", "d.ts", "js.symbols", "provenance.json", "build-manifest.json">>

Suffix == ToSet(ARTIFACT_SUFFIXES)

(* emcc writes js.symbols only when a raw flag asks for it. *)
Required == Suffix \ {"js.symbols"}

(* The entries, which are written between the two others, are one file. *)
ASSEMBLE_OUTPUTS == <<"types.d.ts", "init.js", "exports.json">>

Content == [rev : 0..MaxRev, mark : {"absent", "whole", "normalized", "torn", "cut", "failed"}]
Nothing == [rev |-> 0, mark |-> "absent"]
File(r) == [rev |-> r, mark |-> "whole"]
Exists(content) == content # Nothing

NoFiles == [s \in Suffix |-> Nothing]
Unread == [v \in {} |-> 0]
Idle == [name |-> "idle"]

Faulty == faults < MaxFaults /\ faults' = faults + 1

----------------------------------------------------------------------------
Init ==
    /\ rev = 1
    /\ declared \in (SUBSET Variants) \ {{}}
    /\ scratch = [v \in Variants |-> NoFiles]
    /\ dist = [v \in Variants |-> NoFiles]
    /\ surface = [f \in ToSet(ASSEMBLE_OUTPUTS) |-> Unread]
    /\ package = [mark |-> "whole", exports |-> {}, files |-> {}]
    /\ cmd = Idle
    /\ built = [v \in Variants |-> 0]
    /\ assembled = FALSE
    /\ partial = [v \in Variants |-> "nothing"] /\ halved = {}
    /\ faults = 0

(* The developer edits the configuration, a command running or not. *)
Edit ==
    /\ rev < MaxRev
    /\ rev' = rev + 1
    /\ declared' \in (SUBSET Variants) \ {{}}
    /\ UNCHANGED <<scratch, dist, surface, package, cmd, built, assembled, history, faults>>

(* libcascade build [--variant v]: the configuration is loaded once and    *)
(* rendered for every variant before the first container starts.  The      *)
(* order of the variants is that of the configuration, which may be any.   *)
StartBuild(wanted) ==
    /\ cmd = Idle
    /\ wanted = declared \/ \E v \in declared : wanted = {v}
    /\ \E v \in wanted :
         cmd' = [name |-> "build", at |-> "clear", rev |-> rev, variant |-> v,
                 todo |-> wanted \ {v}, left |-> <<>>]
    /\ built' = [v \in Variants |-> IF v \in wanted THEN 0 ELSE built[v]]
    /\ assembled' = FALSE
    /\ UNCHANGED <<rev, declared, scratch, dist, surface, package, history, faults>>

(* run: engine and image have been accepted; the scratch files are removed. *)
Clear ==
    /\ cmd.name = "build" /\ cmd.at = "clear"
    /\ scratch' = [scratch EXCEPT ![cmd.variant] = NoFiles]
    /\ cmd' = [cmd EXCEPT !.at = "run"]
    /\ UNCHANGED <<rev, declared, dist, surface, package, built, assembled, history, faults>>

(* No engine answers, or the image is not the pinned one. *)
Refuse ==
    /\ cmd.name = "build" /\ cmd.at = "clear"
    /\ Faulty
    /\ cmd' = Idle
    /\ UNCHANGED <<rev, declared, scratch, dist, surface, package, built, assembled, history>>

(* What a container leaves behind; the verdict is that of its manifest.    *)
Outputs(made, verdict) ==
    [s \in Suffix |-> IF s \notin made THEN Nothing
                      ELSE IF s # "build-manifest.json" THEN File(cmd.rev)
                      ELSE [rev |-> cmd.rev, mark |-> verdict]]

(* The container exits 0, having written every artifact the yml asks for.  *)
(* In the pinned images validate-build.py has passed then; an image that   *)
(* was chosen instead may exit 0 with a manifest that says otherwise.      *)
ContainerSucceeds ==
    /\ cmd.name = "build" /\ cmd.at = "run"
    /\ \E made \in {Required, Suffix} : \E verdict \in {"whole", "failed"} :
         /\ scratch' = [scratch EXCEPT ![cmd.variant] = Outputs(made, verdict)]
         /\ IF verdict = "whole" THEN UNCHANGED faults ELSE Faulty
    /\ cmd' = [cmd EXCEPT !.at = "move", !.left = ARTIFACT_SUFFIXES]
    /\ partial' = [partial EXCEPT ![cmd.variant] = "nothing"]
    /\ UNCHANGED <<rev, declared, dist, surface, package, built, assembled, halved>>

(* Mutant: the exit status is not looked at. *)
ContainerFailsUnseen ==
    /\ cmd.name = "build" /\ cmd.at = "run"
    /\ Faulty
    /\ \E n \in 0..Len(ARTIFACT_SUFFIXES) :
         scratch' = [scratch EXCEPT ![cmd.variant] =
                       Outputs(ToSet(SubSeq(ARTIFACT_SUFFIXES, 1, n)), "whole")]
    /\ cmd' = [cmd EXCEPT !.at = "move", !.left = ARTIFACT_SUFFIXES]
    /\ UNCHANGED <<rev, declared, dist, surface, package, built, assembled, history>>

(* It exits with another status, having written some of them. *)
ContainerFails ==
    /\ cmd.name = "build" /\ cmd.at = "run"
    /\ Faulty
    /\ \E n \in 0..Len(ARTIFACT_SUFFIXES) : \E verdict \in {"whole", "failed"} :
         scratch' = [scratch EXCEPT ![cmd.variant] =
                       Outputs(ToSet(SubSeq(ARTIFACT_SUFFIXES, 1, n)), verdict)]
    /\ cmd' = Idle
    /\ UNCHANGED <<rev, declared, dist, surface, package, built, assembled, history>>

(* Mutant: an artifact already in dist is kept. *)
MoveOnce ==
    /\ cmd.name = "build" /\ cmd.at = "move" /\ cmd.left # <<>>
    /\ LET v == cmd.variant
           s == Head(cmd.left)
       IN  IF Exists(scratch[v][s]) /\ ~ Exists(dist[v][s])
           THEN /\ dist' = [dist EXCEPT ![v][s] = scratch[v][s]]
                /\ scratch' = [scratch EXCEPT ![v][s] = Nothing]
                /\ halved' = IF s = "js" THEN halved \ {v} ELSE halved
           ELSE UNCHANGED <<dist, scratch, halved>>
    /\ cmd' = [cmd EXCEPT !.left = Tail(@)]
    /\ UNCHANGED <<rev, declared, surface, package, built, assembled, partial, faults>>

(* renameSync of the next artifact, skipped when the run made none. *)
Move ==
    /\ cmd.name = "build" /\ cmd.at = "move" /\ cmd.left # <<>>
    /\ LET v == cmd.variant
           s == Head(cmd.left)
       IN  IF Exists(scratch[v][s])
           THEN /\ dist' = [dist EXCEPT ![v][s] = scratch[v][s]]
                /\ scratch' = [scratch EXCEPT ![v][s] = Nothing]
                /\ halved' = IF s = "js" THEN halved \ {v} ELSE halved
           ELSE UNCHANGED <<dist, scratch, halved>>
    /\ cmd' = [cmd EXCEPT !.left = Tail(@)]
    /\ UNCHANGED <<rev, declared, surface, package, built, assembled, partial, faults>>

(* Mutant: it reads the manifest where the container wrote it. *)
CheckWhereItWas ==
    /\ cmd.name = "build" /\ cmd.at = "move" /\ cmd.left = <<>>
    /\ LET v == cmd.variant
       IN  IF /\ Exists(scratch[v]["build-manifest.json"])
              /\ scratch[v]["build-manifest.json"].mark # "failed"
           THEN /\ built' = [built EXCEPT ![v] = cmd.rev]
                /\ IF cmd.todo = {} THEN cmd' = Idle
                   ELSE \E next \in cmd.todo : cmd' =
                       [cmd EXCEPT !.at = "clear", !.variant = next, !.todo = @ \ {next}]
           ELSE cmd' = Idle /\ UNCHANGED built
    /\ UNCHANGED <<rev, declared, scratch, dist, surface, package, assembled, history, faults>>

(* assertManifestPassed reads the manifest that is in dist now: it has to  *)
(* be there, and to say that the validation passed.                        *)
Check ==
    /\ cmd.name = "build" /\ cmd.at = "move" /\ cmd.left = <<>>
    /\ LET v == cmd.variant
       IN  IF /\ Exists(dist[v]["build-manifest.json"])
              /\ dist[v]["build-manifest.json"].mark # "failed"
           THEN /\ built' = [built EXCEPT ![v] = cmd.rev]
                /\ IF cmd.todo = {} THEN cmd' = Idle
                   ELSE \E next \in cmd.todo : cmd' =
                       [cmd EXCEPT !.at = "clear", !.variant = next, !.todo = @ \ {next}]
           ELSE cmd' = Idle /\ UNCHANGED built
    /\ UNCHANGED <<rev, declared, scratch, dist, surface, package, assembled, history, faults>>

----------------------------------------------------------------------------
(* libcascade assemble: throws unless package.json parses and every        *)
(* declared variant has its declarations and manifest.                     *)
Reading(variants) ==
    [v \in variants |-> [types    |-> dist[v]["d.ts"].rev,
                         manifest |-> dist[v]["build-manifest.json"].rev]]

Readings == UNION {[V -> [types : 0..MaxRev, manifest : 0..MaxRev]] : V \in SUBSET Variants}

Readable ==
    /\ package.mark = "whole"
    /\ \A v \in declared : /\ Exists(dist[v]["d.ts"])
                           /\ Exists(dist[v]["build-manifest.json"])

StartAssemble ==
    /\ cmd = Idle
    /\ assembled' = FALSE
    /\ IF Readable
       THEN cmd' = [name |-> "assemble", at |-> "glue", read |-> Reading(declared),
                    variant |-> CHOOSE v \in declared : TRUE,
                    todo |-> declared \cap Threaded,
                    left |-> ASSEMBLE_OUTPUTS]
       ELSE cmd' = Idle
    /\ UNCHANGED <<rev, declared, scratch, dist, surface, package, built, history, faults>>

(* Mutant: a glue of neither known form is left as it is. *)
NormalizeGlueLeniently ==
    /\ cmd.name = "assemble" /\ cmd.at = "glue"
    /\ \E v \in cmd.todo :
         IF dist[v]["js"].mark = "whole"
         THEN /\ cmd' = [cmd EXCEPT !.at = "writing glue", !.variant = v, !.todo = @ \ {v}]
              /\ dist' = [dist EXCEPT ![v]["js"].mark = "torn"]
         ELSE cmd' = [cmd EXCEPT !.todo = @ \ {v}] /\ UNCHANGED dist
    /\ UNCHANGED <<rev, declared, scratch, surface, package, built, assembled, history, faults>>

(* normalizeThreadedGlue: the worker reference is rewritten once.  The     *)
(* references are all that it looks at: a glue that ends behind the        *)
(* rewritten one is taken as done, a glue without one stops the command.   *)
NormalizeGlue ==
    /\ cmd.name = "assemble" /\ cmd.at = "glue"
    /\ \E v \in cmd.todo :
         LET next == [cmd EXCEPT !.variant = v, !.todo = @ \ {v}]
         IN  CASE dist[v]["js"].mark \in {"normalized", "cut"} -> cmd' = next /\ UNCHANGED dist
               [] dist[v]["js"].mark = "whole" ->
                      /\ cmd' = [next EXCEPT !.at = "writing glue"]
                      /\ \E part \in {"torn", "cut"} :
                            dist' = [dist EXCEPT ![v]["js"].mark = part]
               [] OTHER -> cmd' = Idle /\ UNCHANGED dist
    /\ UNCHANGED <<rev, declared, scratch, surface, package, built, assembled, history, faults>>

WriteGlue ==
    /\ cmd.name = "assemble" /\ cmd.at = "writing glue"
    /\ dist' = [dist EXCEPT ![cmd.variant]["js"].mark = "normalized"]
    /\ cmd' = [cmd EXCEPT !.at = "glue"]
    /\ UNCHANGED <<rev, declared, scratch, surface, package, built, assembled, history, faults>>

(* Mutant: a generated file that exists is not written again. *)
WriteSurfaceOnce ==
    /\ cmd.name = "assemble" /\ cmd.at = "glue" /\ cmd.todo = {} /\ cmd.left # <<>>
    /\ surface' = IF surface[Head(cmd.left)] = Unread
                  THEN [surface EXCEPT ![Head(cmd.left)] = cmd.read] ELSE surface
    /\ cmd' = [cmd EXCEPT !.left = Tail(@)]
    /\ UNCHANGED <<rev, declared, scratch, dist, package, built, assembled, history, faults>>

WriteSurface ==
    /\ cmd.name = "assemble" /\ cmd.at = "glue" /\ cmd.todo = {} /\ cmd.left # <<>>
    /\ surface' = [surface EXCEPT ![Head(cmd.left)] = cmd.read]
    /\ cmd' = [cmd EXCEPT !.left = Tail(@)]
    /\ UNCHANGED <<rev, declared, scratch, dist, package, built, assembled, history, faults>>

(* writePackageExports keeps the subpaths it finds and replaces the files. *)
WritePackage ==
    /\ cmd.name = "assemble" /\ cmd.at = "glue" /\ cmd.todo = {} /\ cmd.left = <<>>
    /\ package' = [package EXCEPT !.mark = "torn"]
    /\ cmd' = [cmd EXCEPT !.at = "writing package"]
    /\ UNCHANGED <<rev, declared, scratch, dist, surface, built, assembled, history, faults>>

FinishAssemble ==
    /\ cmd.name = "assemble" /\ cmd.at = "writing package"
    /\ package' = [mark |-> "whole", exports |-> package.exports \union DOMAIN cmd.read,
                   files |-> DOMAIN cmd.read]
    /\ cmd' = Idle
    /\ assembled' = TRUE
    /\ UNCHANGED <<rev, declared, scratch, dist, surface, built, history, faults>>

----------------------------------------------------------------------------
(* A command ends early.  What it was moving or writing stays as it is.    *)
Moved(v) == cmd.name = "build" /\ cmd.at = "move" /\ cmd.variant = v

Stop(cause) ==
    /\ Faulty
    /\ cmd' = Idle
    /\ partial' = [v \in Variants |-> IF Moved(v) /\ cmd.left # <<>> THEN cause
                                     ELSE partial[v]]
    /\ halved' = IF cmd.name = "assemble" /\ cmd.at = "writing glue"
                 THEN halved \union {cmd.variant} ELSE halved
    /\ UNCHANGED <<rev, declared, scratch, dist, surface, package, built, assembled>>

(* The process ends between two steps. *)
Kill ==
    /\ cmd # Idle
    /\ Stop("kill")

(* renameSync refuses the next artifact, whose place in dist may be taken  *)
(* by an open file or a directory.                                         *)
MoveFails ==
    /\ cmd.name = "build" /\ cmd.at = "move" /\ cmd.left # <<>>
    /\ Exists(scratch[cmd.variant][Head(cmd.left)])
    /\ Stop("rename")

(* A read or write of assemble throws, the disk being full. *)
AssembleFails ==
    /\ cmd.name = "assemble"
    /\ Stop("write")

(* The developer checks a torn package.json out again. *)
Restore ==
    /\ cmd = Idle /\ package.mark = "torn"
    /\ package' = [mark |-> "whole", exports |-> {}, files |-> {}]
    /\ UNCHANGED <<rev, declared, scratch, dist, surface, cmd, built, assembled, history, faults>>

Step == Clear \/ ContainerSucceeds \/ Move \/ Check
            \/ NormalizeGlue \/ WriteGlue \/ WriteSurface \/ WritePackage \/ FinishAssemble

Next == \/ Edit
        \/ \E wanted \in SUBSET Variants : StartBuild(wanted)
        \/ StartAssemble
        \/ Step
        \/ Refuse \/ ContainerFails \/ MoveFails \/ AssembleFails \/ Kill \/ Restore

Spec == Init /\ [][Next]_vars

(* A started command goes on, and the developer, or a CI job, runs both    *)
(* commands again until they have succeeded.                               *)
FairSpec ==
    /\ Spec
    /\ WF_vars(Step)
    /\ SF_vars(StartBuild(declared))
    /\ SF_vars(StartAssemble)
    /\ SF_vars(Restore)

----------------------------------------------------------------------------
BuildCommand ==
    [name : {"build"}, at : {"clear", "run", "move"}, rev : 1..MaxRev,
     variant : Variants, todo : SUBSET Variants, left : Seq(Suffix)]

AssembleCommand ==
    [name : {"assemble"}, at : {"glue", "writing glue", "writing package"},
     read : Readings, variant : Variants, todo : SUBSET Variants,
     left : Seq(ToSet(ASSEMBLE_OUTPUTS))]

(* Every variable keeps its type; a variant is built once by a command.    *)
TypeOK ==
    /\ rev \in 1..MaxRev /\ declared \in (SUBSET Variants) \ {{}}
    /\ {scratch, dist} \subseteq [Variants -> [Suffix -> Content]]
    /\ surface \in [ToSet(ASSEMBLE_OUTPUTS) -> Readings]
    /\ package \in [mark : {"whole", "torn"}, exports : SUBSET Variants, files : SUBSET Variants]
    /\ cmd \in {Idle} \union BuildCommand \union AssembleCommand
    /\ cmd.name = "build" => cmd.variant \notin cmd.todo /\ cmd.rev <= rev
    /\ built \in [Variants -> 0..MaxRev] /\ assembled \in BOOLEAN
    /\ partial \in [Variants -> {"nothing", "rename", "kill"}] /\ halved \in SUBSET Variants
    /\ faults \in 0..MaxFaults

(* What a build that reported success left in dist for a variant comes     *)
(* from its own container run, whose validation passed, whatever failed or *)
(* was killed before it; only the optional symbols may be older (driver    *)
(* 262-290, cli 155-178).                                                  *)
BuiltVariantsAreWhole ==
    \A v \in Variants : built[v] # 0 =>
        /\ \A s \in Required : dist[v][s].rev = built[v]
        /\ dist[v]["build-manifest.json"].mark = "whole"

Uniform(v) == \A s, t \in Required : dist[v][s].rev = dist[v][t].rev

(* dist has a variant whose artifacts are of two revisions, or half of     *)
(* them, only while they are moved and after a move that a kill or a       *)
(* refused rename ended early, until the next move of that variant: no     *)
(* other failure, and no command about another variant, does that (driver  *)
(* 262-291).                                                               *)
OnlyCutMovesLeavePartialArtifacts ==
    \A v \in Variants : partial[v] = "nothing" => Moved(v) \/ Uniform(v)

(* Not so: "a failed build never leaves partial artifacts in dist/"        *)
(* (driver 255-257), no failure other than a kill while they are moved     *)
(* gives dist a variant whose artifacts are of two revisions, or half of   *)
(* them. TLC finds it violated by a rename that is refused after another   *)
(* one succeeded.                                                          *)
FailedBuildsLeaveNoPartialArtifacts ==
    \A v \in Variants : partial[v] # "kill" => Moved(v) \/ Uniform(v)

(* The worker reference of a threaded glue is rewritten; the glue may end  *)
(* behind it only if an assemble did not write it to its end.              *)
GlueIsDone(v) ==
    \/ dist[v]["js"].mark = "normalized"
    \/ v \in halved /\ dist[v]["js"].mark = "cut"

(* After an assemble that succeeded, every generated file tells of the     *)
(* declarations and manifests that are in dist, every threaded glue spawns *)
(* its workers by its own address and is whole unless an assemble did not  *)
(* get to write it to its end and no build has made it again, and          *)
(* package.json packs what the surface names, whatever earlier assembles   *)
(* left half written.                                                      *)
AssembledSurfaceIsCurrent ==
    assembled =>
        LET read == surface["types.d.ts"]
        IN  /\ \A f \in ToSet(ASSEMBLE_OUTPUTS) : surface[f] = read
            /\ read = Reading(DOMAIN read)
            /\ \A v \in DOMAIN read \cap Threaded : GlueIsDone(v)
            /\ package.mark = "whole" /\ package.files = DOMAIN read
            /\ DOMAIN read \subseteq package.exports

(* A package is of one revision when its variants were last built, with    *)
(* success, from that revision: what is shipped, declared and generated    *)
(* then agree.                                                             *)
ReleasedAt(r) ==
    /\ assembled /\ DOMAIN surface["types.d.ts"] # {}
    /\ \A v \in DOMAIN surface["types.d.ts"] : built[v] = r

ReleasesAreOfOneRevision ==
    \A r \in 1..MaxRev : ReleasedAt(r) =>
        \A v \in package.files :
            /\ \A s \in Required : dist[v][s].rev = r
            /\ \A f \in ToSet(ASSEMBLE_OUTPUTS) : surface[f][v] = [types |-> r, manifest |-> r]

(* Repeating both commands ends in a package of the last revision, with    *)
(* the variants it declares and whole glue, after any kills, torn files    *)
(* and failures.                                                           *)
EventuallyReleased ==
    []<>(/\ ReleasedAt(rev) /\ package.files = declared
         /\ \A v \in declared \cap Threaded : dist[v]["js"].mark = "normalized")

=============================================================================
