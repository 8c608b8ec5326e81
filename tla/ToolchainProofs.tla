--------------------------- MODULE ToolchainProofs ---------------------------
(***************************************************************************)
(* Proofs about packages/toolchain, in two parts.                          *)
(*                                                                         *)
(* ToolchainBuild: what dist and package.json hold after `libcascade       *)
(* build` and `assemble`, for any variants, any edits and any number of    *)
(* kills and failures.                                                     *)
(*                                                                         *)
(* ConfigMigration: what `libcascade migrate` promises, for any number of  *)
(* builds, any flags and any choice of the base: the loader merges every   *)
(* build back, the raw flags of a build reach its yml and no other, and    *)
(* migrating what is rendered gives the same configuration again.          *)
(***************************************************************************)
EXTENDS ToolchainBuild, ConfigMigration, SequenceTheorems, FiniteSetTheorems,
        TLAPS

-----------------------------------------------------------------------------
(* ToolchainBuild.                                                         *)

Distinct(s) == \A i, j \in DOMAIN s : s[i] = s[j] => i = j

(* As the container of a build of this revision writes it. *)
Fresh(content, r) == content.rev = r /\ content.mark \in {"whole", "failed"}

(* While the artifacts of a variant are moved, each required one is either *)
(* still in the scratch directory or in dist, as the container made it.    *)
Moving ==
    cmd.name = "build" /\ cmd.at = "move" =>
        /\ Distinct(cmd.left)
        /\ \A s \in Required :
              Fresh(IF s \in ToSet(cmd.left) THEN scratch[cmd.variant][s]
                    ELSE dist[cmd.variant][s], cmd.rev)

(* The variants that a build has not finished count as not built. *)
Unfinished ==
    cmd.name = "build" => \A v \in cmd.todo \union {cmd.variant} : built[v] = 0

(* Only an assemble that was interrupted leaves a glue that ends early. *)
Writing(v) == cmd.name = "assemble" /\ cmd.at = "writing glue" /\ cmd.variant = v
CutGlue ==
    \A v \in Variants : dist[v]["js"].mark = "cut" => v \in halved \/ Writing(v)

(* What assemble has read is still in dist, and what it has passed is done. *)
Assembling ==
    cmd.name = "assemble" =>
        /\ cmd.read = Reading(DOMAIN cmd.read) /\ DOMAIN cmd.read \subseteq Variants
        /\ \A f \in ToSet(ASSEMBLE_OUTPUTS) \ ToSet(cmd.left) : surface[f] = cmd.read
        /\ \A v \in DOMAIN cmd.read \cap Threaded :
              \/ v \in cmd.todo
              \/ cmd.at = "writing glue" /\ v = cmd.variant
              \/ GlueIsDone(v)
        /\ cmd.at = "writing package" => cmd.todo = {} /\ cmd.left = <<>>

AssembledAtRest == assembled => cmd = Idle

IInv ==
    /\ TypeOK /\ Moving /\ Unfinished /\ BuiltVariantsAreWhole
    /\ OnlyCutMovesLeavePartialArtifacts /\ CutGlue
    /\ Assembling /\ AssembledAtRest /\ AssembledSurfaceIsCurrent
----------------------------------------------------------------------------
USE DEF history

(* The head of a sequence and the rest of it. *)
LEMMA HeadAndTail ==
    ASSUME NEW S, NEW s \in Seq(S), s # <<>>
    PROVE  /\ Head(s) \in S /\ Tail(s) \in Seq(S)
           /\ ToSet(s) = {Head(s)} \union ToSet(Tail(s))
           /\ Distinct(s) => Distinct(Tail(s)) /\ Head(s) \notin ToSet(Tail(s))
<1>1. /\ Head(s) \in S /\ Tail(s) \in Seq(S)
      /\ Len(Tail(s)) = Len(s) - 1
      /\ \A i \in 1 .. Len(Tail(s)) : Tail(s)[i] = s[i + 1]
  BY HeadTailProperties
<1>2. Len(s) \in Nat \ {0} /\ DOMAIN s = 1 .. Len(s) /\ Head(s) = s[1]
  OBVIOUS
<1>3. DOMAIN Tail(s) = 1 .. (Len(s) - 1)
  BY <1>1
<1>4. ToSet(s) \subseteq {Head(s)} \union ToSet(Tail(s))
  <2>1. SUFFICES ASSUME NEW i \in DOMAIN s, i # 1 PROVE s[i] \in ToSet(Tail(s))
    BY <1>2 DEF ToSet
  <2>2. i - 1 \in DOMAIN Tail(s) /\ (i - 1) + 1 = i
    BY <1>2, <1>3, <2>1
  <2>3. Tail(s)[i - 1] = s[i]
    BY <1>1, <1>3, <2>2
  <2> QED BY <2>2, <2>3 DEF ToSet
<1>5. {Head(s)} \union ToSet(Tail(s)) \subseteq ToSet(s)
  <2>1. Head(s) \in ToSet(s)
    BY <1>2 DEF ToSet
  <2>2. \A i \in DOMAIN Tail(s) : i + 1 \in DOMAIN s /\ Tail(s)[i] = s[i + 1]
    BY <1>1, <1>2, <1>3
  <2> QED BY <2>1, <2>2 DEF ToSet
<1>6. ASSUME Distinct(s)
      PROVE  Distinct(Tail(s)) /\ Head(s) \notin ToSet(Tail(s))
  <2>1. \A i \in DOMAIN Tail(s) : /\ i \in Nat \ {0} /\ i + 1 \in DOMAIN s
                                  /\ Tail(s)[i] = s[i + 1]
    BY <1>1, <1>2, <1>3
  <2>2. ASSUME NEW i \in DOMAIN Tail(s), NEW j \in DOMAIN Tail(s), Tail(s)[i] = Tail(s)[j]
        PROVE  i = j
    <3>1. i + 1 = j + 1
      BY <1>6, <2>1, <2>2 DEF Distinct
    <3> QED BY <2>1, <3>1
  <2>3. \A i \in DOMAIN Tail(s) : Tail(s)[i] # Head(s)
    <3>1. SUFFICES ASSUME NEW i \in DOMAIN Tail(s), Tail(s)[i] = s[1]
                   PROVE  FALSE
      BY <1>2
    <3>2. i + 1 = 1
      BY <1>2, <1>6, <2>1, <3>1 DEF Distinct
    <3> QED BY <2>1, <3>2
  <2> QED BY <2>2, <2>3 DEF Distinct, ToSet
<1> QED BY <1>1, <1>4, <1>5, <1>6

(* The lists of files that both commands work through. *)
LEMMA FileLists ==
    /\ ARTIFACT_SUFFIXES \in Seq(Suffix) /\ Distinct(ARTIFACT_SUFFIXES)
    /\ ASSEMBLE_OUTPUTS \in Seq(ToSet(ASSEMBLE_OUTPUTS))
    /\ "types.d.ts" \in ToSet(ASSEMBLE_OUTPUTS)
    /\ Required \subseteq Suffix
    /\ {"js", "d.ts", "build-manifest.json"} \subseteq Required
    /\ "js" # "build-manifest.json"
<1>1. /\ Len(ARTIFACT_SUFFIXES) = 6 /\ Len(ASSEMBLE_OUTPUTS) = 3
      /\ DOMAIN ARTIFACT_SUFFIXES = 1 .. 6 /\ DOMAIN ASSEMBLE_OUTPUTS = 1 .. 3
  BY DEF ARTIFACT_SUFFIXES, ASSEMBLE_OUTPUTS
<1>2. /\ ARTIFACT_SUFFIXES[1] = "js" /\ ARTIFACT_SUFFIXES[2] = "wasm"
      /\ ARTIFACT_SUFFIXES[3] = "d.ts" /\ ARTIFACT_SUFFIXES[4] = "js.symbols"
      /\ ARTIFACT_SUFFIXES[5] = "provenance.json"
      /\ ARTIFACT_SUFFIXES[6] = "build-manifest.json" /\ ASSEMBLE_OUTPUTS[1] = "types.d.ts"
  BY DEF ARTIFACT_SUFFIXES, ASSEMBLE_OUTPUTS
<1>3. /\ ARTIFACT_SUFFIXES \in Seq(Suffix)
      /\ ASSEMBLE_OUTPUTS \in Seq(ToSet(ASSEMBLE_OUTPUTS))
  <2>1. ARTIFACT_SUFFIXES \in [1 .. 6 -> Suffix]
    <3>1. ARTIFACT_SUFFIXES = [i \in 1 .. 6 |-> ARTIFACT_SUFFIXES[i]]
      BY DEF ARTIFACT_SUFFIXES
    <3>2. \A i \in 1 .. 6 : ARTIFACT_SUFFIXES[i] \in Suffix
      BY <1>1 DEF Suffix, ToSet
    <3> QED BY <3>1, <3>2
  <2>2. ASSEMBLE_OUTPUTS \in [1 .. 3 -> ToSet(ASSEMBLE_OUTPUTS)]
    <3>1. ASSEMBLE_OUTPUTS = [i \in 1 .. 3 |-> ASSEMBLE_OUTPUTS[i]]
      BY DEF ASSEMBLE_OUTPUTS
    <3>2. \A i \in 1 .. 3 : ASSEMBLE_OUTPUTS[i] \in ToSet(ASSEMBLE_OUTPUTS)
      BY <1>1 DEF ToSet
    <3> QED BY <3>1, <3>2
  <2> QED BY <2>1, <2>2, SeqDef
<1>4. Distinct(ARTIFACT_SUFFIXES)
  BY <1>1, <1>2 DEF Distinct
<1>5. /\ "types.d.ts" \in ToSet(ASSEMBLE_OUTPUTS)
      /\ {"js", "d.ts", "build-manifest.json"} \subseteq Suffix
  BY <1>1, <1>2 DEF ToSet, Suffix
<1> QED BY <1>3, <1>4, <1>5 DEF Required

(* A running command is one of the two, and Idle is neither. *)
LEMMA Commands ==
    ASSUME TypeOK
    PROVE  /\ cmd.name = "build" => cmd \in BuildCommand
           /\ cmd.name = "assemble" => cmd \in AssembleCommand
           /\ Idle.name = "idle"
<1>1. cmd \in {Idle} \union BuildCommand \union AssembleCommand
  BY DEF TypeOK
<1>2. /\ \A c \in BuildCommand : c.name = "build"
      /\ \A c \in AssembleCommand : c.name = "assemble"
  BY DEF BuildCommand, AssembleCommand
<1>3. Idle.name = "idle"
  BY DEF Idle
<1> QED BY <1>1, <1>2, <1>3

LEMMA Contents ==
    /\ Nothing \in Content /\ NoFiles \in [Suffix -> Content]
    /\ \A r \in 1 .. MaxRev : File(r) \in Content /\ Fresh(File(r), r)
    /\ \A content, r : Fresh(content, r) => Exists(content) /\ content.mark # "cut"
<1>1. Nothing \in Content
  BY ToolchainAssumption DEF Nothing, Content
<1>2. \A r \in 1 .. MaxRev : File(r) \in Content /\ Fresh(File(r), r)
  BY DEF File, Content, Fresh
<1>3. \A content, r : Fresh(content, r) => Exists(content) /\ content.mark # "cut"
  BY DEF Fresh, Exists, Nothing
<1> QED BY <1>1, <1>2, <1>3 DEF NoFiles

(* What a container leaves: whole files, or a manifest with its verdict.   *)
LEMMA OutputsAre ==
    ASSUME cmd.rev \in 1 .. MaxRev, NEW made, NEW verdict \in {"whole", "failed"}
    PROVE  /\ Outputs(made, verdict) \in [Suffix -> Content]
           /\ \A s \in Suffix \cap made : Fresh(Outputs(made, verdict)[s], cmd.rev)
<1>1. [rev |-> cmd.rev, mark |-> verdict] \in Content
  BY DEF Content
<1>2. Fresh([rev |-> cmd.rev, mark |-> verdict], cmd.rev)
  BY DEF Fresh
<1>3. ASSUME NEW s \in Suffix
      PROVE  /\ Outputs(made, verdict)[s] \in Content
             /\ s \in made => Fresh(Outputs(made, verdict)[s], cmd.rev)
  <2>1. Outputs(made, verdict)[s] = IF s \notin made THEN Nothing
                                    ELSE IF s # "build-manifest.json" THEN File(cmd.rev)
                                    ELSE [rev |-> cmd.rev, mark |-> verdict]
    BY DEF Outputs
  <2> QED BY <1>1, <1>2, <2>1, Contents
<1>4. Outputs(made, verdict) = [s \in Suffix |-> Outputs(made, verdict)[s]]
  BY DEF Outputs
<1> QED BY <1>3, <1>4

(* The initial states have the invariant. *)
LEMMA InitIsSound == Init => IInv
<1> SUFFICES ASSUME Init PROVE IInv
  OBVIOUS
<1>1. TypeOK
  <2>1. Unread \in Readings
    <3>1. Unread \in [{} -> [types : 0..MaxRev, manifest : 0..MaxRev]]
      BY DEF Unread
    <3> QED BY <3>1 DEF Readings
  <2>2. {scratch, dist} \subseteq [Variants -> [Suffix -> Content]]
    BY Contents DEF Init
  <2>3. surface \in [ToSet(ASSEMBLE_OUTPUTS) -> Readings]
    BY <2>1 DEF Init
  <2>4. package \in [mark : {"whole", "torn"}, exports : SUBSET Variants, files : SUBSET Variants]
    BY DEF Init
  <2>5. cmd = Idle /\ cmd.name # "build"
    BY DEF Init, Idle
  <2>6. built \in [Variants -> 0..MaxRev]
    BY ToolchainAssumption DEF Init
  <2>7. rev \in 1..MaxRev /\ faults \in 0..MaxFaults
    BY ToolchainAssumption DEF Init
  <2>8. partial \in [Variants -> {"nothing", "rename", "kill"}] /\ halved \in SUBSET Variants
    BY DEF Init
  <2> QED BY <2>2, <2>3, <2>4, <2>5, <2>6, <2>7, <2>8 DEF TypeOK, Init
<1>2. cmd.name = "idle" /\ cmd = Idle /\ assembled = FALSE
  BY DEF Init, Idle
<1>3. BuiltVariantsAreWhole
  BY DEF BuiltVariantsAreWhole, Init
<1>4. OnlyCutMovesLeavePartialArtifacts
  <2>1. \A v \in Variants : \A s \in Required : dist[v][s] = Nothing
    BY FileLists DEF Init, NoFiles
  <2> QED BY <2>1 DEF OnlyCutMovesLeavePartialArtifacts, Uniform
<1>5. CutGlue
  <2>1. \A v \in Variants : dist[v]["js"] = Nothing
    BY FileLists DEF Init, NoFiles
  <2> QED BY <2>1 DEF CutGlue, Nothing
<1> QED BY <1>1, <1>2, <1>3, <1>4, <1>5
        DEF IInv, Moving, Unfinished, Assembling, AssembledAtRest,
            AssembledSurfaceIsCurrent

(* Starting a build: what it will build no longer counts as built. *)
LEMMA StartBuildIsSound ==
    ASSUME IInv, NEW wanted \in SUBSET Variants, StartBuild(wanted)
    PROVE  IInv'
<1>1. PICK v \in wanted :
        cmd' = [name |-> "build", at |-> "clear", rev |-> rev, variant |-> v,
                todo |-> wanted \ {v}, left |-> <<>>]
  BY DEF StartBuild
<1>2. /\ cmd'.name = "build" /\ cmd'.at = "clear" /\ cmd'.variant = v
      /\ cmd'.todo = wanted \ {v} /\ cmd'.rev = rev
  BY <1>1
<1>3. TypeOK'
  <2>1. cmd' \in BuildCommand
    BY <1>1 DEF IInv, TypeOK, BuildCommand
  <2>2. built' \in [Variants -> 0..MaxRev]
    BY ToolchainAssumption DEF IInv, TypeOK, StartBuild
  <2>3. rev \in Int
    BY DEF IInv, TypeOK
  <2>4. cmd'.variant \notin cmd'.todo /\ cmd'.rev <= rev
    BY <1>2, <2>3
  <2>5. UNCHANGED <<rev, declared, scratch, dist, surface, package, history, faults>> /\ assembled' = FALSE
    BY DEF StartBuild
  <2>6. TypeOK
    BY DEF IInv
  <2> QED BY <2>1, <2>2, <2>4, <2>5, <2>6 DEF TypeOK
<1>4. BuiltVariantsAreWhole'
  BY DEF IInv, TypeOK, BuiltVariantsAreWhole, StartBuild
<1>5. Unfinished'
  BY <1>2 DEF Unfinished, StartBuild
<1>6. OnlyCutMovesLeavePartialArtifacts' /\ CutGlue'
  <2>1. cmd.name = "idle"
    BY DEF StartBuild, Idle
  <2>2. \A u \in Variants : ~ Moved(u) /\ ~ Writing(u)
    BY <2>1 DEF Moved, Writing
  <2>3. UNCHANGED <<dist, partial, halved>>
    BY DEF StartBuild
  <2>4. OnlyCutMovesLeavePartialArtifacts'
    BY <2>2, <2>3 DEF IInv, OnlyCutMovesLeavePartialArtifacts, Uniform
  <2> QED BY <2>2, <2>3, <2>4 DEF IInv, CutGlue
<1> QED BY <1>2, <1>3, <1>4, <1>5, <1>6
        DEF IInv, Moving, Assembling, AssembledAtRest,
            AssembledSurfaceIsCurrent, StartBuild

(* The steps that end a command, or start nothing, and leave the files alone. *)
LEMMA StoppingIsSound ==
    ASSUME IInv, cmd' = Idle, ~ assembled',
           UNCHANGED <<rev, declared, dist, surface, package, built>>,
           scratch' \in [Variants -> [Suffix -> Content]], assembled' \in BOOLEAN,
           partial' \in [Variants -> {"nothing", "rename", "kill"}],
           halved' \in SUBSET Variants, faults' \in 0 .. MaxFaults,
           \A v \in Variants : partial'[v] = "nothing" => Uniform(v),
           \A v \in Variants : dist[v]["js"].mark = "cut" => v \in halved'
    PROVE  IInv'
<1>1. cmd'.name = "idle"
  BY DEF Idle
<1>2. TypeOK'
  <2>1. TypeOK
    BY DEF IInv
  <2> QED BY <1>1, <2>1 DEF TypeOK
<1>3. BuiltVariantsAreWhole'
  BY DEF IInv, BuiltVariantsAreWhole
<1>4. OnlyCutMovesLeavePartialArtifacts' /\ CutGlue'
  BY DEF OnlyCutMovesLeavePartialArtifacts, Uniform, CutGlue
<1> QED BY <1>1, <1>2, <1>3, <1>4
        DEF IInv, Moving, Unfinished, Assembling, AssembledAtRest,
            AssembledSurfaceIsCurrent

(* A command that stops without having moved or written anything.          *)
LEMMA GivingUpIsSound ==
    ASSUME IInv, cmd' = Idle, ~ assembled',
           cmd.name = "build" => cmd.at # "move",
           cmd.name = "assemble" => cmd.at # "writing glue",
           UNCHANGED <<rev, declared, dist, surface, package, built, partial, halved>>,
           scratch' \in [Variants -> [Suffix -> Content]], assembled' \in BOOLEAN,
           faults' \in 0 .. MaxFaults
    PROVE  IInv'
<1>1. \A v \in Variants : ~ Moved(v) /\ ~ Writing(v)
  BY DEF Moved, Writing
<1>2. \A v \in Variants : partial'[v] = "nothing" => Uniform(v)
  BY <1>1 DEF IInv, OnlyCutMovesLeavePartialArtifacts
<1>3. \A v \in Variants : dist[v]["js"].mark = "cut" => v \in halved'
  BY <1>1 DEF IInv, CutGlue
<1>4. /\ partial' \in [Variants -> {"nothing", "rename", "kill"}]
      /\ halved' \in SUBSET Variants
  BY DEF IInv, TypeOK
<1> QED BY <1>2, <1>3, <1>4, StoppingIsSound

LEMMA ClearIsSound == ASSUME IInv, Clear PROVE IInv'
<1>1. cmd \in BuildCommand /\ cmd' = [cmd EXCEPT !.at = "run"] /\ cmd # Idle
  BY Commands DEF IInv, Clear
<1>2. /\ cmd'.name = "build" /\ cmd'.at = "run" /\ cmd'.variant = cmd.variant
      /\ cmd'.todo = cmd.todo /\ cmd'.rev = cmd.rev /\ cmd' \in BuildCommand
  BY <1>1 DEF BuildCommand, Clear
<1>3. TypeOK'
  <2>1. TypeOK /\ scratch' \in [Variants -> [Suffix -> Content]]
    BY <1>1, Contents DEF IInv, TypeOK, BuildCommand, Clear
  <2> QED BY <1>2, <2>1 DEF TypeOK, Clear
<1>4. OnlyCutMovesLeavePartialArtifacts' /\ CutGlue'
  <2>1. \A v \in Variants : ~ Moved(v) /\ ~ Writing(v)
    BY DEF Moved, Writing, Clear
  <2>2. UNCHANGED <<dist, partial, halved>>
    BY DEF Clear
  <2>3. OnlyCutMovesLeavePartialArtifacts'
    BY <2>1, <2>2 DEF IInv, OnlyCutMovesLeavePartialArtifacts, Uniform
  <2> QED BY <2>1, <2>2, <2>3 DEF IInv, CutGlue
<1>5. BuiltVariantsAreWhole' /\ Unfinished'
  BY <1>2 DEF IInv, BuiltVariantsAreWhole, Unfinished, Clear
<1>6. ~ assembled'
  BY <1>1 DEF IInv, AssembledAtRest, Clear
<1> QED BY <1>2, <1>3, <1>4, <1>5, <1>6
        DEF IInv, Moving, Assembling, AssembledAtRest, AssembledSurfaceIsCurrent

LEMMA ContainerSucceedsIsSound == ASSUME IInv, ContainerSucceeds PROVE IInv'
<1>1. PICK made \in {Required, Suffix}, verdict \in {"whole", "failed"} :
        /\ scratch' = [scratch EXCEPT ![cmd.variant] = Outputs(made, verdict)]
        /\ IF verdict = "whole" THEN UNCHANGED faults ELSE Faulty
  BY DEF ContainerSucceeds
<1>2. /\ cmd \in BuildCommand /\ cmd # Idle
      /\ cmd' = [cmd EXCEPT !.at = "move", !.left = ARTIFACT_SUFFIXES]
  BY Commands DEF IInv, ContainerSucceeds
<1>3. /\ cmd'.name = "build" /\ cmd'.at = "move" /\ cmd'.variant = cmd.variant
      /\ cmd'.left = ARTIFACT_SUFFIXES
      /\ cmd'.todo = cmd.todo /\ cmd'.rev = cmd.rev /\ cmd' \in BuildCommand
  BY <1>2, FileLists DEF BuildCommand, ContainerSucceeds
<1>4. cmd.variant \in Variants /\ cmd.rev \in 1 .. MaxRev
  BY <1>2 DEF BuildCommand
<1>5. TypeOK'
  <2>1. TypeOK /\ scratch' \in [Variants -> [Suffix -> Content]]
    BY <1>1, <1>4, OutputsAre DEF IInv, TypeOK
  <2>2. faults' \in 0 .. MaxFaults
    BY <1>1, <2>1, ToolchainAssumption DEF TypeOK, Faulty
  <2>3. partial' \in [Variants -> {"nothing", "rename", "kill"}]
    BY <1>4, <2>1 DEF TypeOK, ContainerSucceeds
  <2> QED BY <1>3, <2>1, <2>2, <2>3 DEF TypeOK, ContainerSucceeds
<1>6. Moving'
  <2>1. \A s \in Required : s \in ToSet(ARTIFACT_SUFFIXES) /\ s \in Suffix \cap made
    BY FileLists DEF Suffix
  <2>2. \A s \in Required : Fresh(scratch'[cmd.variant][s], cmd.rev)
    <3>1. scratch'[cmd.variant] = Outputs(made, verdict)
      BY <1>1, <1>4 DEF IInv, TypeOK
    <3> QED BY <1>4, <2>1, <3>1, OutputsAre
  <2> QED BY <1>3, <2>1, <2>2, FileLists DEF Moving
<1>7. OnlyCutMovesLeavePartialArtifacts' /\ CutGlue'
  <2>1. \A v \in Variants : ~ Moved(v) /\ ~ Writing(v)
    BY DEF Moved, Writing, ContainerSucceeds
  <2>2. /\ UNCHANGED <<dist, halved>>
        /\ partial' = [partial EXCEPT ![cmd.variant] = "nothing"]
    BY DEF ContainerSucceeds
  <2>3. \A v \in Variants : v # cmd.variant => partial'[v] = partial[v]
    BY <2>2 DEF IInv, TypeOK
  <2>4. \A v \in Variants : v = cmd.variant => Moved(v)'
    BY <1>3 DEF Moved
  <2>5. OnlyCutMovesLeavePartialArtifacts'
    <3>1. ASSUME NEW v \in Variants, partial'[v] = "nothing", v # cmd.variant
          PROVE  Uniform(v)'
      BY <2>1, <2>2, <2>3, <3>1 DEF IInv, OnlyCutMovesLeavePartialArtifacts, Uniform
    <3> QED BY <2>4, <3>1 DEF OnlyCutMovesLeavePartialArtifacts
  <2> QED BY <2>1, <2>2, <2>5 DEF IInv, CutGlue
<1>8. BuiltVariantsAreWhole' /\ Unfinished'
  BY <1>3 DEF IInv, BuiltVariantsAreWhole, Unfinished, ContainerSucceeds
<1>9. ~ assembled'
  BY <1>2 DEF IInv, AssembledAtRest, ContainerSucceeds
<1> QED BY <1>3, <1>5, <1>6, <1>7, <1>8, <1>9
        DEF IInv, Assembling, AssembledAtRest, AssembledSurfaceIsCurrent

(* A failing container leaves its files in the scratch directory. *)
LEMMA ContainerFailsIsSound == ASSUME IInv, ContainerFails PROVE IInv'
<1>1. PICK n \in 0 .. Len(ARTIFACT_SUFFIXES), verdict \in {"whole", "failed"} :
        scratch' = [scratch EXCEPT ![cmd.variant] =
                      Outputs(ToSet(SubSeq(ARTIFACT_SUFFIXES, 1, n)), verdict)]
  BY DEF ContainerFails
<1>2. cmd.variant \in Variants /\ cmd.rev \in 1 .. MaxRev /\ cmd.name = "build"
  BY Commands DEF IInv, ContainerFails, BuildCommand
<1>3. scratch' \in [Variants -> [Suffix -> Content]]
  BY <1>1, <1>2, OutputsAre DEF IInv, TypeOK
<1>4. ~ assembled
  BY DEF IInv, AssembledAtRest, ContainerFails, Idle
<1>5. faults' \in 0 .. MaxFaults
  BY ToolchainAssumption DEF IInv, TypeOK, ContainerFails, Faulty
<1> QED BY <1>2, <1>3, <1>4, <1>5, GivingUpIsSound DEF ContainerFails, IInv, TypeOK

LEMMA RefuseIsSound == ASSUME IInv, Refuse PROVE IInv'
<1>1. cmd.name = "build" /\ cmd.at # "move"
  BY DEF Refuse
<1>2. ~ assembled
  BY DEF IInv, AssembledAtRest, Refuse, Idle
<1>3. faults' \in 0 .. MaxFaults
  BY ToolchainAssumption DEF IInv, TypeOK, Refuse, Faulty
<1> QED BY <1>1, <1>2, <1>3, GivingUpIsSound DEF Refuse, IInv, TypeOK

(* A move that ends early is noted, and so is the glue that was written.   *)
LEMMA StopIsSound ==
    ASSUME IInv, cmd # Idle, NEW cause, Stop(cause),
           cmd.name = "build" => cause \in {"rename", "kill"}
    PROVE  IInv'
<1>1. /\ cmd' = Idle /\ UNCHANGED <<rev, declared, scratch, dist, surface, package, built, assembled>>
      /\ partial' = [v \in Variants |-> IF Moved(v) /\ cmd.left # <<>> THEN cause
                                        ELSE partial[v]]
      /\ halved' = IF cmd.name = "assemble" /\ cmd.at = "writing glue"
                   THEN halved \union {cmd.variant} ELSE halved
  BY DEF Stop
<1>2. TypeOK /\ ~ assembled
  BY DEF IInv, AssembledAtRest
<1>3. faults' \in 0 .. MaxFaults
  <2>1. faults < MaxFaults /\ faults' = faults + 1
    BY DEF Stop, Faulty
  <2>2. faults \in 0 .. MaxFaults
    BY <1>2 DEF TypeOK
  <2> QED BY <2>1, <2>2, ToolchainAssumption
<1>4. partial' \in [Variants -> {"nothing", "rename", "kill"}]
  BY <1>1, <1>2 DEF TypeOK, Moved
<1>5. halved' \in SUBSET Variants
  <2>1. cmd.name = "assemble" => cmd.variant \in Variants
    BY <1>2, Commands DEF AssembleCommand
  <2> QED BY <1>1, <1>2, <2>1 DEF TypeOK
<1>6. \A v \in Variants : partial'[v] = "nothing" => Uniform(v)
  <2>1. SUFFICES ASSUME NEW v \in Variants, partial'[v] = "nothing" PROVE Uniform(v)
    OBVIOUS
  <2>2. CASE Moved(v) /\ cmd.left = <<>>
    <3>1. ToSet(cmd.left) = {}
      BY <2>2 DEF ToSet
    <3>2. \A s \in Required : dist[v][s].rev = cmd.rev
      BY <2>2, <3>1 DEF IInv, Moving, Moved, Fresh
    <3> QED BY <3>2 DEF Uniform
  <2>3. CASE Moved(v) /\ cmd.left # <<>>
    <3>1. partial'[v] = cause /\ cause # "nothing"
      BY <1>1, <2>3 DEF Moved
    <3> QED BY <2>1, <3>1
  <2>4. CASE ~ Moved(v)
    BY <1>1, <2>1, <2>4 DEF IInv, OnlyCutMovesLeavePartialArtifacts
  <2> QED BY <2>2, <2>3, <2>4
<1>7. \A v \in Variants : dist[v]["js"].mark = "cut" => v \in halved'
  BY <1>1 DEF IInv, CutGlue, Writing
<1> QED BY <1>1, <1>2, <1>3, <1>4, <1>5, <1>6, <1>7, StoppingIsSound DEF TypeOK

LEMMA KillIsSound == ASSUME IInv, Kill PROVE IInv'
  BY StopIsSound DEF Kill

LEMMA MoveFailsIsSound == ASSUME IInv, MoveFails PROVE IInv'
  BY StopIsSound DEF MoveFails, Idle

LEMMA AssembleFailsIsSound == ASSUME IInv, AssembleFails PROVE IInv'
  BY StopIsSound DEF AssembleFails, Idle

(* A rename takes one artifact from the scratch directory to dist. *)
LEMMA MoveIsSound == ASSUME IInv, Move PROVE IInv'
<1> DEFINE v == cmd.variant
           a == Head(cmd.left)
<1>1. /\ cmd \in BuildCommand /\ cmd # Idle /\ cmd' = [cmd EXCEPT !.left = Tail(cmd.left)]
      /\ cmd.name = "build" /\ cmd.at = "move" /\ cmd.left # <<>>
  BY Commands DEF IInv, Move
<1>2. v \in Variants /\ cmd.rev \in 1 .. MaxRev /\ cmd.left \in Seq(Suffix)
  BY <1>1 DEF BuildCommand
<1>3. /\ a \in Suffix /\ Tail(cmd.left) \in Seq(Suffix)
      /\ ToSet(cmd.left) = {a} \union ToSet(Tail(cmd.left))
      /\ Distinct(Tail(cmd.left)) /\ a \notin ToSet(Tail(cmd.left))
  <2>1. Distinct(cmd.left)
    BY <1>1 DEF IInv, Moving
  <2> QED BY <1>1, <1>2, <2>1, HeadAndTail
<1>4. /\ cmd'.name = "build" /\ cmd'.at = "move" /\ cmd'.variant = v
      /\ cmd'.left = Tail(cmd.left)
      /\ cmd'.todo = cmd.todo /\ cmd'.rev = cmd.rev /\ cmd' \in BuildCommand
  BY <1>1, <1>3 DEF BuildCommand
<1>5. {scratch, dist} \subseteq [Variants -> [Suffix -> Content]]
  BY DEF IInv, TypeOK
<1>6. /\ {scratch', dist'} \subseteq [Variants -> [Suffix -> Content]]
      /\ \A s \in Suffix \ {a} : scratch'[v][s] = scratch[v][s] /\ dist'[v][s] = dist[v][s]
      /\ \A u \in Variants \ {v} : dist'[u] = dist[u]
      /\ Exists(scratch[v][a]) =>
           /\ dist'[v][a] = scratch[v][a]
           /\ halved' = IF a = "js" THEN halved \ {v} ELSE halved
      /\ ~ Exists(scratch[v][a]) => dist' = dist /\ halved' = halved
  <2>1. CASE Exists(scratch[v][a])
    <3>1. /\ dist' = [dist EXCEPT ![v][a] = scratch[v][a]]
          /\ scratch' = [scratch EXCEPT ![v][a] = Nothing]
          /\ halved' = IF a = "js" THEN halved \ {v} ELSE halved
      BY <2>1 DEF Move
    <3>2. scratch[v][a] \in Content /\ Nothing \in Content
      BY <1>2, <1>3, <1>5, Contents
    <3> QED BY <1>2, <1>3, <1>5, <2>1, <3>1, <3>2
  <2>2. CASE ~ Exists(scratch[v][a])
    <3>1. dist' = dist /\ scratch' = scratch /\ halved' = halved
      BY <2>2 DEF Move
    <3> QED BY <1>5, <2>2, <3>1
  <2> QED BY <2>1, <2>2
<1>7. TypeOK'
  <2>1. TypeOK
    BY DEF IInv
  <2>2. halved' \in SUBSET Variants
    BY <1>6, <2>1 DEF TypeOK
  <2> QED BY <1>4, <1>6, <2>1, <2>2 DEF TypeOK, Move
<1>8. Moving'
  <2>1. ASSUME NEW s \in Required
        PROVE  Fresh(IF s \in ToSet(Tail(cmd.left)) THEN scratch'[v][s] ELSE dist'[v][s], cmd.rev)
    <3>1. s \in Suffix
      BY FileLists
    <3>2. Fresh(IF s \in ToSet(cmd.left) THEN scratch[v][s] ELSE dist[v][s], cmd.rev)
      BY <1>1 DEF IInv, Moving
    <3>3. CASE s = a
      BY <1>2, <1>3, <1>6, <3>2, <3>3, Contents
    <3>4. CASE s # a
      BY <1>3, <1>6, <3>1, <3>2, <3>4
    <3> QED BY <3>3, <3>4
  <2> QED BY <1>3, <1>4, <2>1 DEF Moving
<1>9. built[v] = 0 /\ built' = built /\ partial' = partial
  BY <1>1 DEF IInv, Unfinished, Move
<1>10. BuiltVariantsAreWhole' /\ Unfinished'
  <2>1. BuiltVariantsAreWhole'
    <3>1. ASSUME NEW u \in Variants, built[u] # 0
          PROVE  /\ \A s \in Required : dist'[u][s].rev = built[u]
                 /\ dist'[u]["build-manifest.json"].mark = "whole"
      BY <1>6, <1>9, <3>1 DEF IInv, BuiltVariantsAreWhole
    <3> QED BY <1>9, <3>1 DEF BuiltVariantsAreWhole
  <2>2. Unfinished'
    BY <1>1, <1>4, <1>9 DEF IInv, Unfinished
  <2> QED BY <2>1, <2>2
<1>11. OnlyCutMovesLeavePartialArtifacts' /\ CutGlue'
  <2>1. \A u \in Variants : (u # v => ~ Moved(u)) /\ ~ Writing(u)
    BY <1>1 DEF Moved, Writing
  <2>2. \A u \in Variants : u = v => Moved(u)'
    BY <1>4 DEF Moved
  <2> HIDE DEF v
  <2>3. ASSUME NEW u \in Variants, u # v, partial[u] = "nothing" PROVE Uniform(u)'
    <3>1. Uniform(u)
      BY <2>1, <2>3 DEF IInv, OnlyCutMovesLeavePartialArtifacts
    <3> QED BY <1>6, <2>3, <3>1 DEF Uniform
  <2>4. OnlyCutMovesLeavePartialArtifacts'
    BY <1>9, <2>2, <2>3 DEF OnlyCutMovesLeavePartialArtifacts
  <2>5. ASSUME NEW u \in Variants, dist'[u]["js"].mark = "cut" PROVE u \in halved'
    <3>1. "js" \in Required /\ "js" \in Suffix
      BY FileLists
    <3>2. CASE dist'[u]["js"] = dist[u]["js"] /\ (u # v \/ halved' = halved)
      <4>1. u \in halved
        BY <2>1, <2>5, <3>2 DEF IInv, CutGlue
      <4> QED BY <1>6, <3>2, <4>1
    <3>3. CASE u = v /\ a = "js" /\ Exists(scratch[v][a])
      <4>1. Fresh(scratch[v]["js"], cmd.rev)
        BY <1>1, <1>3, <3>1, <3>3 DEF IInv, Moving, v
      <4>2. dist'[u]["js"] = scratch[v]["js"]
        BY <1>6, <3>3
      <4> QED BY <2>5, <4>1, <4>2, Contents
    <3> QED BY <1>6, <3>1, <3>2, <3>3
  <2> QED BY <2>4, <2>5 DEF CutGlue
<1>12. ~ assembled'
  BY <1>1 DEF IInv, AssembledAtRest, Move
<1> QED BY <1>4, <1>7, <1>8, <1>10, <1>11, <1>12
        DEF IInv, Assembling, AssembledAtRest, AssembledSurfaceIsCurrent

(* After the last rename every required artifact is of this build. *)
LEMMA CheckIsSound == ASSUME IInv, Check PROVE IInv'
<1> DEFINE v == cmd.variant
<1>1. /\ cmd \in BuildCommand /\ cmd # Idle /\ cmd.name = "build" /\ cmd.at = "move"
      /\ cmd.left = <<>> /\ v \in Variants /\ cmd.rev \in 1 .. MaxRev
      /\ v \notin cmd.todo /\ cmd.rev <= rev /\ rev \in 1 .. MaxRev
  <2>1. /\ TypeOK /\ cmd \in BuildCommand /\ cmd.name = "build" /\ cmd.at = "move"
        /\ cmd.left = <<>>
    BY Commands DEF IInv, Check
  <2>2. v \in Variants /\ cmd.rev \in 1 .. MaxRev
    BY <2>1 DEF BuildCommand
  <2>3. v \notin cmd.todo /\ cmd.rev <= rev /\ rev \in 1 .. MaxRev
    BY <2>1 DEF TypeOK
  <2>4. cmd # Idle
    BY <2>1 DEF Idle
  <2> QED BY <2>1, <2>2, <2>3, <2>4
<1>2. \A s \in Required : Fresh(dist[v][s], cmd.rev)
  <2>1. ToSet(cmd.left) = {}
    BY <1>1 DEF ToSet
  <2> QED BY <1>1, <2>1 DEF IInv, Moving
<1>3. /\ built' \in [Variants -> 0..MaxRev]
      /\ \/ built'[v] = built[v]
         \/ built'[v] = cmd.rev /\ dist[v]["build-manifest.json"].mark # "failed"
      /\ \A u \in Variants \ {v} : built'[u] = built[u]
  <2>1. built \in [Variants -> 0..MaxRev] /\ cmd.rev \in 0..MaxRev
    BY <1>1, ToolchainAssumption DEF IInv, TypeOK
  <2>2. \/ built' = built
        \/ /\ built' = [built EXCEPT ![v] = cmd.rev]
           /\ dist[v]["build-manifest.json"].mark # "failed"
    BY DEF Check
  <2> QED BY <1>1, <2>1, <2>2
<1>4. UNCHANGED <<rev, declared, scratch, dist, surface, package, assembled, history, faults>>
  BY DEF Check
<1>5. BuiltVariantsAreWhole'
  <2>1. ASSUME NEW u \in Variants, built'[u] # 0
        PROVE  /\ \A s \in Required : dist[u][s].rev = built'[u]
               /\ dist[u]["build-manifest.json"].mark = "whole"
    <3>1. CASE built'[u] = built[u]
      BY <2>1, <3>1 DEF IInv, BuiltVariantsAreWhole
    <3>2. CASE built'[u] # built[u]
      <4>1. u = v /\ built'[v] = cmd.rev /\ dist[v]["build-manifest.json"].mark # "failed"
        BY <1>3, <3>2
      <4> QED BY <1>2, <4>1, FileLists DEF Fresh
    <3> QED BY <3>1, <3>2
  <2> QED BY <1>4, <2>1 DEF BuiltVariantsAreWhole
<1>6. \/ cmd' = Idle
      \/ \E next \in cmd.todo :
           cmd' = [cmd EXCEPT !.at = "clear", !.variant = next, !.todo = cmd.todo \ {next}]
  BY DEF Check
<1>7. ~ assembled
  BY <1>1 DEF IInv, AssembledAtRest
<1>8. \A u \in Variants : partial[u] = "nothing" => Uniform(u)
  <2>1. Uniform(v)
    BY <1>2 DEF Uniform, Fresh
  <2> QED BY <2>1 DEF IInv, OnlyCutMovesLeavePartialArtifacts, Moved
<1>9. OnlyCutMovesLeavePartialArtifacts' /\ CutGlue'
  <2>1. UNCHANGED <<dist, partial, halved>>
    BY <1>4
  <2>2. OnlyCutMovesLeavePartialArtifacts'
    BY <1>8, <2>1 DEF OnlyCutMovesLeavePartialArtifacts, Uniform
  <2>3. CutGlue'
    <3>1. \A u \in Variants : dist[u]["js"].mark = "cut" => u \in halved
      BY <1>1 DEF IInv, CutGlue, Writing
    <3> QED BY <2>1, <3>1 DEF CutGlue
  <2> QED BY <2>2, <2>3
<1>10. CASE cmd' = Idle
  <2>1. cmd'.name = "idle"
    BY <1>10 DEF Idle
  <2>2. TypeOK'
    BY <1>3, <1>4, <1>10, <2>1 DEF IInv, TypeOK
  <2> QED BY <1>4, <1>5, <1>7, <1>9, <2>1, <2>2
          DEF IInv, Moving, Unfinished, Assembling, AssembledAtRest,
              AssembledSurfaceIsCurrent
<1>11. CASE \E next \in cmd.todo :
           cmd' = [cmd EXCEPT !.at = "clear", !.variant = next, !.todo = cmd.todo \ {next}]
  <2>1. PICK next \in cmd.todo :
           cmd' = [cmd EXCEPT !.at = "clear", !.variant = next, !.todo = cmd.todo \ {next}]
    BY <1>11
  <2>2. /\ cmd'.name = "build" /\ cmd'.at = "clear" /\ cmd'.variant = next
        /\ cmd'.todo = cmd.todo \ {next} /\ cmd'.rev = cmd.rev /\ cmd' \in BuildCommand
    BY <1>1, <2>1 DEF BuildCommand
  <2>3. TypeOK'
    <3>1. cmd'.variant \notin cmd'.todo /\ cmd'.rev <= rev
      BY <1>1, <2>2
    <3> QED BY <1>3, <1>4, <2>2, <3>1 DEF IInv, TypeOK
  <2>4. Unfinished'
    <3>1. \A u \in cmd.todo : u # v /\ u \in Variants /\ built[u] = 0
      BY <1>1 DEF IInv, Unfinished, BuildCommand
    <3> QED BY <1>3, <2>2, <3>1 DEF Unfinished
  <2> QED BY <1>4, <1>5, <1>7, <1>9, <2>2, <2>3, <2>4
          DEF IInv, Moving, Assembling, AssembledAtRest,
              AssembledSurfaceIsCurrent
<1> QED BY <1>6, <1>10, <1>11

LEMMA EditIsSound == ASSUME IInv, Edit PROVE IInv'
<1>1. TypeOK'
  <2>1. TypeOK
    BY DEF IInv
  <2>2. rev' \in 1 .. MaxRev /\ rev' = rev + 1 /\ rev \in 1 .. MaxRev
    BY <2>1, ToolchainAssumption DEF TypeOK, Edit
  <2>3. cmd.name = "build" => cmd.rev \in 1 .. MaxRev /\ cmd.rev <= rev
    BY <2>1, Commands DEF TypeOK, BuildCommand
  <2>4. cmd.name = "build" => cmd.variant \notin cmd.todo /\ cmd.rev <= rev'
    BY <2>1, <2>2, <2>3 DEF TypeOK
  <2> QED BY <2>1, <2>2, <2>4 DEF TypeOK, Edit
<1>2. Moving' /\ Unfinished' /\ BuiltVariantsAreWhole' /\ OnlyCutMovesLeavePartialArtifacts' /\ CutGlue'
  BY DEF IInv, Edit, Moving, Unfinished, BuiltVariantsAreWhole,
         OnlyCutMovesLeavePartialArtifacts,
         Moved, Uniform, CutGlue, Writing
<1>3. Assembling' /\ AssembledAtRest' /\ AssembledSurfaceIsCurrent'
  BY DEF IInv, Edit, Assembling, AssembledAtRest, AssembledSurfaceIsCurrent,
         Reading, GlueIsDone
<1> QED BY <1>1, <1>2, <1>3 DEF IInv

LEMMA RestoreIsSound == ASSUME IInv, Restore PROVE IInv'
<1>1. ~ assembled
  BY DEF IInv, Restore, AssembledSurfaceIsCurrent
<1>2. TypeOK'
  <2>1. package' \in [mark : {"whole", "torn"}, exports : SUBSET Variants, files : SUBSET Variants]
    BY DEF Restore
  <2> QED BY <2>1 DEF IInv, TypeOK, Restore
<1>3. Moving' /\ Unfinished' /\ BuiltVariantsAreWhole' /\ OnlyCutMovesLeavePartialArtifacts' /\ CutGlue'
  BY DEF IInv, Restore, Moving, Unfinished, BuiltVariantsAreWhole,
         OnlyCutMovesLeavePartialArtifacts,
         Moved, Uniform, CutGlue, Writing
<1>4. Assembling'
  BY DEF IInv, Restore, Assembling, Reading, GlueIsDone
<1> QED BY <1>1, <1>2, <1>3, <1>4
        DEF IInv, Restore, AssembledAtRest, AssembledSurfaceIsCurrent

(* What assemble reads is a reading of the declared variants. *)
LEMMA ReadingIsTyped ==
    ASSUME TypeOK, NEW V \in SUBSET Variants
    PROVE  Reading(V) \in Readings /\ DOMAIN Reading(V) = V
<1>1. {"d.ts", "build-manifest.json"} \subseteq Suffix
  BY FileLists
<1>2. \A v \in V : \A s \in Suffix : dist[v][s].rev \in 0 .. MaxRev
  BY DEF TypeOK, Content
<1>3. Reading(V) \in [V -> [types : 0 .. MaxRev, manifest : 0 .. MaxRev]]
  BY <1>1, <1>2 DEF Reading
<1> QED BY <1>3 DEF Readings, Reading

LEMMA StartAssembleIsSound == ASSUME IInv, StartAssemble PROVE IInv'
<1>1. TypeOK /\ cmd = Idle /\ cmd.name = "idle" /\ assembled' = FALSE
  BY DEF IInv, StartAssemble, Idle
<1>2. UNCHANGED <<rev, declared, scratch, dist, surface, package, built, history, faults>>
  BY DEF StartAssemble
<1>3. CASE ~ Readable
  <2>1. cmd' = Idle
    BY <1>3 DEF StartAssemble
  <2> QED BY <1>1, <1>2, <2>1, GivingUpIsSound DEF TypeOK
<1>4. CASE Readable
  <2> DEFINE w == CHOOSE v \in declared : TRUE
  <2>1. declared \in SUBSET Variants /\ w \in Variants
    BY <1>1 DEF TypeOK
  <2>2. cmd' = [name |-> "assemble", at |-> "glue", read |-> Reading(declared), variant |-> w,
                todo |-> declared \cap Threaded, left |-> ASSEMBLE_OUTPUTS]
    BY <1>4 DEF StartAssemble
  <2> HIDE DEF w
  <2>3. Reading(declared) \in Readings /\ DOMAIN Reading(declared) = declared
    BY <1>1, <2>1, ReadingIsTyped
  <2>4. /\ cmd' \in AssembleCommand /\ cmd'.name = "assemble" /\ cmd'.at = "glue"
        /\ cmd'.read = Reading(declared) /\ cmd'.todo = declared \cap Threaded
        /\ cmd'.left = ASSEMBLE_OUTPUTS
    BY <2>1, <2>2, <2>3, FileLists DEF AssembleCommand
  <2>5. TypeOK'
    BY <1>1, <1>2, <2>4 DEF TypeOK
  <2>6. Assembling'
    <3>1. DOMAIN cmd'.read = declared
      BY <2>3, <2>4
    <3>2. (cmd.read = Reading(DOMAIN cmd.read))'
      BY <1>2, <2>4, <3>1 DEF Reading
    <3>3. ToSet(ASSEMBLE_OUTPUTS) \ ToSet(cmd'.left) = {}
      BY <2>4
    <3> QED BY <2>1, <2>4, <3>1, <3>2, <3>3 DEF Assembling
  <2>7. BuiltVariantsAreWhole' /\ OnlyCutMovesLeavePartialArtifacts' /\ CutGlue'
    BY <1>1, <1>2 DEF IInv, BuiltVariantsAreWhole, OnlyCutMovesLeavePartialArtifacts, Moved,
                      Uniform, CutGlue, Writing
  <2> QED BY <1>1, <2>4, <2>5, <2>6, <2>7
          DEF IInv, Moving, Unfinished, AssembledAtRest,
              AssembledSurfaceIsCurrent
<1> QED BY <1>3, <1>4

(* The steps of assemble change no revision of what is in dist. *)
LEMMA AssembleGoesOn ==
    ASSUME IInv, cmd.name = "assemble", cmd' \in AssembleCommand, Assembling',
           UNCHANGED <<rev, declared, scratch, built, assembled, history, faults>>,
           CutGlue', dist' \in [Variants -> [Suffix -> Content]],
           \A v \in Variants :
             dist'[v]["build-manifest.json"].mark = dist[v]["build-manifest.json"].mark,
           \A v \in Variants : \A s \in Suffix : dist'[v][s].rev = dist[v][s].rev,
           surface' \in [ToSet(ASSEMBLE_OUTPUTS) -> Readings],
           package' \in [mark : {"whole", "torn"}, exports : SUBSET Variants,
                         files : SUBSET Variants]
    PROVE  IInv'
<1>1. cmd'.name = "assemble" /\ cmd # Idle
  <2>1. \A c \in AssembleCommand : c.name = "assemble"
    BY DEF AssembleCommand
  <2>2. Idle.name = "idle"
    BY DEF Idle
  <2> QED BY <2>1, <2>2
<1>2. TypeOK'
  <2>1. TypeOK
    BY DEF IInv
  <2> QED BY <1>1, <2>1 DEF TypeOK
<1>3. BuiltVariantsAreWhole'
  BY FileLists DEF IInv, BuiltVariantsAreWhole
<1>4. OnlyCutMovesLeavePartialArtifacts'
  BY FileLists DEF IInv, OnlyCutMovesLeavePartialArtifacts, Moved, Uniform
<1>5. ~ assembled'
  BY <1>1 DEF IInv, AssembledAtRest
<1> QED BY <1>1, <1>2, <1>3, <1>4, <1>5
        DEF IInv, Moving, Unfinished, AssembledAtRest, AssembledSurfaceIsCurrent

(* A reading does not depend on the marks. *)
LEMMA ReadingIsStable ==
    ASSUME NEW V \in SUBSET Variants,
           \A v \in Variants : \A s \in Suffix : dist'[v][s].rev = dist[v][s].rev
    PROVE  Reading(V)' = Reading(V)
<1>1. {"d.ts", "build-manifest.json"} \subseteq Suffix
  BY FileLists
<1>2. \A v \in V : /\ dist'[v]["d.ts"].rev = dist[v]["d.ts"].rev
                    /\ dist'[v]["build-manifest.json"].rev = dist[v]["build-manifest.json"].rev
  BY <1>1
<1> QED BY <1>2 DEF Reading

LEMMA NormalizeGlueIsSound == ASSUME IInv, NormalizeGlue PROVE IInv'
<1>1. /\ cmd \in AssembleCommand /\ cmd.name = "assemble" /\ cmd.at = "glue" /\ TypeOK
      /\ UNCHANGED <<rev, declared, scratch, surface, package, built, assembled, history, faults>>
  BY Commands DEF IInv, NormalizeGlue
<1>2. PICK v \in cmd.todo :
        LET next == [cmd EXCEPT !.variant = v, !.todo = cmd.todo \ {v}]
        IN  CASE dist[v]["js"].mark \in {"normalized", "cut"} -> cmd' = next /\ UNCHANGED dist
              [] dist[v]["js"].mark = "whole" ->
                     /\ cmd' = [next EXCEPT !.at = "writing glue"]
                     /\ \E part \in {"torn", "cut"} :
                           dist' = [dist EXCEPT ![v]["js"].mark = part]
              [] OTHER -> cmd' = Idle /\ UNCHANGED dist
  BY DEF NormalizeGlue
<1> DEFINE next == [cmd EXCEPT !.variant = v, !.todo = cmd.todo \ {v}]
<1>3. /\ v \in Variants /\ dist \in [Variants -> [Suffix -> Content]] /\ "js" \in Suffix
      /\ cmd.todo \subseteq Variants
  BY <1>1, <1>2, FileLists DEF TypeOK, AssembleCommand
<1>4. /\ next \in AssembleCommand /\ next.name = "assemble" /\ next.at = "glue"
      /\ next.todo = cmd.todo \ {v} /\ next.read = cmd.read /\ next.left = cmd.left
      /\ next.variant = v
  BY <1>1, <1>3 DEF AssembleCommand
<1>5. /\ cmd.read = Reading(DOMAIN cmd.read) /\ DOMAIN cmd.read \subseteq Variants
      /\ \A f \in ToSet(ASSEMBLE_OUTPUTS) \ ToSet(cmd.left) : surface[f] = cmd.read
      /\ \A u \in DOMAIN cmd.read \cap Threaded :
            u \in cmd.todo \/ GlueIsDone(u)
  BY <1>1 DEF IInv, Assembling
<1>6. CASE dist[v]["js"].mark \in {"normalized", "cut"}
  <2>1. cmd' = next /\ dist' = dist
    BY <1>2, <1>6
  <2> HIDE DEF next
  <2>2. Assembling'
    <3>1. (cmd.read = Reading(DOMAIN cmd.read))'
      BY <1>4, <1>5, <2>1 DEF Reading
    <3>2. \A u \in DOMAIN cmd'.read \cap Threaded :
             u \in cmd'.todo \/ GlueIsDone(u)'
      <4>1. GlueIsDone(v)
        BY <1>1, <1>3, <1>6 DEF IInv, CutGlue, Writing, GlueIsDone
      <4>2. \A u : GlueIsDone(u)' <=> GlueIsDone(u)
        BY <1>1, <2>1 DEF GlueIsDone
      <4> QED BY <1>4, <1>5, <2>1, <4>1, <4>2
    <3> QED BY <1>1, <1>4, <1>5, <2>1, <3>1, <3>2 DEF Assembling
  <2>3. CutGlue'
    BY <1>1, <1>4, <2>1 DEF IInv, CutGlue, Writing
  <2> QED BY <1>1, <1>4, <2>1, <2>2, <2>3, AssembleGoesOn DEF TypeOK
<1>7. CASE dist[v]["js"].mark = "whole"
  <2>1. /\ cmd' = [next EXCEPT !.at = "writing glue"]
        /\ \E part \in {"torn", "cut"} : dist' = [dist EXCEPT ![v]["js"].mark = part]
    BY <1>2, <1>7
  <2>2. /\ cmd' \in AssembleCommand /\ cmd'.name = "assemble" /\ cmd'.at = "writing glue"
        /\ cmd'.todo = cmd.todo \ {v} /\ cmd'.read = cmd.read /\ cmd'.left = cmd.left
        /\ cmd'.variant = v
    <3> HIDE DEF next
    <3> QED BY <1>4, <2>1 DEF AssembleCommand
  <2>3. /\ dist' \in [Variants -> [Suffix -> Content]]
        /\ \A u \in Variants : \A s \in Suffix : dist'[u][s].rev = dist[u][s].rev
        /\ \A u \in Variants \ {v} : dist'[u] = dist[u]
        /\ \A u \in Variants :
             dist'[u]["build-manifest.json"].mark = dist[u]["build-manifest.json"].mark
    <3>1. PICK part \in {"torn", "cut"} : dist' = [dist EXCEPT ![v]["js"].mark = part]
      BY <2>1
    <3> HIDE DEF next
    <3>2. dist[v]["js"] \in Content
      BY <1>3
    <3>3. /\ [dist[v]["js"] EXCEPT !.mark = part] \in Content
          /\ [dist[v]["js"] EXCEPT !.mark = part].rev = dist[v]["js"].rev
      BY <3>2 DEF Content
    <3> QED BY <1>3, <3>1, <3>3, FileLists
  <2>4. Assembling'
    <3>1. (cmd.read = Reading(DOMAIN cmd.read))'
      <4>1. \A V \in SUBSET Variants : Reading(V)' = Reading(V)
        BY <2>3, ReadingIsStable
      <4> QED BY <1>5, <2>2, <4>1
    <3>2. \A u \in DOMAIN cmd'.read \cap Threaded :
             \/ u \in cmd'.todo \/ u = cmd'.variant \/ GlueIsDone(u)'
      <4>1. \A u \in Variants \ {v} : GlueIsDone(u)' <=> GlueIsDone(u)
        BY <1>1, <2>3 DEF GlueIsDone
      <4> QED BY <1>5, <2>2, <4>1
    <3> QED BY <1>1, <1>5, <2>2, <3>1, <3>2 DEF Assembling
  <2>5. CutGlue'
    <3>1. \A u \in Variants : ~ Writing(u)
      BY <1>1 DEF Writing
    <3>2. Writing(v)'
      BY <2>2 DEF Writing
    <3> QED BY <1>1, <2>3, <3>1, <3>2 DEF IInv, CutGlue
  <2> QED BY <1>1, <2>2, <2>3, <2>4, <2>5, AssembleGoesOn DEF TypeOK
<1>8. CASE dist[v]["js"].mark \notin {"normalized", "cut", "whole"}
  <2>1. cmd' = Idle /\ dist' = dist
    BY <1>2, <1>8
  <2>2. ~ assembled
    BY <1>1 DEF IInv, AssembledAtRest, Idle
  <2> QED BY <1>1, <2>1, <2>2, GivingUpIsSound DEF TypeOK
<1> QED BY <1>6, <1>7, <1>8

LEMMA WriteGlueIsSound == ASSUME IInv, WriteGlue PROVE IInv'
<1> DEFINE v == cmd.variant
<1>1. /\ cmd \in AssembleCommand /\ cmd.name = "assemble" /\ cmd.at = "writing glue" /\ TypeOK
      /\ UNCHANGED <<rev, declared, scratch, surface, package, built, assembled, history, faults>>
      /\ dist' = [dist EXCEPT ![v]["js"].mark = "normalized"]
      /\ cmd' = [cmd EXCEPT !.at = "glue"]
  BY Commands DEF IInv, WriteGlue
<1>2. /\ v \in Variants /\ dist \in [Variants -> [Suffix -> Content]] /\ "js" \in Suffix
  BY <1>1, FileLists DEF TypeOK, AssembleCommand
<1>3. /\ cmd' \in AssembleCommand /\ cmd'.name = "assemble" /\ cmd'.at = "glue"
      /\ cmd'.todo = cmd.todo /\ cmd'.read = cmd.read /\ cmd'.left = cmd.left
  BY <1>1 DEF AssembleCommand
<1>4. /\ dist' \in [Variants -> [Suffix -> Content]]
      /\ \A u \in Variants : \A s \in Suffix : dist'[u][s].rev = dist[u][s].rev
      /\ \A u \in Variants \ {v} : dist'[u] = dist[u]
      /\ dist'[v]["js"].mark = "normalized"
      /\ \A u \in Variants :
           dist'[u]["build-manifest.json"].mark = dist[u]["build-manifest.json"].mark
  <2>1. dist[v]["js"] \in Content
    BY <1>2
  <2>2. /\ [dist[v]["js"] EXCEPT !.mark = "normalized"] \in Content
        /\ [dist[v]["js"] EXCEPT !.mark = "normalized"].rev = dist[v]["js"].rev
        /\ [dist[v]["js"] EXCEPT !.mark = "normalized"].mark = "normalized"
    BY <2>1 DEF Content
  <2> HIDE DEF v
  <2> QED BY <1>1, <1>2, <2>2, FileLists
<1>5. Assembling'
  <2>1. (cmd.read = Reading(DOMAIN cmd.read))' /\ DOMAIN cmd'.read \subseteq Variants
    <3>1. \A V \in SUBSET Variants : Reading(V)' = Reading(V)
      BY <1>4, ReadingIsStable
    <3> QED BY <1>1, <1>3, <3>1 DEF IInv, Assembling
  <2>2. \A u \in DOMAIN cmd'.read \cap Threaded :
           u \in cmd'.todo \/ GlueIsDone(u)'
    <3>1. SUFFICES ASSUME NEW u \in DOMAIN cmd'.read \cap Threaded
                   PROVE  u \in cmd'.todo \/ GlueIsDone(u)'
      OBVIOUS
    <3>2. u \in cmd.todo \/ u = v \/ GlueIsDone(u)
      BY <1>1, <1>3, <3>1 DEF IInv, Assembling
    <3>3. u \in Variants
      BY <2>1, <3>1
    <3> QED BY <1>1, <1>3, <1>4, <3>2, <3>3 DEF GlueIsDone
  <2> QED BY <1>1, <1>3, <2>1, <2>2 DEF IInv, Assembling
<1>6. CutGlue'
  <2>1. \A u \in Variants : Writing(u) => u = v
    BY DEF Writing
  <2> QED BY <1>1, <1>4, <2>1 DEF IInv, CutGlue
<1> QED BY <1>1, <1>3, <1>4, <1>5, <1>6, AssembleGoesOn DEF TypeOK

LEMMA WriteSurfaceIsSound == ASSUME IInv, WriteSurface PROVE IInv'
<1> DEFINE f == Head(cmd.left)
<1>1. /\ cmd \in AssembleCommand /\ cmd.name = "assemble" /\ cmd.at = "glue" /\ TypeOK
      /\ cmd.todo = {} /\ cmd.left # <<>>
      /\ UNCHANGED <<rev, declared, scratch, dist, package, built, assembled, history, faults>>
      /\ surface' = [surface EXCEPT ![f] = cmd.read] /\ cmd' = [cmd EXCEPT !.left = Tail(cmd.left)]
  BY Commands DEF IInv, WriteSurface
<1>2. cmd.left \in Seq(ToSet(ASSEMBLE_OUTPUTS)) /\ cmd.read \in Readings
  BY <1>1 DEF AssembleCommand
<1>3. /\ f \in ToSet(ASSEMBLE_OUTPUTS) /\ Tail(cmd.left) \in Seq(ToSet(ASSEMBLE_OUTPUTS))
      /\ ToSet(cmd.left) = {f} \union ToSet(Tail(cmd.left))
  BY <1>1, <1>2, HeadAndTail
<1> HIDE DEF f
<1>4. /\ cmd' \in AssembleCommand /\ cmd'.name = "assemble" /\ cmd'.at = "glue"
      /\ cmd'.todo = {} /\ cmd'.read = cmd.read /\ cmd'.left = Tail(cmd.left)
  BY <1>1, <1>3 DEF AssembleCommand
<1>5. /\ surface' \in [ToSet(ASSEMBLE_OUTPUTS) -> Readings] /\ surface'[f] = cmd.read
      /\ \A g \in ToSet(ASSEMBLE_OUTPUTS) \ {f} : surface'[g] = surface[g]
  BY <1>1, <1>2, <1>3 DEF TypeOK
<1>6. Assembling'
  <2>1. (cmd.read = Reading(DOMAIN cmd.read))' /\ DOMAIN cmd'.read \subseteq Variants
    BY <1>1, <1>4 DEF IInv, Assembling, Reading
  <2>2. \A g \in ToSet(ASSEMBLE_OUTPUTS) \ ToSet(cmd'.left) : surface'[g] = cmd'.read
    <3>1. SUFFICES ASSUME NEW g \in ToSet(ASSEMBLE_OUTPUTS) \ ToSet(cmd'.left)
                   PROVE  surface'[g] = cmd.read
      BY <1>4
    <3>2. g = f \/ g \notin ToSet(cmd.left)
      BY <1>3, <1>4
    <3> QED BY <1>1, <1>5, <3>2 DEF IInv, Assembling
  <2>3. \A u \in DOMAIN cmd'.read \cap Threaded : GlueIsDone(u)'
    BY <1>1, <1>4 DEF IInv, Assembling, GlueIsDone
  <2> QED BY <1>4, <2>1, <2>2, <2>3 DEF Assembling
<1>7. CutGlue'
  BY <1>1, <1>4 DEF IInv, CutGlue, Writing
<1> QED BY <1>1, <1>4, <1>5, <1>6, <1>7, AssembleGoesOn DEF TypeOK

LEMMA WritePackageIsSound == ASSUME IInv, WritePackage PROVE IInv'
<1>1. /\ cmd \in AssembleCommand /\ cmd.name = "assemble" /\ cmd.at = "glue" /\ TypeOK
      /\ cmd.todo = {} /\ cmd.left = <<>>
      /\ UNCHANGED <<rev, declared, scratch, dist, surface, built, assembled, history, faults>>
      /\ package' = [package EXCEPT !.mark = "torn"]
      /\ cmd' = [cmd EXCEPT !.at = "writing package"]
  BY Commands DEF IInv, WritePackage
<1>2. /\ cmd' \in AssembleCommand /\ cmd'.name = "assemble" /\ cmd'.at = "writing package"
      /\ cmd'.todo = {} /\ cmd'.left = <<>> /\ cmd'.read = cmd.read
  BY <1>1 DEF AssembleCommand
<1>3. package' \in [mark : {"whole", "torn"}, exports : SUBSET Variants, files : SUBSET Variants]
  BY <1>1 DEF TypeOK
<1>4. Assembling'
  BY <1>1, <1>2 DEF IInv, Assembling, Reading, GlueIsDone
<1>5. CutGlue'
  BY <1>1, <1>2 DEF IInv, CutGlue, Writing
<1> QED BY <1>1, <1>2, <1>3, <1>4, <1>5, AssembleGoesOn DEF TypeOK

(* The last write: everything that was read is in place. *)
LEMMA FinishAssembleIsSound == ASSUME IInv, FinishAssemble PROVE IInv'
<1>1. /\ cmd \in AssembleCommand /\ cmd.name = "assemble" /\ cmd.at = "writing package"
      /\ TypeOK /\ cmd' = Idle /\ assembled' = TRUE
      /\ UNCHANGED <<rev, declared, scratch, dist, surface, built, history, faults>>
      /\ package' = [mark |-> "whole", exports |-> package.exports \union DOMAIN cmd.read,
                     files |-> DOMAIN cmd.read]
  BY Commands DEF IInv, FinishAssemble
<1>2. /\ cmd.read = Reading(DOMAIN cmd.read) /\ DOMAIN cmd.read \subseteq Variants
      /\ \A f \in ToSet(ASSEMBLE_OUTPUTS) : surface[f] = cmd.read
      /\ \A v \in DOMAIN cmd.read \cap Threaded : GlueIsDone(v)
  <2>1. cmd.todo = {} /\ cmd.left = <<>>
    BY <1>1 DEF IInv, Assembling
  <2>2. ToSet(cmd.left) = {}
    BY <2>1 DEF ToSet
  <2> QED BY <1>1, <2>1, <2>2 DEF IInv, Assembling
<1>3. cmd'.name = "idle"
  BY <1>1 DEF Idle
<1>4. TypeOK'
  <2>1. package' \in [mark : {"whole", "torn"}, exports : SUBSET Variants, files : SUBSET Variants]
    BY <1>1, <1>2 DEF TypeOK
  <2> QED BY <1>1, <1>3, <2>1 DEF TypeOK
<1>5. AssembledSurfaceIsCurrent'
  <2>1. surface'["types.d.ts"] = cmd.read
    BY <1>1, <1>2, FileLists
  <2>2. /\ \A f \in ToSet(ASSEMBLE_OUTPUTS) : surface'[f] = cmd.read
        /\ \A v \in DOMAIN cmd.read \cap Threaded : GlueIsDone(v)'
        /\ package'.mark = "whole" /\ package'.files = DOMAIN cmd.read
        /\ DOMAIN cmd.read \subseteq package'.exports
    BY <1>1, <1>2 DEF GlueIsDone
  <2>3. cmd.read = Reading(DOMAIN surface["types.d.ts"])'
    BY <1>1, <1>2, <2>1 DEF Reading
  <2> QED BY <2>1, <2>2, <2>3 DEF AssembledSurfaceIsCurrent
<1>6. BuiltVariantsAreWhole' /\ OnlyCutMovesLeavePartialArtifacts' /\ CutGlue'
  BY <1>1 DEF IInv, BuiltVariantsAreWhole, OnlyCutMovesLeavePartialArtifacts, Moved, Uniform,
              CutGlue, Writing
<1> QED BY <1>1, <1>3, <1>4, <1>5, <1>6
        DEF IInv, Moving, Unfinished, Assembling, AssembledAtRest

LEMMA StutteringIsSound == ASSUME IInv, UNCHANGED vars PROVE IInv'
<1>1. /\ rev' = rev /\ declared' = declared /\ scratch' = scratch /\ dist' = dist
      /\ surface' = surface /\ package' = package /\ cmd' = cmd /\ built' = built
      /\ assembled' = assembled /\ history' = history /\ faults' = faults
  BY DEF vars
<1>2. TypeOK'
  BY <1>1 DEF IInv, TypeOK
<1>3. Moving' /\ Unfinished' /\ BuiltVariantsAreWhole' /\ OnlyCutMovesLeavePartialArtifacts' /\ CutGlue'
  BY <1>1 DEF IInv, Moving, Unfinished, BuiltVariantsAreWhole,
              OnlyCutMovesLeavePartialArtifacts, Moved, Uniform, CutGlue, Writing
<1>4. Assembling'
  BY <1>1 DEF IInv, Assembling, Reading, GlueIsDone
<1>5. AssembledAtRest' /\ AssembledSurfaceIsCurrent'
  BY <1>1 DEF IInv, AssembledAtRest, AssembledSurfaceIsCurrent, Reading, GlueIsDone
<1> QED BY <1>2, <1>3, <1>4, <1>5 DEF IInv

LEMMA StepIsSound == IInv /\ [Next]_vars => IInv'
<1> SUFFICES ASSUME IInv, [Next]_vars PROVE IInv'
  OBVIOUS
<1>1. CASE Edit
  BY <1>1, EditIsSound
<1>2. CASE \E wanted \in SUBSET Variants : StartBuild(wanted)
  BY <1>2, StartBuildIsSound
<1>3. CASE StartAssemble
  BY <1>3, StartAssembleIsSound
<1>4. CASE Step
  BY <1>4, ClearIsSound, ContainerSucceedsIsSound, MoveIsSound, CheckIsSound,
     NormalizeGlueIsSound, WriteGlueIsSound, WriteSurfaceIsSound,
     WritePackageIsSound,
     FinishAssembleIsSound DEF Step
<1>5. CASE Refuse \/ ContainerFails \/ MoveFails \/ AssembleFails \/ Kill \/ Restore
  BY <1>5, RefuseIsSound, ContainerFailsIsSound, MoveFailsIsSound, AssembleFailsIsSound,
     KillIsSound, RestoreIsSound
<1>6. CASE UNCHANGED vars
  BY <1>6, StutteringIsSound
<1> QED BY <1>1, <1>2, <1>3, <1>4, <1>5, <1>6 DEF Next

(* The inductive invariant behind the theorems: where a command is, the    *)
(* files of dist say so.                                                   *)
THEOREM CommandsKeepTheInvariant == Spec => []IInv
  BY InitIsSound, StepIsSound, PTL DEF Spec

(* Every variable keeps its type and no build takes a variant twice. *)
THEOREM TypeCorrect == Spec => []TypeOK
<1>1. IInv => TypeOK
  BY DEF IInv
<1> QED BY <1>1, CommandsKeepTheInvariant, PTL

(* A build that reported success left the artifacts of its own container   *)
(* run, whose validation passed, for any variants and any number of edits, *)
(* kills and failures.                                                     *)
THEOREM SuccessfulBuildsAreWhole == Spec => []BuiltVariantsAreWhole
<1>1. IInv => BuiltVariantsAreWhole
  BY DEF IInv
<1> QED BY <1>1, CommandsKeepTheInvariant, PTL

(* Only a move that a kill or a refused rename ended early leaves the      *)
(* artifacts of two builds, or half of them, in dist, and only of its own  *)
(* variant, until that is moved again.                                     *)
THEOREM OnlyCutMovesLeaveArtifacts == Spec => []OnlyCutMovesLeavePartialArtifacts
<1>1. IInv => OnlyCutMovesLeavePartialArtifacts
  BY DEF IInv
<1> QED BY <1>1, CommandsKeepTheInvariant, PTL

(* An assemble that succeeded describes what is in dist; a glue may end    *)
(* early only where an interrupted assemble left it so.                    *)
THEOREM AssembledSurfaceCorrect == Spec => []AssembledSurfaceIsCurrent
<1>1. IInv => AssembledSurfaceIsCurrent
  BY DEF IInv
<1> QED BY <1>1, CommandsKeepTheInvariant, PTL

(* A package assembled over successful builds of one revision is of that   *)
(* revision in all its files.                                              *)
THEOREM ReleasesCorrect == Spec => []ReleasesAreOfOneRevision
<1>1. IInv => ReleasesAreOfOneRevision
  <2>1. SUFFICES ASSUME IInv, NEW r \in 1 .. MaxRev, ReleasedAt(r), NEW v \in package.files
                 PROVE  /\ \A s \in Required : dist[v][s].rev = r
                        /\ \A f \in ToSet(ASSEMBLE_OUTPUTS) :
                              surface[f][v] = [types |-> r, manifest |-> r]
    BY DEF ReleasesAreOfOneRevision
  <2> DEFINE read == surface["types.d.ts"]
  <2>2. /\ \A f \in ToSet(ASSEMBLE_OUTPUTS) : surface[f] = read
        /\ read = Reading(DOMAIN read) /\ package.files = DOMAIN read
    BY <2>1 DEF IInv, AssembledSurfaceIsCurrent, ReleasedAt
  <2>3. v \in Variants /\ v \in DOMAIN read /\ built[v] = r /\ r # 0
    BY <2>1, <2>2 DEF IInv, TypeOK, ReleasedAt
  <2>4. \A s \in Required : dist[v][s].rev = r
    BY <2>1, <2>3 DEF IInv, BuiltVariantsAreWhole
  <2>5. read[v] = [types |-> dist[v]["d.ts"].rev, manifest |-> dist[v]["build-manifest.json"].rev]
    BY <2>2, <2>3 DEF Reading
  <2>6. dist[v]["d.ts"].rev = r /\ dist[v]["build-manifest.json"].rev = r
    BY <2>4, FileLists
  <2> QED BY <2>2, <2>4, <2>5, <2>6
<1> QED BY <1>1, CommandsKeepTheInvariant, PTL

-----------------------------------------------------------------------------
(* ConfigMigration.                                                        *)

(* A map of settings or typed flags: no key has a mark for its value. *)
Proper(map) ==
    /\ map = [k \in DOMAIN map |-> map[k]]
    /\ \A k \in DOMAIN map : map[k] \notin {Absent, Null}

----------------------------------------------------------------------------
(* A non-empty set of positions of a sequence has a last one. *)
LEMMA LastExists ==
    ASSUME NEW n \in Nat, NEW A \in SUBSET (1..n), A # {}
    PROVE  Max(A) \in A
<1> DEFINE above(i) == {j \in A : j > i}
           T == {above(i) : i \in A}
           R == StrictSubsetOrdering(A)
<1>1. IsFiniteSet(A)
  BY FS_Interval, FS_Subset, IsFiniteSet(1..n)
<1>2. IsWellFoundedOn(R, SUBSET A)
  BY <1>1, FS_StrictSubsetOrderingWellFounded, FS_FiniteSubsetsOfFinite
<1>3. T \subseteq SUBSET A /\ T # {}
  OBVIOUS
<1>4. PICK t \in T : \A u \in T : ~ (<<u, t>> \in R)
  <2> HIDE DEF T, R
  <2> QED BY <1>2, <1>3, WFMin
<1>5. PICK i \in A : t = above(i)
  OBVIOUS
<1>6. \A j \in A : i >= j
  <2>1. SUFFICES ASSUME NEW j \in A, j > i PROVE FALSE
    OBVIOUS
  <2>2. above(j) \subseteq above(i) /\ above(j) # above(i)
    <3>1. i \in Int /\ j \in Int /\ \A x \in A : x \in Int
      OBVIOUS
    <3>2. \A x \in A : x > j => x > i
      <4> HIDE DEF above
      <4> QED BY <2>1, <3>1
    <3> above(j) \subseteq above(i)
      BY <3>2
    <3>3. j \in above(i) /\ j \notin above(j)
      BY <2>1, <3>1
    <3> QED BY <3>3
  <2>3. above(j) \in SUBSET A /\ above(i) \in SUBSET A
    OBVIOUS
  <2>4. <<above(j), above(i)>> \in R
    BY <2>2, <2>3 DEF StrictSubsetOrdering
  <2> QED BY <2>4, <1>4, <1>5
<1> QED BY <1>6 DEF Max

(* Every value of the flags of a build, read with the last occurrence      *)
(* winning, is the value of one of them.                                   *)
LEMMA LastWinsGivesMembers ==
    ASSUME NEW flags \in Seq(Flag), NEW form
    PROVE  \A k \in DOMAIN LastWins(flags, form) :
               \E f \in ToSet(flags) :
                   Typed(f, form) /\ f.key = k /\ LastWins(flags, form)[k] = f.value
<1> DEFINE at(k) == {i \in DOMAIN flags : Typed(flags[i], form) /\ flags[i].key = k}
<1>1. SUFFICES ASSUME NEW k \in DOMAIN LastWins(flags, form)
               PROVE  \E f \in ToSet(flags) : /\ Typed(f, form) /\ f.key = k
                                               /\ LastWins(flags, form)[k] = f.value
  OBVIOUS
<1>2. at(k) # {}
  BY <1>1 DEF LastWins
<1>3. DOMAIN flags = 1..Len(flags) /\ Len(flags) \in Nat
  OBVIOUS
<1>4. Max(at(k)) \in at(k)
  BY <1>2, <1>3, LastExists
<1>5. LastWins(flags, form)[k] = flags[Max(at(k))].value
  BY <1>1 DEF LastWins
<1>6. flags[Max(at(k))] \in ToSet(flags)
  BY <1>4 DEF ToSet
<1> QED BY <1>4, <1>5, <1>6

LEMMA LastWinsGivesFlags ==
    ASSUME NEW flags \in Seq(Flag), NEW form
    PROVE  \A k \in DOMAIN LastWins(flags, form) :
               \E f \in Flag : Typed(f, form) /\ f.key = k /\ LastWins(flags, form)[k] = f.value
<1>1. ToSet(flags) \subseteq Flag
  BY DEF ToSet
<1> QED BY <1>1, LastWinsGivesMembers

(* They are a proper map.                                                  *)
LEMMA LastWinsIsProper ==
    ASSUME NEW flags \in Seq(Flag), NEW form \in {"setting", "compiler"}
    PROVE  Proper(LastWins(flags, form))
<1>1. \A k \in DOMAIN LastWins(flags, form) : LastWins(flags, form)[k] \notin {Absent, Null}
  BY LastWinsGivesFlags, FlagAssumption DEF Typed
<1>2. LastWins(flags, form)
        = [k \in DOMAIN LastWins(flags, form) |-> LastWins(flags, form)[k]]
  BY DEF LastWins
<1> QED BY <1>1, <1>2 DEF Proper

(* The modernised flags of a build are proper maps too. *)
LEMMA ModernizedIsProper ==
    ASSUME NEW flags \in Seq(Flag)
    PROVE  /\ Proper(Modernize(ParseFlags(flags)).settings)
           /\ Proper(Modernize(ParseFlags(flags)).compilerFlags)
<1> DEFINE parsed == ParseFlags(flags)
           threaded == ThreadFlag(parsed)
           kept == Delete(threaded.settings, "EXPORT_EXCEPTION_HANDLING_HELPERS")
<1>1. Proper(parsed.settings) /\ Proper(parsed.compilerFlags)
  BY LastWinsIsProper DEF ParseFlags
<1>2. threaded.settings = Delete(parsed.settings, "USE_PTHREADS")
  BY DEF ThreadFlag, ParseFlags
<1>3. \/ threaded.compilerFlags = parsed.compilerFlags
      \/ threaded.compilerFlags = Set(parsed.compilerFlags, "threads", "true")
  BY DEF ThreadFlag, ParseFlags
<1>4. Proper(threaded.settings) /\ Proper(threaded.compilerFlags)
  BY <1>1, <1>2, <1>3, MarkAssumption DEF Proper, Delete, Set
<1>5. Proper(kept)
  BY <1>4 DEF Proper, Delete
<1>6. Methods(kept) \in SUBSET Method
  <2>1. CASE "EXPORTED_RUNTIME_METHODS" \notin DOMAIN kept
    BY <2>1 DEF Methods
  <2>2. CASE "EXPORTED_RUNTIME_METHODS" \in DOMAIN kept
    <3>1. /\ "EXPORTED_RUNTIME_METHODS" \in DOMAIN LastWins(flags, "setting")
          /\ kept["EXPORTED_RUNTIME_METHODS"]
               = LastWins(flags, "setting")["EXPORTED_RUNTIME_METHODS"]
      BY <2>2, <1>2 DEF Delete, ParseFlags
    <3>2. PICK f \in Flag : /\ Typed(f, "setting") /\ f.key = "EXPORTED_RUNTIME_METHODS"
                            /\ kept["EXPORTED_RUNTIME_METHODS"] = f.value
      BY <3>1, LastWinsGivesFlags
    <3> QED BY <2>2, <3>2, FlagAssumption DEF Typed, Methods
  <2> QED BY <2>1, <2>2
<1>7. Methods(kept) \union Helpers \notin {Absent, Null}
  BY <1>6, MarkAssumption
<1>8. Proper(Set(kept, "EXPORTED_RUNTIME_METHODS", Methods(kept) \union Helpers))
  BY <1>5, <1>7 DEF Proper, Set
<1>9. /\ \/ ExceptionHelpers(threaded) = threaded
         \/ ExceptionHelpers(threaded).settings
              = Set(kept, "EXPORTED_RUNTIME_METHODS", Methods(kept) \union Helpers)
      /\ ExceptionHelpers(threaded).compilerFlags = threaded.compilerFlags
  BY DEF ExceptionHelpers, ThreadFlag, ParseFlags
<1> QED BY <1>4, <1>8, <1>9 DEF Modernize

----------------------------------------------------------------------------
(* Merging the base and the delta of a build gives back its settings,      *)
(* whichever value was taken for the base.                                 *)
LEMMA MergingSettings ==
    ASSUME NEW maps, NEW i \in DOMAIN maps, \A j \in DOMAIN maps : Proper(maps[j]),
           NEW c, c.settings = BaseSettings(maps), c.variants[i].settings = Delta(maps, i)
    PROVE  MergeSettings(c, i) = maps[i]
<1> DEFINE base == BaseSettings(maps)
           delta == Delta(maps, i)
           value(k) == IF k \in DOMAIN delta THEN delta[k] ELSE base[k]
           kept == {k \in DOMAIN base \union DOMAIN delta : value(k) # Null}
<1>1. MergeSettings(c, i) = [k \in kept |-> value(k)]
  BY DEF MergeSettings
<1>2. DOMAIN maps[i] \subseteq Keys(maps)
  BY DEF Keys
<1>3. ASSUME NEW k \in DOMAIN maps[i] PROVE k \in kept /\ value(k) = maps[i][k]
  <2>1. k \in Keys(maps) /\ Get(maps[i], k) = maps[i][k] /\ maps[i][k] \notin {Absent, Null}
    BY <1>2 DEF Get, Proper
  <2>2. CASE maps[i][k] = BaseValue(maps, k)
    <3>1. k \notin DOMAIN delta /\ k \in DOMAIN base /\ base[k] = maps[i][k]
      BY <2>1, <2>2 DEF Delta, BaseSettings
    <3> QED BY <3>1, <2>1
  <2>3. CASE maps[i][k] # BaseValue(maps, k)
    <3>1. k \in DOMAIN delta /\ delta[k] = maps[i][k]
      BY <2>1, <2>3 DEF Delta
    <3> QED BY <3>1, <2>1
  <2> QED BY <2>2, <2>3
<1>4. ASSUME NEW k \in kept PROVE k \in DOMAIN maps[i]
  <2>1. SUFFICES ASSUME k \notin DOMAIN maps[i] PROVE FALSE
    OBVIOUS
  <2>2. Get(maps[i], k) = Absent
    BY <2>1 DEF Get
  <2>3. CASE k \in DOMAIN delta
    <3>1. delta[k] = Null
      BY <2>2, <2>3 DEF Delta
    <3> QED BY <2>3, <3>1
  <2>4. CASE k \notin DOMAIN delta
    <3>1. k \in DOMAIN base
      BY <2>4
    <3>2. k \in Keys(maps) /\ BaseValue(maps, k) # Absent
      BY <3>1 DEF BaseSettings
    <3>3. k \in DOMAIN delta
      BY <2>2, <3>2 DEF Delta
    <3> QED BY <2>4, <3>3
  <2> QED BY <2>3, <2>4
<1>5. kept = DOMAIN maps[i]
  BY <1>3, <1>4
<1>6. \A k \in DOMAIN maps[i] : value(k) = maps[i][k]
  BY <1>3
<1>7. [k \in kept |-> value(k)] = [k \in DOMAIN maps[i] |-> maps[i][k]]
  <2> HIDE DEF kept, value
  <2> QED BY <1>5, <1>6
<1> QED BY <1>1, <1>7 DEF Proper

(* The same of the typed flags, of which the base holds the common ones. *)
LEMMA MergingFlags ==
    ASSUME NEW maps, 1 \in DOMAIN maps, NEW i \in DOMAIN maps,
           \A j \in DOMAIN maps : Proper(maps[j]),
           NEW c, c.compilerFlags = BaseFlags(maps),
           c.variants[i].compilerFlags = FlagDelta(maps, i)
    PROVE  MergeCompilerFlags(c, i) = maps[i]
<1> DEFINE base == BaseFlags(maps)
           delta == FlagDelta(maps, i)
           value(k) == IF k \in DOMAIN delta THEN delta[k] ELSE base[k]
<1>1. \A k \in DOMAIN base : k \in DOMAIN maps[i] /\ base[k] = maps[i][k]
  <2>1. SUFFICES ASSUME NEW k \in DOMAIN base
                 PROVE  k \in DOMAIN maps[i] /\ base[k] = maps[i][k]
    OBVIOUS
  <2>2. /\ k \in DOMAIN maps[1] /\ base[k] = maps[1][k]
        /\ Get(maps[i], k) = maps[1][k]
    BY <2>1 DEF BaseFlags
  <2>3. maps[1][k] # Absent
    BY <2>2 DEF Proper
  <2> QED BY <2>2, <2>3 DEF Get
<1>2. DOMAIN delta = DOMAIN maps[i] \ DOMAIN base
  BY DEF FlagDelta
<1>3. \A k \in DOMAIN delta : delta[k] = maps[i][k]
  BY DEF FlagDelta
<1>4. MergeCompilerFlags(c, i) = [k \in DOMAIN base \union DOMAIN delta |-> value(k)]
  BY DEF MergeCompilerFlags
<1>5. DOMAIN base \union DOMAIN delta = DOMAIN maps[i]
  BY <1>1, <1>2
<1>6. \A k \in DOMAIN maps[i] : value(k) = maps[i][k]
  BY <1>1, <1>2, <1>3
<1>7. [k \in DOMAIN base \union DOMAIN delta |-> value(k)]
        = [k \in DOMAIN maps[i] |-> maps[i][k]]
  <2> HIDE DEF base, delta, value
  <2> QED BY <1>5, <1>6
<1> QED BY <1>4, <1>7 DEF Proper

----------------------------------------------------------------------------
LEMMA YmlsAreBuilds ==
    ASSUME NEW builds \in Ymls
    PROVE  /\ 1 \in DOMAIN builds
           /\ DOMAIN builds = 1..Len(builds) /\ Len(builds) \in Nat
           /\ \A i \in DOMAIN builds :
                 builds[i].flags \in Seq(Flag) /\ builds[i].base \in Seq(Word)
<1> DEFINE S == Build
<1>1. builds \in Seq(S) /\ builds # <<>>
  BY YmlAssumption
<1>2. DOMAIN builds = 1..Len(builds) /\ Len(builds) \in Nat /\ Len(builds) # 0
  BY <1>1
<1>3. ASSUME NEW i \in DOMAIN builds
      PROVE  builds[i].flags \in Seq(Flag) /\ builds[i].base \in Seq(Word)
  <2>1. builds[i] \in S
    <3> HIDE DEF S
    <3> QED BY <1>1, <1>2
  <2> QED BY <2>1 DEF Build
<1> QED BY <1>2, <1>3

(* The configuration migrated from some builds merges back into them. *)
LEMMA MigrationMergesBack ==
    ASSUME NEW builds \in Ymls, NEW i \in DOMAIN builds
    PROVE  LET asked == Modernize(ParseFlags(builds[i].flags))
           IN  /\ MergeSettings(Migrated(builds), i) = asked.settings
               /\ MergeCompilerFlags(Migrated(builds), i) = asked.compilerFlags
<1> DEFINE asked(j) == Modernize(ParseFlags(builds[j].flags))
           settings == [j \in DOMAIN builds |-> asked(j).settings]
           flags == [j \in DOMAIN builds |-> asked(j).compilerFlags]
<1>1. \A j \in DOMAIN builds : Proper(asked(j).settings) /\ Proper(asked(j).compilerFlags)
  BY YmlsAreBuilds, ModernizedIsProper
<1>2. /\ Migrated(builds).settings = BaseSettings(settings)
      /\ Migrated(builds).compilerFlags = BaseFlags(flags)
      /\ Migrated(builds).variants[i].settings = Delta(settings, i)
      /\ Migrated(builds).variants[i].compilerFlags = FlagDelta(flags, i)
  BY DEF Migrated
<1>3. 1 \in DOMAIN builds
  BY YmlsAreBuilds
<1> HIDE DEF asked
<1>4. /\ \A j \in DOMAIN settings : Proper(settings[j])
      /\ \A j \in DOMAIN flags : Proper(flags[j])
      /\ i \in DOMAIN settings /\ i \in DOMAIN flags /\ 1 \in DOMAIN flags
  BY <1>1, <1>3
<1>5. settings[i] = asked(i).settings /\ flags[i] = asked(i).compilerFlags
  OBVIOUS
<1> HIDE DEF settings, flags
<1>6. MergeSettings(Migrated(builds), i) = settings[i]
  BY <1>2, <1>4, MergingSettings
<1>7. MergeCompilerFlags(Migrated(builds), i) = flags[i]
  BY <1>2, <1>4, MergingFlags
<1> QED BY <1>5, <1>6, <1>7 DEF asked

(* A variant unsets only what the base declares. *)
LEMMA MigrationUnsetsBaseKeys ==
    ASSUME NEW builds \in Ymls
    PROVE  UnsetsBaseKeys(Migrated(builds))
<1> DEFINE asked(j) == Modernize(ParseFlags(builds[j].flags))
           settings == [j \in DOMAIN builds |-> asked(j).settings]
<1>1. \A j \in DOMAIN builds : Proper(asked(j).settings)
  BY YmlsAreBuilds, ModernizedIsProper
<1>2. /\ Migrated(builds).settings = BaseSettings(settings)
      /\ DOMAIN Migrated(builds).variants = DOMAIN builds
      /\ \A i \in DOMAIN builds : Migrated(builds).variants[i].settings = Delta(settings, i)
  BY DEF Migrated
<1> HIDE DEF asked
<1>3. ASSUME NEW i \in DOMAIN builds, NEW k \in DOMAIN Delta(settings, i),
             Delta(settings, i)[k] = Null
      PROVE  k \in DOMAIN BaseSettings(settings)
  <2>1. k \in Keys(settings) /\ Get(settings[i], k) # BaseValue(settings, k)
    BY <1>3 DEF Delta
  <2>2. k \in DOMAIN settings[i] => settings[i][k] \notin {Absent, Null}
    BY <1>1 DEF Proper
  <2>3. Get(settings[i], k) = Absent
    BY <1>3, <2>2 DEF Delta, Get
  <2> QED BY <2>1, <2>3 DEF BaseSettings
<1> QED BY <1>2, <1>3 DEF UnsetsBaseKeys

-----------------------------------------------------------------------------
(* A non-empty set of natural numbers has a least one.                     *)
LEMMA LeastExists ==
    ASSUME NEW T \in SUBSET Nat, T # {}
    PROVE  \E n \in T : \A m \in T : n <= m
<1> DEFINE U == {1 .. n : n \in T}
<1>1. U # {} /\ U \subseteq FiniteSubsetsOf(Nat)
  <2>1. ASSUME NEW n \in Nat PROVE 1 .. n \in FiniteSubsetsOf(Nat)
    <3>1. IsFiniteSet(1 .. n)
      BY FS_Interval
    <3>2. 1 .. n \in SUBSET Nat
      OBVIOUS
    <3> QED BY <3>1, <3>2 DEF FiniteSubsetsOf
  <2> QED BY <2>1
<1> HIDE DEF U
<1>2. PICK x \in U : \A y \in U : ~ (<<y, x>> \in StrictSubsetOrdering(Nat))
  BY <1>1, FS_StrictSubsetOrderingWellFounded, WFMin
<1>3. PICK n \in T : x = 1 .. n
  BY <1>2 DEF U
<1>4. ASSUME NEW m \in T, m < n PROVE FALSE
  <2> DEFINE a == 1 .. m
  <2>1. a \in U
    BY DEF U
  <2>2. a \subseteq x /\ a # x /\ a \in SUBSET Nat /\ x \in SUBSET Nat
    <3>1. 1 .. m \subseteq 1 .. n /\ n \in 1 .. n /\ n \notin 1 .. m
      BY <1>4
    <3> QED BY <1>3, <3>1
  <2> HIDE DEF a
  <2>3. <<a, x>> \in StrictSubsetOrdering(Nat)
    BY <2>2 DEF StrictSubsetOrdering
  <2> QED BY <1>2, <2>1, <2>3
<1> QED BY <1>4

(* What holds of 0 and goes on from each number to the next holds of all.  *)
LEMMA Induct ==
    ASSUME NEW T, 0 \in T, \A n \in Nat : n \in T => n + 1 \in T
    PROVE  Nat \subseteq T
<1>1. SUFFICES ASSUME Nat \ T # {} PROVE FALSE
  OBVIOUS
<1>2. PICK n \in Nat \ T : \A m \in Nat \ T : n <= m
  BY <1>1, LeastExists
<1>3. n # 0 /\ n - 1 \in Nat
  BY <1>2
<1>4. n - 1 \in T
  BY <1>2, <1>3
<1> QED BY <1>2, <1>3, <1>4

-----------------------------------------------------------------------------
(* The function in the definition of Stems: what each build is called when *)
(* the earlier ones have their names.                                      *)
Called(u, builds, n) ==
    u = [i \in 1 .. n |-> IF Candidate(builds, i) \in {u[j] : j \in 1 .. (i - 1)}
                          THEN Numbered(Candidate(builds, i), i) ELSE Candidate(builds, i)]

(* It exists.                                                              *)
LEMMA StemsExist ==
    ASSUME NEW builds, NEW l \in Nat, DOMAIN builds = 1 .. l
    PROVE  Called(Stems(builds), builds, l)
<1> DEFINE T == {n \in Nat : \E u : Called(u, builds, n)}
<1>1. 0 \in T
  <2> DEFINE u == [i \in 1 .. 0 |-> i]
  <2>1. 1 .. 0 = {}
    OBVIOUS
  <2>2. Called(u, builds, 0)
    BY <2>1 DEF Called
  <2> QED BY <2>2
<1>2. ASSUME NEW n \in Nat, n \in T PROVE n + 1 \in T
  <2>1. PICK u : Called(u, builds, n)
    BY <1>2
  <2> DEFINE new == IF Candidate(builds, n + 1) \in {u[j] : j \in 1 .. n}
                    THEN Numbered(Candidate(builds, n + 1), n + 1) ELSE Candidate(builds, n + 1)
             h == [i \in 1 .. n + 1 |-> IF i = n + 1 THEN new ELSE u[i]]
  <2>2. /\ \A i \in 1 .. n + 1 : i # n + 1 => i \in 1 .. n
        /\ \A i \in 1 .. n + 1 : \A j \in 1 .. (i - 1) : j \in 1 .. n /\ j # n + 1
                                                         /\ j \in 1 .. n + 1
        /\ n + 1 \in 1 .. n + 1 /\ n + 1 - 1 = n
    OBVIOUS
  <2>3. \A j \in 1 .. n : h[j] = u[j]
    BY <2>2
  <2>4. h[n + 1] = new
    BY <2>2
  <2>5. DOMAIN h = 1 .. n + 1 /\ h = [i \in 1 .. n + 1 |-> h[i]]
    OBVIOUS
  <2>6. \A i \in 1 .. n :
          u[i] = IF Candidate(builds, i) \in {u[j] : j \in 1 .. (i - 1)}
                 THEN Numbered(Candidate(builds, i), i) ELSE Candidate(builds, i)
    BY <2>1 DEF Called
  <2> HIDE DEF h
  <2>7. ASSUME NEW i \in 1 .. n + 1
        PROVE  h[i] = IF Candidate(builds, i) \in {h[j] : j \in 1 .. (i - 1)}
                      THEN Numbered(Candidate(builds, i), i) ELSE Candidate(builds, i)
    <3>1. {h[j] : j \in 1 .. (i - 1)} = {u[j] : j \in 1 .. (i - 1)}
      <4>1. \A j \in 1 .. (i - 1) : h[j] = u[j]
        BY <2>2, <2>3
      <4> QED BY <4>1
    <3>2. CASE i = n + 1
      <4>1. {h[j] : j \in 1 .. (i - 1)} = {u[j] : j \in 1 .. n}
        <5>1. i - 1 = n
          BY <3>2
        <5> QED BY <3>1, <5>1
      <4> HIDE DEF new
      <4>2. h[i] = new
        BY <2>4, <3>2
      <4> QED BY <3>2, <4>1, <4>2 DEF new
    <3>3. CASE i # n + 1
      <4>1. i \in 1 .. n /\ h[i] = u[i]
        BY <2>2, <2>3, <3>3
      <4> QED BY <2>6, <3>1, <4>1
    <3> QED BY <3>2, <3>3
  <2>8. Called(h, builds, n + 1)
    BY <2>5, <2>7 DEF Called
  <2> QED BY <2>8
<1> HIDE DEF T
<1>3. \E u : Called(u, builds, l)
  BY <1>1, <1>2, Induct DEF T
<1>4. Stems(builds) = CHOOSE u : Called(u, builds, l)
  BY DEF Stems, Called
<1> QED BY <1>3, <1>4

(* Files of different names keep them.                                     *)
LEMMA CandidatesAreStems ==
    ASSUME NEW builds, NEW l \in Nat, DOMAIN builds = 1 .. l,
           \A i, j \in 1 .. l : Candidate(builds, i) = Candidate(builds, j) => i = j
    PROVE  \A i \in 1 .. l : Stems(builds)[i] = Candidate(builds, i)
<1> DEFINE u == Stems(builds)
           T == {n \in Nat : n <= l => \A i \in 1 .. n : u[i] = Candidate(builds, i)}
<1>1. \A i \in 1 .. l :
        u[i] = IF Candidate(builds, i) \in {u[j] : j \in 1 .. (i - 1)}
               THEN Numbered(Candidate(builds, i), i) ELSE Candidate(builds, i)
  <2>1. Called(u, builds, l)
    BY StemsExist
  <2> HIDE DEF u
  <2> QED BY <2>1 DEF Called
<1> HIDE DEF u
<1>2. 0 \in T
  OBVIOUS
<1>3. ASSUME NEW n \in Nat, n \in T PROVE n + 1 \in T
  <2> SUFFICES ASSUME n + 1 <= l, NEW i \in 1 .. n + 1 PROVE u[i] = Candidate(builds, i)
    OBVIOUS
  <2>1. \A j \in 1 .. n : u[j] = Candidate(builds, j)
    BY <1>3
  <2>2. CASE i = n + 1
    <3>1. /\ i \in 1 .. l /\ i - 1 = n
          /\ \A j \in 1 .. n : j \in 1 .. l /\ j # i
      BY <2>2
    <3>2. Candidate(builds, i) \notin {u[j] : j \in 1 .. (i - 1)}
      BY <2>1, <3>1
    <3> QED BY <1>1, <3>1, <3>2
  <2>3. CASE i # n + 1
    <3>1. i \in 1 .. n
      BY <2>3
    <3> QED BY <2>1, <3>1
  <2> QED BY <2>2, <2>3
<1> HIDE DEF T
<1>4. l \in T
  BY <1>2, <1>3, Induct
<1> QED BY <1>4 DEF T, u

(* Two names with the same beginning and the same end are the same.        *)
LEMMA SplitNames ==
    ASSUME NEW E, NEW s \in Seq(E), NEW t \in Seq(E), NEW n \in Nat, n < Len(s), n < Len(t),
           SubSeq(s, 1, n) = SubSeq(t, 1, n),
           SubSeq(s, n + 1, Len(s)) = SubSeq(t, n + 1, Len(t))
    PROVE  s = t
<1>1. Len(s) \in Nat /\ Len(t) \in Nat
  OBVIOUS
<1>2. Len(SubSeq(s, n + 1, Len(s))) = Len(s) - n /\ Len(SubSeq(t, n + 1, Len(t))) = Len(t) - n
  OBVIOUS
<1>3. Len(s) = Len(t)
  BY <1>1, <1>2
<1>4. ASSUME NEW i \in 1 .. Len(s) PROVE s[i] = t[i]
  <2>1. CASE i <= n
    <3>1. SubSeq(s, 1, n)[i] = s[i] /\ SubSeq(t, 1, n)[i] = t[i]
      BY <1>1, <1>3, <2>1
    <3> QED BY <3>1
  <2>2. CASE n < i
    <3>1. i - n \in 1 .. (Len(s) - n) /\ (n + 1) + (i - n) - 1 = i
      BY <1>1, <2>2
    <3>2. SubSeq(s, n + 1, Len(s))[i - n] = s[i] /\ SubSeq(t, n + 1, Len(t))[i - n] = t[i]
      BY <1>1, <1>3, <3>1
    <3> QED BY <3>2
  <2> QED BY <1>1, <2>1, <2>2
<1> QED BY <1>1, <1>3, <1>4

(* Names split from those of artifacts differ; names of files differ when  *)
(* those of the files do.                                                  *)
LEMMA NamesDiffer ==
    ASSUME NEW builds \in Ymls, ArtifactsDiffer(builds), ~ Unique(DeriveNames(builds).variants)
    PROVE  /\ ~ Splits(builds)
           /\ \E i, j \in DOMAIN builds : i # j /\ Candidate(builds, i) = Candidate(builds, j)
<1> DEFINE given == DeriveNames(builds).variants
<1>1. /\ DOMAIN given = DOMAIN builds
      /\ \A i \in DOMAIN builds :
            given[i] = IF Splits(builds) THEN OwnPart(builds, i) ELSE <<Stems(builds)[i]>>
  BY DEF DeriveNames
<1>2. PICK i, j \in DOMAIN builds : i # j /\ given[i] = given[j]
  BY <1>1 DEF Unique
<1> HIDE DEF given
<1>3. /\ 1 \in DOMAIN builds /\ DOMAIN builds = 1 .. Len(builds) /\ Len(builds) \in Nat
      /\ \A k \in DOMAIN builds : builds[k].base \in Seq(Word)
  BY YmlsAreBuilds
<1>4. CASE Splits(builds)
  <2> DEFINE n == Max(SharedWords(builds))
             m == Len(builds[1].base)
  <2>1. SharedWords(builds) \in SUBSET (1 .. m) /\ SharedWords(builds) # {} /\ m \in Nat
    <3>1. SharedWords(builds) \subseteq 1 .. m
      BY DEF SharedWords
    <3>2. m \in Nat
      BY <1>3
    <3> QED BY <1>4, <3>1, <3>2 DEF Splits
  <2>2. n \in SharedWords(builds)
    <3> HIDE DEF m
    <3> QED BY <2>1, LastExists
  <2>3. n \in Nat
    BY <2>1, <2>2
  <2>4. \A k \in DOMAIN builds : /\ n < Len(builds[k].base)
                                 /\ SubSeq(builds[k].base, 1, n) = SubSeq(builds[1].base, 1, n)
    <3> HIDE DEF n
    <3> QED BY <2>2 DEF SharedWords
  <2>5. OwnPart(builds, i) = OwnPart(builds, j)
    BY <1>1, <1>2, <1>4
  <2>6. SubSeq(builds[i].base, n + 1, Len(builds[i].base))
          = SubSeq(builds[j].base, n + 1, Len(builds[j].base))
    BY <2>5 DEF OwnPart
  <2> HIDE DEF n
  <2> DEFINE a == builds[i].base
             b == builds[j].base
  <2>7. /\ a \in Seq(Word) /\ b \in Seq(Word) /\ n < Len(a) /\ n < Len(b)
        /\ SubSeq(a, 1, n) = SubSeq(b, 1, n)
        /\ SubSeq(a, n + 1, Len(a)) = SubSeq(b, n + 1, Len(b))
    BY <1>2, <1>3, <2>4, <2>6
  <2> HIDE DEF a, b
  <2>8. a = b
    BY <2>3, <2>7, SplitNames
  <2> QED BY <1>2, <2>8 DEF ArtifactsDiffer, a, b
<1>5. CASE ~ Splits(builds)
  <2>1. Stems(builds)[i] = Stems(builds)[j]
    BY <1>1, <1>2, <1>5
  <2>2. CASE \A k, l \in DOMAIN builds : Candidate(builds, k) = Candidate(builds, l) => k = l
    <3>1. \A k \in DOMAIN builds : Stems(builds)[k] = Candidate(builds, k)
      BY <1>3, <2>2, CandidatesAreStems
    <3> QED BY <1>2, <2>1, <2>2, <3>1
  <2> QED BY <1>5, <2>2
<1> QED BY <1>4, <1>5

(* A configuration of one blank word is named after such an artifact.      *)
LEMMA BlankNames ==
    ASSUME NEW builds \in Ymls, NEW w, DeriveNames(builds).name = <<w>>
    PROVE  w = builds[1].base[1]
<1> DEFINE base == builds[1].base
<1>1. base \in Seq(Word)
  BY YmlsAreBuilds
<1>2. CASE Splits(builds)
  <2> DEFINE n == Max(SharedWords(builds))
             m == Len(base)
  <2>1. SharedWords(builds) \in SUBSET (1 .. m) /\ SharedWords(builds) # {} /\ m \in Nat
    <3>1. SharedWords(builds) \subseteq 1 .. m
      BY DEF SharedWords
    <3>2. m \in Nat
      BY <1>1
    <3> QED BY <1>2, <3>1, <3>2 DEF Splits
  <2>2. n \in 1 .. m
    <3> HIDE DEF m
    <3>1. n \in SharedWords(builds)
      BY <2>1, LastExists
    <3> QED BY <2>1, <3>1
  <2>3. SubSeq(base, 1, n) = <<w>>
    BY <1>2 DEF DeriveNames, CommonPart
  <2> HIDE DEF n, base
  <2>4. SubSeq(base, 1, n)[1] = base[1]
    BY <1>1, <2>2
  <2>5. <<w>>[1] = w
    OBVIOUS
  <2>6. w = base[1]
    BY <2>3, <2>4, <2>5
  <2> QED BY <2>6 DEF base
<1>3. CASE ~ Splits(builds)
  BY <1>3 DEF DeriveNames
<1> QED BY <1>2, <1>3

----------------------------------------------------------------------------
(* The ymls of the variants of a configuration. *)
RenderedFrom(c) ==
    [i \in DOMAIN c.variants |-> [shared |-> c.shared, flags |-> RenderEmccFlags(c, i)]]

(* Every stage after migrate holds the configuration of the given builds,  *)
(* every later one what is rendered from it, the last one the              *)
(* configuration migrated from that.                                       *)
MigrationInv ==
    /\ ymls \in Ymls
    /\ stage \in {"yml", "migrated", "refused", "rendered", "again"}
    /\ DOMAIN wrappers = ymls[1].shared.wrappers
    /\ todo \subseteq DOMAIN wrappers
    /\ stage \in {"migrated", "rendered", "again"} =>
          /\ config = Migrated(ymls) /\ names = DeriveNames(ymls)
          /\ Agree(ymls) /\ ArtifactsDiffer(ymls)
    /\ stage \in {"rendered", "again"} =>
          DOMAIN rendered = DOMAIN ymls /\ rendered = RenderedFrom(config)
    /\ stage = "again" => again = Migrated(rendered)
    /\ MigratedConfigLoads

LEMMA MigratedVariants ==
    ASSUME NEW builds
    PROVE  /\ DOMAIN Migrated(builds)
                = {"shared", "settings", "compilerFlags", "rawFlags", "variants"}
           /\ DOMAIN Migrated(builds).variants = DOMAIN builds
  BY DEF Migrated

(* What the loader refuses.                                                *)
LEMMA RefusedFor ==
    ASSUME MigrationInv, stage = "migrated", ~ Loads(config)
    PROVE  \/ ymls[1].shared.bindings = {}
           \/ \E w \in Blank : w = ymls[1].base[1]
           \/ \E w \in ymls[1].shared.wrappers : wrappers[w] = "missing" \/ w \in todo
           \/ /\ ~ Splits(ymls)
              /\ \E i, j \in DOMAIN ymls : i # j /\ Candidate(ymls, i) = Candidate(ymls, j)
<1>1. /\ ymls \in Ymls /\ config = Migrated(ymls) /\ names = DeriveNames(ymls)
      /\ ArtifactsDiffer(ymls)
  BY DEF MigrationInv
<1>2. UnsetsBaseKeys(config)
  BY <1>1, MigrationUnsetsBaseKeys
<1>3. DOMAIN config.variants # {}
  BY <1>1, MigratedVariants, YmlsAreBuilds
<1>4. config.shared = ymls[1].shared
  BY <1>1 DEF Migrated
<1>5. CASE ~ Unique(names.variants)
  BY <1>1, <1>5, NamesDiffer
<1>6. CASE \E w \in Blank : names.name = <<w>>
  BY <1>1, <1>6, BlankNames
<1> QED BY <1>2, <1>3, <1>4, <1>5, <1>6 DEF Loads

(* MigrationInv is an invariant. *)
THEOREM StagesHoldTheMigration == MigrationSpec => []MigrationInv
<1>1. MigrationInit => MigrationInv
  BY DEF MigrationInit, MigrationInv, MigratedConfigLoads
<1>2. MigrationInv /\ [MigrationNext]_migrationVars => MigrationInv'
  <2> SUFFICES ASSUME MigrationInv, [MigrationNext]_migrationVars PROVE MigrationInv'
    OBVIOUS
  <2>1. CASE Migrate
    BY <2>1 DEF Migrate, MigrationInv, MigratedConfigLoads
  <2>2. CASE Render
    <3>1. CASE Loads(config)
      <4>1. /\ stage = "migrated" /\ stage' = "rendered"
            /\ rendered' = RenderedFrom(config)
            /\ UNCHANGED <<ymls, wrappers, config, names, todo, again>>
        BY <2>2, <3>1 DEF Render, RenderedFrom
      <4>2. DOMAIN rendered' = DOMAIN ymls
        BY <4>1, MigratedVariants DEF MigrationInv, RenderedFrom
      <4> QED BY <4>1, <4>2 DEF MigrationInv, MigratedConfigLoads
    <3>2. CASE ~ Loads(config)
      <4>1. /\ stage = "migrated" /\ stage' = "refused"
            /\ UNCHANGED <<ymls, wrappers, config, names, todo, again>>
        BY <2>2, <3>2 DEF Render
      <4>2. MigratedConfigLoads'
        BY <3>2, <4>1, RefusedFor DEF MigratedConfigLoads
      <4> QED BY <4>1, <4>2 DEF MigrationInv
    <3> QED BY <3>1, <3>2
  <2>3. CASE MigrateAgain
    BY <2>3 DEF MigrateAgain, MigrationInv, MigratedConfigLoads
  <2>4. ASSUME NEW w \in DOMAIN wrappers, NEW content, EditWrapper(w, content)
        PROVE  MigrationInv'
    BY <2>4 DEF EditWrapper, MigrationInv, MigratedConfigLoads
  <2>5. ASSUME NEW w \in todo, FillIn(w) PROVE MigrationInv'
    BY <2>5 DEF FillIn, MigrationInv, MigratedConfigLoads
  <2>6. CASE UNCHANGED migrationVars
    BY <2>6 DEF migrationVars, MigrationInv, MigratedConfigLoads
  <2> QED BY <2>1, <2>2, <2>3, <2>4, <2>5, <2>6 DEF MigrationNext
<1> QED BY <1>1, <1>2, PTL DEF MigrationSpec

(* The types of the variables. *)
THEOREM MigrationTypeCorrect == MigrationSpec => []MigrationTypeOK
<1>1. MigrationInv => MigrationTypeOK
  BY MigratedVariants DEF MigrationInv, MigrationTypeOK, DeriveNames
<1> QED BY <1>1, StagesHoldTheMigration, PTL

(* The base and the delta of every build merge back into what it asked. *)
THEOREM BuildsKeepTheirFlags == MigrationSpec => []EveryBuildKeepsItsFlags
<1>1. MigrationInv => EveryBuildKeepsItsFlags
  BY MigrationMergesBack DEF MigrationInv, EveryBuildKeepsItsFlags, Asked
<1> QED BY <1>1, StagesHoldTheMigration, PTL

(* The loader refuses a migrated configuration only for what the ymls say  *)
(* or a wrapper file lacks.                                                *)
THEOREM LoaderAccepts == MigrationSpec => []MigratedConfigLoads
<1>1. MigrationInv => MigratedConfigLoads
  BY DEF MigrationInv
<1> QED BY <1>1, StagesHoldTheMigration, PTL

(* What the modernised flags of a build say of threads is what it asked. *)
LEMMA ModernizedThreads ==
    ASSUME NEW flags \in Seq(Flag)
    PROVE  LET asked == Modernize(ParseFlags(flags))
           IN  AsksForThreads(flags)
                 <=> \/ Get(asked.compilerFlags, "threads") = "true"
                     \/ SettingEnabled(Get(asked.settings, "USE_PTHREADS"))
                     \/ SettingEnabled(Get(asked.settings, "SHARED_MEMORY"))
<1> DEFINE parsed == ParseFlags(flags)
           threaded == ThreadFlag(parsed)
           asked == ExceptionHelpers(threaded)
           kept == Delete(threaded.settings, "EXPORT_EXCEPTION_HANDLING_HELPERS")
<1>1. "threads" \in DOMAIN parsed.compilerFlags => parsed.compilerFlags["threads"] = "true"
  BY LastWinsGivesFlags, FlagAssumption DEF ParseFlags, Typed
<1>2. threaded.settings = Delete(parsed.settings, "USE_PTHREADS")
  BY DEF ThreadFlag, ParseFlags
<1>3. threaded.compilerFlags =
        IF SettingEnabled(Get(parsed.settings, "USE_PTHREADS"))
        THEN Set(parsed.compilerFlags, "threads", "true") ELSE parsed.compilerFlags
  BY DEF ThreadFlag, ParseFlags
<1>4. /\ asked.compilerFlags = threaded.compilerFlags
      /\ \/ asked.settings = threaded.settings
         \/ asked.settings = Set(kept, "EXPORTED_RUNTIME_METHODS", Methods(kept) \union Helpers)
  BY DEF ExceptionHelpers, ThreadFlag, ParseFlags
<1>5. Get(asked.settings, "USE_PTHREADS") = Absent
  BY <1>2, <1>4 DEF Get, Set, Delete
<1>6. Get(asked.settings, "SHARED_MEMORY") = Get(parsed.settings, "SHARED_MEMORY")
  <2>1. Get(threaded.settings, "SHARED_MEMORY")
          = Get(parsed.settings, "SHARED_MEMORY")
    <3> HIDE DEF parsed, threaded
    <3> QED BY <1>2 DEF Get, Delete
  <2>2. Get(asked.settings, "SHARED_MEMORY")
          = Get(threaded.settings, "SHARED_MEMORY")
    <3> HIDE DEF asked, threaded
    <3> QED BY <1>4 DEF Get, Set, Delete
  <2> QED BY <2>1, <2>2
<1>7. Get(asked.compilerFlags, "threads") = "true"
        <=> \/ "threads" \in DOMAIN parsed.compilerFlags
            \/ SettingEnabled(Get(parsed.settings, "USE_PTHREADS"))
  <2>1. CASE SettingEnabled(Get(parsed.settings, "USE_PTHREADS"))
    BY <2>1, <1>3, <1>4 DEF Get, Set
  <2>2. CASE ~ SettingEnabled(Get(parsed.settings, "USE_PTHREADS"))
    BY <2>2, <1>1, <1>3, <1>4, MarkAssumption DEF Get
  <2> QED BY <2>1, <2>2
<1>8. ~ SettingEnabled(Get(asked.settings, "USE_PTHREADS"))
  BY <1>5 DEF SettingEnabled
<1> HIDE DEF parsed, asked
<1> QED BY <1>6, <1>7, <1>8 DEF AsksForThreads, Modernize, parsed, asked

(* The image, and the probe, of every variant follow its yml. *)
THEOREM ThreadsFollow == MigrationSpec => []ThreadsFollowTheYml
<1>1. MigrationInv => ThreadsFollowTheYml
  <2> SUFFICES ASSUME MigrationInv, stage = "migrated", NEW i \in DOMAIN ymls
               PROVE  VariantRequiresThreads(config, i) <=> AsksForThreads(ymls[i].flags)
    BY DEF ThreadsFollowTheYml
  <2>1. /\ config = Migrated(ymls) /\ ymls \in Ymls
        /\ ymls[i].flags \in Seq(Flag)
    BY YmlsAreBuilds DEF MigrationInv
  <2>2. /\ MergeSettings(config, i) = Asked(i).settings
        /\ MergeCompilerFlags(config, i) = Asked(i).compilerFlags
    BY <2>1, MigrationMergesBack DEF Asked
  <2> QED BY <2>1, <2>2, ModernizedThreads DEF VariantRequiresThreads, Asked
<1> QED BY <1>1, StagesHoldTheMigration, PTL

-----------------------------------------------------------------------------
(* The function in the definition of Keep: what the prefixes of s keep.    *)
Keeps(g, s, S) == g = [i \in 0 .. Len(s) |->
                         IF i = 0 THEN <<>>
                         ELSE IF s[i] \in S THEN Append(g[i - 1], s[i]) ELSE g[i - 1]]

(* It exists.                                                              *)
LEMMA KeepsExists ==
    ASSUME NEW E, NEW s \in Seq(E), NEW S
    PROVE  \E g : Keeps(g, s, S) /\ Keep(s, S) = g[Len(s)]
<1> DEFINE Upto(n, g) == g = [i \in 0 .. n |->
                         IF i = 0 THEN <<>>
                         ELSE IF s[i] \in S THEN Append(g[i - 1], s[i]) ELSE g[i - 1]]
           T == {n \in Nat : \E g : Upto(n, g)}
<1>1. 0 \in T
  <2>1. Upto(0, [i \in 0 .. 0 |-> <<>>])
    OBVIOUS
  <2> QED BY <2>1
<1>2. ASSUME NEW n \in Nat, n \in T PROVE n + 1 \in T
  <2>1. PICK g : Upto(n, g)
    BY <1>2
  <2> DEFINE new == IF s[n + 1] \in S THEN Append(g[n], s[n + 1]) ELSE g[n]
             h == [i \in 0 .. n + 1 |-> IF i = n + 1 THEN new ELSE g[i]]
  <2>2. /\ n + 1 # 0 /\ n + 1 - 1 = n /\ n \in 0 .. n /\ n # n + 1
        /\ \A i \in 0 .. n + 1 : i # n + 1 => i \in 0 .. n
        /\ \A i \in 0 .. n : i # n + 1 /\ i \in 0 .. n + 1
                             /\ (i # 0 => i - 1 \in 0 .. n /\ i - 1 # n + 1
                                          /\ i - 1 \in 0 .. n + 1)
    OBVIOUS
  <2>3. \A i \in 0 .. n : g[i] = IF i = 0 THEN <<>>
                         ELSE IF s[i] \in S THEN Append(g[i - 1], s[i]) ELSE g[i - 1]
    BY <2>1
  <2>4. h[n] = g[n] /\ h[n + 1] = new
    BY <2>2
  <2>5. \A i \in 0 .. n : h[i] = g[i] /\ (i # 0 => h[i - 1] = g[i - 1])
    BY <2>2
  <2>6. ASSUME NEW i \in 0 .. n + 1
        PROVE  h[i] = IF i = 0 THEN <<>>
                      ELSE IF s[i] \in S THEN Append(h[i - 1], s[i]) ELSE h[i - 1]
    <3>1. CASE i = n + 1
      <4> HIDE DEF h
      <4> QED BY <2>2, <2>4, <3>1
    <3>2. CASE i # n + 1
      <4>1. i \in 0 .. n
        BY <2>2, <3>2
      <4> HIDE DEF h
      <4> QED BY <2>3, <2>5, <4>1
    <3> QED BY <3>1, <3>2
  <2>7. DOMAIN h = 0 .. n + 1 /\ h = [i \in 0 .. n + 1 |-> h[i]]
    OBVIOUS
  <2> HIDE DEF h
  <2>8. Upto(n + 1, h)
    BY <2>6, <2>7
  <2> QED BY <2>8
<1> HIDE DEF T
<1>3. Nat \subseteq T
  BY <1>1, <1>2, Induct
<1>4. Len(s) \in Nat
  OBVIOUS
<1>5. \E g : Keeps(g, s, S)
  BY <1>3, <1>4 DEF T, Keeps
<1>6. Keep(s, S) = (CHOOSE g : Keeps(g, s, S))[Len(s)]
  BY DEF Keep, Keeps
<1> QED BY <1>5, <1>6

(* One step of it.                                                         *)
LEMMA KeepsStep ==
    ASSUME NEW E, NEW s \in Seq(E), NEW S, NEW g, Keeps(g, s, S)
    PROVE  /\ g[0] = <<>>
           /\ \A n \in Nat : n + 1 <= Len(s) =>
                /\ s[n + 1] \in E /\ n + 1 \in DOMAIN s
                /\ g[n + 1] = IF s[n + 1] \in S THEN Append(g[n], s[n + 1]) ELSE g[n]
<1>1. Len(s) \in Nat
  OBVIOUS
<1>2. \A i \in 0 .. Len(s) :
        g[i] = IF i = 0 THEN <<>>
               ELSE IF s[i] \in S THEN Append(g[i - 1], s[i]) ELSE g[i - 1]
  BY DEF Keeps
<1>3. g[0] = <<>>
  BY <1>1, <1>2
<1>4. ASSUME NEW n \in Nat, n + 1 <= Len(s)
      PROVE  /\ s[n + 1] \in E /\ n + 1 \in DOMAIN s
             /\ g[n + 1] = IF s[n + 1] \in S THEN Append(g[n], s[n + 1]) ELSE g[n]
  <2>1. n + 1 \in 0 .. Len(s) /\ n + 1 # 0 /\ n + 1 - 1 = n /\ n + 1 \in 1 .. Len(s)
    BY <1>1, <1>4
  <2>2. g[n + 1] = IF s[n + 1] \in S THEN Append(g[n + 1 - 1], s[n + 1]) ELSE g[n + 1 - 1]
    BY <1>2, <2>1
  <2> QED BY <2>1, <2>2
<1> QED BY <1>3, <1>4

LEMMA ToSetAppend ==
    ASSUME NEW E, NEW s \in Seq(E), NEW e \in E
    PROVE  Append(s, e) \in Seq(E) /\ ToSet(Append(s, e)) = ToSet(s) \union {e}
<1>1. /\ Append(s, e) \in Seq(E) /\ Len(Append(s, e)) = Len(s) + 1 /\ Len(s) \in Nat
      /\ \A i \in 1 .. Len(s) : Append(s, e)[i] = s[i]
      /\ Append(s, e)[Len(s) + 1] = e
  OBVIOUS
<1>2. DOMAIN Append(s, e) = 1 .. Len(s) + 1 /\ DOMAIN s = 1 .. Len(s)
  OBVIOUS
<1>3. 1 .. Len(s) + 1 = (1 .. Len(s)) \union {Len(s) + 1}
  BY <1>1
<1> QED BY <1>1, <1>2, <1>3 DEF ToSet

LEMMA ConcatElements ==
    ASSUME NEW E, NEW s \in Seq(E), NEW t \in Seq(E)
    PROVE  /\ s \o t \in Seq(E) /\ Len(s \o t) = Len(s) + Len(t)
           /\ Len(s) \in Nat /\ Len(t) \in Nat
           /\ \A i \in 1 .. Len(s) + Len(t) :
                 (s \o t)[i] = IF i <= Len(s) THEN s[i] ELSE t[i - Len(s)]
           /\ DOMAIN (s \o t) = 1 .. Len(s) + Len(t)
           /\ DOMAIN s = 1 .. Len(s) /\ DOMAIN t = 1 .. Len(t)
  OBVIOUS

LEMMA AllOfIt ==
    ASSUME NEW p \in Nat, NEW m \in Nat, NEW n \in Nat, n <= p + m, ~ (n + 1 <= p + m)
    PROVE  n - p = m
  OBVIOUS

LEMMA ToSetConcat ==
    ASSUME NEW E, NEW s \in Seq(E), NEW t \in Seq(E)
    PROVE  s \o t \in Seq(E) /\ ToSet(s \o t) = ToSet(s) \union ToSet(t)
<1>1. /\ s \o t \in Seq(E) /\ Len(s \o t) = Len(s) + Len(t)
      /\ Len(s) \in Nat /\ Len(t) \in Nat
      /\ \A i \in 1 .. Len(s) + Len(t) :
            (s \o t)[i] = IF i <= Len(s) THEN s[i] ELSE t[i - Len(s)]
      /\ DOMAIN (s \o t) = 1 .. Len(s) + Len(t)
      /\ DOMAIN s = 1 .. Len(s) /\ DOMAIN t = 1 .. Len(t)
  BY ConcatElements
<1>2. ASSUME NEW x \in ToSet(s \o t) PROVE x \in ToSet(s) \union ToSet(t)
  <2>1. PICK i \in 1 .. Len(s) + Len(t) : x = (s \o t)[i]
    BY <1>1 DEF ToSet
  <2>2. i <= Len(s) => i \in 1 .. Len(s)
    BY <1>1
  <2>3. ~ (i <= Len(s)) => i - Len(s) \in 1 .. Len(t)
    BY <1>1
  <2>4. x = IF i <= Len(s) THEN s[i] ELSE t[i - Len(s)]
    BY <1>1, <2>1
  <2> QED BY <1>1, <2>2, <2>3, <2>4 DEF ToSet
<1>3. ASSUME NEW x \in ToSet(s) PROVE x \in ToSet(s \o t)
  <2>1. PICK i \in 1 .. Len(s) : x = s[i]
    BY <1>1 DEF ToSet
  <2>2. i \in 1 .. Len(s) + Len(t) /\ i <= Len(s)
    BY <1>1
  <2> QED BY <1>1, <2>1, <2>2 DEF ToSet
<1>4. ASSUME NEW x \in ToSet(t) PROVE x \in ToSet(s \o t)
  <2>1. PICK i \in 1 .. Len(t) : x = t[i]
    BY <1>1 DEF ToSet
  <2>2. /\ i + Len(s) \in 1 .. Len(s) + Len(t) /\ ~ (i + Len(s) <= Len(s))
        /\ i + Len(s) - Len(s) = i
    BY <1>1
  <2>3. (s \o t)[i + Len(s)] = x
    BY <1>1, <2>1, <2>2
  <2> QED BY <1>1, <2>2, <2>3 DEF ToSet
<1> QED BY <1>1, <1>2, <1>3, <1>4

(* Keep gives the elements of s that are in S, and nothing else.           *)
LEMMA KeepSelects ==
    ASSUME NEW E, NEW s \in Seq(E), NEW S
    PROVE  Keep(s, S) \in Seq(E) /\ ToSet(Keep(s, S)) = ToSet(s) \intersect S
<1>1. PICK g : Keeps(g, s, S) /\ Keep(s, S) = g[Len(s)]
  BY KeepsExists
<1> DEFINE before(n) == {s[j] : j \in 1 .. n}
           T == {n \in Nat : n <= Len(s) =>
                   g[n] \in Seq(E) /\ ToSet(g[n]) = before(n) \intersect S}
<1>2. 0 \in T
  <2>1. g[0] = <<>>
    BY <1>1, KeepsStep
  <2>2. <<>> \in Seq(E) /\ ToSet(<<>>) = {} /\ before(0) = {}
    BY DEF ToSet
  <2> QED BY <2>1, <2>2
<1>3. ASSUME NEW n \in Nat, n \in T PROVE n + 1 \in T
  <2> SUFFICES ASSUME n + 1 <= Len(s)
               PROVE  /\ g[n + 1] \in Seq(E)
                      /\ ToSet(g[n + 1]) = before(n + 1) \intersect S
    OBVIOUS
  <2>1. /\ s[n + 1] \in E
        /\ g[n + 1] = IF s[n + 1] \in S THEN Append(g[n], s[n + 1]) ELSE g[n]
    BY <1>1, KeepsStep
  <2>2. g[n] \in Seq(E) /\ ToSet(g[n]) = before(n) \intersect S
    BY <1>3
  <2>3. before(n + 1) = before(n) \union {s[n + 1]}
    <3>1. 1 .. n + 1 = (1 .. n) \union {n + 1}
      OBVIOUS
    <3> QED BY <3>1
  <2> HIDE DEF before
  <2>4. CASE s[n + 1] \in S
    BY <2>1, <2>2, <2>3, <2>4, ToSetAppend
  <2>5. CASE s[n + 1] \notin S
    BY <2>1, <2>2, <2>3, <2>5
  <2> QED BY <2>4, <2>5
<1> HIDE DEF T
<1>4. Len(s) \in T
  BY <1>2, <1>3, Induct
<1>5. g[Len(s)] \in Seq(E) /\ ToSet(g[Len(s)]) = before(Len(s)) \intersect S
  BY <1>4 DEF T
<1>6. before(Len(s)) = ToSet(s)
  BY DEF ToSet
<1> QED BY <1>1, <1>5, <1>6

(* It keeps a part of a list whole when the rest of the list is outside.   *)
LEMMA KeepPart ==
    ASSUME NEW E, NEW a \in Seq(E), NEW b \in Seq(E), NEW c \in Seq(E), NEW S,
           ToSet(a) \intersect S = {}, ToSet(b) \subseteq S, ToSet(c) \intersect S = {}
    PROVE  Keep(a \o b \o c, S) = b
<1> DEFINE s == a \o b \o c
           p == Len(a)
           q == Len(a) + Len(b)
           part(n) == IF n <= p THEN <<>> ELSE IF n <= q THEN SubSeq(b, 1, n - p) ELSE b
<1>1. /\ s \in Seq(E) /\ Len(s) = q + Len(c) /\ p \in Nat /\ q \in Nat /\ p <= q
      /\ Len(b) \in Nat /\ Len(c) \in Nat /\ q - p = Len(b)
      /\ \A i \in 1 .. Len(s) : s[i] = IF i <= p THEN a[i]
                                       ELSE IF i <= q THEN b[i - p] ELSE c[i - q]
  <2>1. a \o b \in Seq(E) /\ Len(a \o b) = q /\ p \in Nat /\ Len(b) \in Nat
        /\ \A i \in 1 .. q : (a \o b)[i] = IF i <= p THEN a[i] ELSE b[i - p]
    OBVIOUS
  <2>2. s \in Seq(E) /\ Len(s) = q + Len(c) /\ Len(c) \in Nat
        /\ \A i \in 1 .. q + Len(c) : s[i] = IF i <= q THEN (a \o b)[i] ELSE c[i - q]
    <3> DEFINE d == a \o b
    <3> HIDE DEF d
    <3>1. d \in Seq(E) /\ Len(d) = q
      BY <2>1 DEF d
    <3>2. d \o c \in Seq(E) /\ Len(d \o c) = Len(d) + Len(c) /\ Len(c) \in Nat
        /\ \A i \in 1 .. Len(d) + Len(c) :
              (d \o c)[i] = IF i <= Len(d) THEN d[i] ELSE c[i - Len(d)]
      <4>1. d \in Seq(E) /\ c \in Seq(E)
        BY <3>1
      <4> QED BY <4>1, ConcatElements, Zenon
    <3> QED BY <3>1, <3>2 DEF d
  <2> HIDE DEF s
  <2> QED BY <2>1, <2>2
<1> HIDE DEF s
<1>2. PICK g : Keeps(g, s, S) /\ Keep(s, S) = g[Len(s)]
  BY <1>1, KeepsExists
<1> DEFINE T == {n \in Nat : n <= Len(s) => g[n] = part(n)}
<1>3. 0 \in T
  BY <1>1, <1>2, KeepsStep
<1>4. ASSUME NEW n \in Nat, n \in T PROVE n + 1 \in T
  <2> SUFFICES ASSUME n + 1 <= Len(s) PROVE g[n + 1] = part(n + 1)
    OBVIOUS
  <2>1. g[n + 1] = IF s[n + 1] \in S THEN Append(g[n], s[n + 1]) ELSE g[n]
    BY <1>1, <1>2, KeepsStep
  <2>2. g[n] = part(n)
    BY <1>1, <1>4
  <2>3. n + 1 \in 1 .. Len(s)
    BY <1>1
  <2>4. CASE n + 1 <= p
    <3>1. s[n + 1] = a[n + 1] /\ n + 1 \in DOMAIN a /\ n <= p
      BY <1>1, <2>3, <2>4
    <3>2. s[n + 1] \notin S
      BY <3>1 DEF ToSet
    <3> QED BY <2>1, <2>2, <2>4, <3>1, <3>2
  <2>5. CASE ~ (n + 1 <= p) /\ n + 1 <= q
    <3> DEFINE m == n - p
    <3>1. /\ s[n + 1] = b[m + 1] /\ m \in Nat /\ m + 1 \in 1 .. Len(b)
          /\ n + 1 - p = m + 1 /\ n <= q /\ n = p + m
      BY <1>1, <2>3, <2>5
    <3>2. b[m + 1] \in S
      BY <3>1 DEF ToSet
    <3>3. part(n) = SubSeq(b, 1, m)
      <4>1. m = 0 => SubSeq(b, 1, m) = <<>>
        OBVIOUS
      <4>2. n <= p <=> m = 0
        BY <1>1, <3>1
      <4> QED BY <3>1, <4>1, <4>2
    <3>4. part(n + 1) = SubSeq(b, 1, m + 1)
      BY <2>5, <3>1
    <3> HIDE DEF m
    <3>5. Append(SubSeq(b, 1, m), b[m + 1]) = SubSeq(b, 1, m + 1)
      BY <3>1
    <3> QED BY <2>1, <2>2, <3>1, <3>2, <3>3, <3>4, <3>5
  <2>6. CASE ~ (n + 1 <= q)
    <3>1. s[n + 1] = c[n + 1 - q] /\ n + 1 - q \in 1 .. Len(c)
      BY <1>1, <2>3, <2>6
    <3>2. s[n + 1] \notin S
      BY <3>1 DEF ToSet
    <3>3. part(n + 1) = b
      BY <1>1, <2>6
    <3>4. part(n) = b
      <4>1. CASE n <= p
        <5>1. Len(b) = 0
          BY <1>1, <2>6, <4>1
        <5>2. b = <<>>
          BY <5>1
        <5> QED BY <4>1, <5>2
      <4>2. CASE ~ (n <= p) /\ n <= q
        <5>1. n - p = Len(b)
          <6> DEFINE m == Len(b)
                     r == Len(a)
          <6>1. m \in Nat /\ r \in Nat
            OBVIOUS
          <6>2. n <= r + m /\ ~ (n + 1 <= r + m)
            BY <2>6, <4>2
          <6> HIDE DEF m, r
          <6>3. n - r = m
            BY <6>1, <6>2, AllOfIt
          <6> QED BY <6>3 DEF m, r
        <5>2. SubSeq(b, 1, Len(b)) = b
          OBVIOUS
        <5> QED BY <4>2, <5>1, <5>2
      <4>3. CASE ~ (n <= q)
        BY <1>1, <4>3
      <4> QED BY <4>1, <4>2, <4>3
    <3> QED BY <2>1, <2>2, <3>2, <3>3, <3>4
  <2> QED BY <2>4, <2>5, <2>6
<1> HIDE DEF T
<1>5. Len(s) \in T
  <2>1. Len(s) \in Nat
    BY <1>1
  <2>2. Nat \subseteq T
    BY <1>3, <1>4, Induct
  <2> QED BY <2>1, <2>2
<1>6. g[Len(s)] = part(Len(s))
  BY <1>5 DEF T
<1>7. part(Len(s)) = b
  <2>1. CASE Len(s) <= p
    <3>1. Len(b) = 0
      BY <1>1, <2>1
    <3> QED BY <2>1, <3>1
  <2>2. CASE ~ (Len(s) <= p) /\ Len(s) <= q
    <3>1. Len(s) - p = Len(b)
      <4> DEFINE m == Len(b)
                 r == Len(a)
                 l == Len(s)
                 k == Len(c)
      <4>1. m \in Nat /\ r \in Nat /\ l \in Nat /\ k \in Nat
        BY <1>1
      <4>2. l <= r + m /\ l = r + m + k
        BY <1>1, <2>2
      <4> HIDE DEF m, r, l, k
      <4>3. l - r = m
        BY <4>1, <4>2
      <4> QED BY <4>3 DEF m, r, l
    <3>2. SubSeq(b, 1, Len(b)) = b
      OBVIOUS
    <3> QED BY <2>2, <3>1, <3>2
  <2>3. CASE ~ (Len(s) <= q)
    BY <1>1, <2>3
  <2> QED BY <2>1, <2>2, <2>3
<1> QED BY <1>2, <1>6, <1>7 DEF s

(* The same when that part begins or ends the list.                        *)
LEMMA KeepEnd ==
    ASSUME NEW E, NEW a \in Seq(E), NEW b \in Seq(E), NEW S,
           ToSet(a) \intersect S = {}, ToSet(b) \subseteq S
    PROVE  Keep(a \o b, S) = b
<1> DEFINE e == <<>>
<1>1. e \in Seq(E) /\ ToSet(e) \intersect S = {}
  BY DEF ToSet
<1>2. (a \o b) \o e = a \o b
  <2>1. a \o b \in Seq(E)
    BY ConcatElements
  <2> QED BY <2>1, ConcatEmptySeq
<1> HIDE DEF e
<1>3. Keep(a \o b \o e, S) = b
  BY <1>1, KeepPart
<1> QED BY <1>2, <1>3

LEMMA KeepStart ==
    ASSUME NEW E, NEW b \in Seq(E), NEW c \in Seq(E), NEW S,
           ToSet(b) \subseteq S, ToSet(c) \intersect S = {}
    PROVE  Keep(b \o c, S) = b
<1> DEFINE e == <<>>
<1>1. e \in Seq(E) /\ ToSet(e) \intersect S = {}
  BY DEF ToSet
<1>2. e \o b = b
  BY ConcatEmptySeq
<1> HIDE DEF e
<1>3. Keep(e \o b \o c, S) = b
  BY <1>1, KeepPart
<1> QED BY <1>2, <1>3

-----------------------------------------------------------------------------
(* The sequence of a finite set has its elements.                          *)
LEMMA SeqOfSet ==
    ASSUME NEW S, IsFiniteSet(S)
    PROVE  SetToSeq(S) \in Seq(S) /\ ToSet(SetToSeq(S)) = S
<1> DEFINE n == Cardinality(S)
           I == 1 .. n
<1>1. n \in Nat /\ ExistsBijection(I, S)
  BY FS_CardinalityType
<1>2. PICK f : f \in Bijection(I, S)
  BY <1>1 DEF ExistsBijection
<1>3. f \in [I -> S] /\ IsInjective(f)
  BY <1>2 DEF Bijection, Injection
<1>4. SetToSeq(S) \in [I -> S] /\ IsInjective(SetToSeq(S))
  BY <1>3 DEF SetToSeq
<1>5. Cardinality(I) = n
  BY <1>1, FS_Interval
<1> HIDE DEF I
<1>6. SetToSeq(S) \in Injection(I, S)
  BY <1>4 DEF Injection
<1>7. SetToSeq(S) \in Surjection(I, S)
  BY <1>5, <1>6, FS_Injection
<1>8. ToSet(SetToSeq(S)) = S
  BY <1>4, <1>7 DEF ToSet, Surjection
<1>9. SetToSeq(S) \in Seq(S)
  BY <1>1, <1>4 DEF I
<1> QED BY <1>8, <1>9

(* The flags that a map of settings or typed flags is rendered to.         *)
Records(form, map) == {[form |-> form, key |-> k, value |-> map[k]] : k \in DOMAIN map}

LEMMA RenderingOf ==
    ASSUME NEW form, NEW map, IsFiniteSet(DOMAIN map), Records(form, map) \subseteq Flag
    PROVE  /\ Rendering(form, map) \in Seq(Flag)
           /\ ToSet(Rendering(form, map)) = Records(form, map)
<1> DEFINE S == Records(form, map)
           f == [k \in DOMAIN map |-> [form |-> form, key |-> k, value |-> map[k]]]
<1>1. f \in Surjection(DOMAIN map, S)
  BY DEF Records, Surjection
<1>2. IsFiniteSet(S)
  BY <1>1, FS_Surjection
<1>3. Rendering(form, map) = SetToSeq(S)
  BY DEF Rendering, Records
<1>4. SetToSeq(S) \in Seq(S) /\ ToSet(SetToSeq(S)) = S
  BY <1>2, SeqOfSet
<1> HIDE DEF S
<1>5. S \subseteq Flag
  BY DEF S
<1>6. SetToSeq(S) \in Seq(Flag)
  BY <1>4, <1>5
<1> QED BY <1>3, <1>4, <1>6 DEF S

(* The keys of the flags of a build are finitely many.                     *)
LEMMA LastWinsIsFinite ==
    ASSUME NEW flags \in Seq(Flag), NEW form
    PROVE  IsFiniteSet(DOMAIN LastWins(flags, form))
<1> DEFINE I == {i \in DOMAIN flags : Typed(flags[i], form)}
           K == DOMAIN LastWins(flags, form)
           f == [i \in I |-> flags[i].key]
<1>1. K = {flags[i].key : i \in I}
  BY DEF LastWins
<1>2. f \in Surjection(I, K)
  <2> HIDE DEF K, I
  <2> QED BY <1>1 DEF Surjection
<1>3. IsFiniteSet(I)
  <2>1. I \subseteq 1 .. Len(flags) /\ Len(flags) \in Nat
    OBVIOUS
  <2>2. IsFiniteSet(1 .. Len(flags))
    BY <2>1, FS_Interval
  <2> HIDE DEF I
  <2> QED BY <2>1, <2>2, FS_Subset
<1> QED BY <1>2, <1>3, FS_Surjection

(* Flags whose typed ones of a form are a map's read as this map.          *)
LEMMA LastWinsOf ==
    ASSUME NEW flags \in Seq(Flag), NEW form, NEW map, map = [k \in DOMAIN map |-> map[k]],
           {f \in ToSet(flags) : Typed(f, form)} = Records(form, map)
    PROVE  LastWins(flags, form) = map
<1> DEFINE read == LastWins(flags, form)
           given == {f \in ToSet(flags) : Typed(f, form)}
<1>1. DOMAIN read = {f.key : f \in given}
  <2>1. DOMAIN read = {flags[i].key : i \in {j \in DOMAIN flags : Typed(flags[j], form)}}
    BY DEF LastWins
  <2>2. given = {flags[i] : i \in {j \in DOMAIN flags : Typed(flags[j], form)}}
    BY DEF ToSet
  <2> HIDE DEF given, read
  <2> QED BY <2>1, <2>2
<1>2. \A f \in given : f.key \in DOMAIN map /\ f.value = map[f.key]
  BY DEF Records
<1>3. ASSUME NEW k \in DOMAIN map PROVE \E f \in given : f.key = k
  <2> DEFINE f == [form |-> form, key |-> k, value |-> map[k]]
  <2>1. f \in given /\ f.key = k
    BY DEF Records
  <2> QED BY <2>1
<1>4. \A k \in DOMAIN read : \E f \in given : f.key = k /\ read[k] = f.value
  BY LastWinsGivesMembers
<1>5. read = [k \in DOMAIN read |-> read[k]]
  BY DEF LastWins
<1> HIDE DEF given, read
<1>6. DOMAIN read = DOMAIN map
  BY <1>1, <1>2, <1>3
<1>7. \A k \in DOMAIN map : read[k] = map[k]
  BY <1>2, <1>4, <1>6
<1>8. [k \in DOMAIN read |-> read[k]] = [k \in DOMAIN map |-> map[k]]
  BY <1>6, <1>7
<1> QED BY <1>5, <1>8 DEF read

-----------------------------------------------------------------------------
(* Flags with nothing left to modernise.                                   *)
Settled(settings, compilerFlags) ==
    /\ "USE_PTHREADS" \notin DOMAIN settings
    /\ \/ Get(compilerFlags, "exceptions") # "wasm"
       \/ /\ Helpers \subseteq Methods(settings)
          /\ "EXPORT_EXCEPTION_HANDLING_HELPERS" \notin DOMAIN settings

LEMMA DeleteNothing ==
    ASSUME NEW map, map = [k \in DOMAIN map |-> map[k]], NEW key, key \notin DOMAIN map
    PROVE  Delete(map, key) = map
<1>1. DOMAIN map \ {key} = DOMAIN map
  OBVIOUS
<1>2. [k \in DOMAIN map \ {key} |-> map[k]] = [k \in DOMAIN map |-> map[k]]
  BY <1>1
<1> QED BY <1>2 DEF Delete

(* Modernising them changes nothing.                                       *)
LEMMA SettledStays ==
    ASSUME NEW s, NEW c, NEW r, s = [k \in DOMAIN s |-> s[k]], Settled(s, c)
    PROVE  LET parsed == [settings |-> s, compilerFlags |-> c, rawFlags |-> r]
           IN  Modernize(parsed) = parsed
<1> DEFINE parsed == [settings |-> s, compilerFlags |-> c, rawFlags |-> r]
<1>1. ThreadFlag(parsed) = parsed
  <2>1. Delete(s, "USE_PTHREADS") = s
    BY DeleteNothing DEF Settled
  <2>2. ~ SettingEnabled(Get(s, "USE_PTHREADS"))
    BY DEF Settled, SettingEnabled, Get
  <2> QED BY <2>1, <2>2 DEF ThreadFlag
<1>2. ExceptionHelpers(parsed) = parsed
  <2>1. CASE Get(c, "exceptions") # "wasm"
    BY <2>1 DEF ExceptionHelpers
  <2>2. CASE Get(c, "exceptions") = "wasm"
    <3>1. Delete(s, "EXPORT_EXCEPTION_HANDLING_HELPERS") = s /\ Helpers \subseteq Methods(s)
      BY <2>2, DeleteNothing DEF Settled
    <3> QED BY <3>1 DEF ExceptionHelpers
  <2> QED BY <2>1, <2>2
<1> HIDE DEF parsed
<1>3. Modernize(parsed) = parsed
  BY <1>1, <1>2 DEF Modernize
<1> QED BY <1>3 DEF parsed

(* What the modernised flags of a build are made of.                       *)
LEMMA ModernizedForm ==
    ASSUME NEW flags \in Seq(Flag)
    PROVE  LET parsed == ParseFlags(flags)
               asked == Modernize(parsed)
               plain == Delete(parsed.settings, "USE_PTHREADS")
               kept == Delete(plain, "EXPORT_EXCEPTION_HANDLING_HELPERS")
           IN  /\ asked = [settings |-> asked.settings, compilerFlags |-> asked.compilerFlags,
                           rawFlags |-> parsed.rawFlags]
               /\ \/ asked.compilerFlags = parsed.compilerFlags
                  \/ asked.compilerFlags = Set(parsed.compilerFlags, "threads", "true")
               /\ \/ /\ asked.settings = plain
                     /\ \/ Get(asked.compilerFlags, "exceptions") # "wasm"
                        \/ Helpers \subseteq Methods(kept) /\ DOMAIN kept = DOMAIN plain
                  \/ asked.settings
                       = Set(kept, "EXPORTED_RUNTIME_METHODS", Methods(kept) \union Helpers)
<1> DEFINE parsed == ParseFlags(flags)
           threaded == ThreadFlag(parsed)
           asked == ExceptionHelpers(threaded)
           plain == Delete(parsed.settings, "USE_PTHREADS")
           kept == Delete(plain, "EXPORT_EXCEPTION_HANDLING_HELPERS")
<1>1. parsed = [settings |-> parsed.settings, compilerFlags |-> parsed.compilerFlags,
                rawFlags |-> parsed.rawFlags]
  BY DEF ParseFlags
<1>2. /\ threaded = [settings |-> plain, compilerFlags |-> threaded.compilerFlags,
                     rawFlags |-> parsed.rawFlags]
      /\ \/ threaded.compilerFlags = parsed.compilerFlags
         \/ threaded.compilerFlags = Set(parsed.compilerFlags, "threads", "true")
  <2> HIDE DEF parsed
  <2> QED BY <1>1 DEF ThreadFlag
<1> HIDE DEF threaded
<1>3. CASE \/ Get(threaded.compilerFlags, "exceptions") # "wasm"
           \/ Helpers \subseteq Methods(kept) /\ DOMAIN kept = DOMAIN plain
  <2>1. asked = threaded
    BY <1>2, <1>3 DEF ExceptionHelpers
  <2> QED BY <1>2, <1>3, <2>1 DEF threaded, Modernize
<1>4. CASE ~ \/ Get(threaded.compilerFlags, "exceptions") # "wasm"
             \/ Helpers \subseteq Methods(kept) /\ DOMAIN kept = DOMAIN plain
  <2> DEFINE new == Set(kept, "EXPORTED_RUNTIME_METHODS", Methods(kept) \union Helpers)
  <2>1. asked = [threaded EXCEPT !.settings = new]
    <3>1. threaded.settings = plain
      BY <1>2
    <3> HIDE DEF plain
    <3>2. kept = Delete(threaded.settings, "EXPORT_EXCEPTION_HANDLING_HELPERS")
      BY <3>1
    <3> HIDE DEF kept
    <3>3. ~ \/ Get(threaded.compilerFlags, "exceptions") # "wasm"
            \/ Helpers \subseteq Methods(kept) /\ DOMAIN kept = DOMAIN threaded.settings
      BY <1>4, <3>1
    <3> QED BY <3>2, <3>3, Zenon DEF ExceptionHelpers
  <2> HIDE DEF new, kept, plain
  <2>2. /\ asked = [settings |-> asked.settings, compilerFlags |-> asked.compilerFlags,
                    rawFlags |-> parsed.rawFlags]
        /\ asked.settings = new /\ asked.compilerFlags = threaded.compilerFlags
    BY <1>2, <2>1
  <2> QED BY <1>2, <2>2 DEF threaded, Modernize, new, kept, plain
<1> QED BY <1>3, <1>4

LEMMA ModernizedIsSettled ==
    ASSUME NEW flags \in Seq(Flag)
    PROVE  LET asked == Modernize(ParseFlags(flags))
           IN  Settled(asked.settings, asked.compilerFlags)
<1> DEFINE asked == Modernize(ParseFlags(flags))
           plain == Delete(ParseFlags(flags).settings, "USE_PTHREADS")
           kept == Delete(plain, "EXPORT_EXCEPTION_HANDLING_HELPERS")
           new == Set(kept, "EXPORTED_RUNTIME_METHODS", Methods(kept) \union Helpers)
<1>1. \/ /\ asked.settings = plain
         /\ \/ Get(asked.compilerFlags, "exceptions") # "wasm"
            \/ Helpers \subseteq Methods(kept) /\ DOMAIN kept = DOMAIN plain
      \/ asked.settings = new
  BY ModernizedForm
<1>2. "USE_PTHREADS" \notin DOMAIN plain
  BY DEF Delete
<1> HIDE DEF asked, plain
<1>3. /\ "USE_PTHREADS" \notin DOMAIN kept
      /\ "EXPORT_EXCEPTION_HANDLING_HELPERS" \notin DOMAIN kept
      /\ \A k \in DOMAIN kept : kept[k] = plain[k]
  BY <1>2 DEF Delete
<1>4. CASE asked.settings = plain /\ Get(asked.compilerFlags, "exceptions") # "wasm"
  BY <1>2, <1>4 DEF Settled, asked
<1>5. CASE /\ asked.settings = plain
           /\ Helpers \subseteq Methods(kept) /\ DOMAIN kept = DOMAIN plain
  <2>1. Methods(kept) = Methods(plain)
    BY <1>3, <1>5 DEF Methods
  <2> QED BY <1>2, <1>3, <1>5, <2>1 DEF Settled, asked
<1>6. CASE asked.settings = new
  <2> HIDE DEF kept
  <2>1. /\ DOMAIN new = DOMAIN kept \union {"EXPORTED_RUNTIME_METHODS"}
        /\ new["EXPORTED_RUNTIME_METHODS"] = Methods(kept) \union Helpers
    BY DEF Set
  <2>2. Methods(new) = Methods(kept) \union Helpers
    BY <2>1 DEF Methods
  <2> HIDE DEF new
  <2>3. Settled(new, asked.compilerFlags)
    BY <1>3, <2>1, <2>2 DEF Settled
  <2> QED BY <1>6, <2>3 DEF asked
<1> QED BY <1>1, <1>4, <1>5, <1>6

(* They are finitely many, and flags a yml may carry.                      *)
LEMMA ModernizedIsRendered ==
    ASSUME NEW flags \in Seq(Flag)
    PROVE  LET asked == Modernize(ParseFlags(flags))
           IN  /\ IsFiniteSet(DOMAIN asked.settings)
               /\ IsFiniteSet(DOMAIN asked.compilerFlags)
               /\ Records("setting", asked.settings) \subseteq Representable
               /\ Records("compiler", asked.compilerFlags) \subseteq Flag
<1> DEFINE asked == Modernize(ParseFlags(flags))
           s == ParseFlags(flags).settings
           c == ParseFlags(flags).compilerFlags
           plain == Delete(s, "USE_PTHREADS")
           kept == Delete(plain, "EXPORT_EXCEPTION_HANDLING_HELPERS")
           methods == Methods(kept) \union Helpers
           new == Set(kept, "EXPORTED_RUNTIME_METHODS", methods)
<1>1. /\ asked.compilerFlags = c \/ asked.compilerFlags = Set(c, "threads", "true")
      /\ asked.settings = plain \/ asked.settings = new
  BY ModernizedForm
<1>2. /\ s = LastWins(flags, "setting") /\ c = LastWins(flags, "compiler")
  BY DEF ParseFlags
<1>3. IsFiniteSet(DOMAIN s) /\ IsFiniteSet(DOMAIN c)
  BY <1>2, LastWinsIsFinite
<1>4. Records("setting", s) \subseteq Representable
  <2>1. ASSUME NEW k \in DOMAIN s
        PROVE  [form |-> "setting", key |-> k, value |-> s[k]] \in Representable
    <3>1. PICK f \in Flag : Typed(f, "setting") /\ f.key = k /\ s[k] = f.value
      BY <1>2, <2>1, LastWinsGivesFlags
    <3>2. f \in Representable /\ f.form = "setting"
      BY <3>1 DEF Typed
    <3>3. f = [form |-> f.form, key |-> f.key, value |-> f.value]
      BY FlagAssumption
    <3> HIDE DEF s
    <3> QED BY <3>1, <3>2, <3>3
  <2> HIDE DEF s
  <2> QED BY <2>1 DEF Records
<1>5. Records("compiler", c) \subseteq Flag
  <2>1. ASSUME NEW k \in DOMAIN c
        PROVE  [form |-> "compiler", key |-> k, value |-> c[k]] \in Flag
    <3>1. PICK f \in Flag : Typed(f, "compiler") /\ f.key = k /\ c[k] = f.value
      BY <1>2, <2>1, LastWinsGivesFlags
    <3>2. f.form = "compiler"
      BY <3>1 DEF Typed
    <3>3. f = [form |-> f.form, key |-> f.key, value |-> f.value]
      BY FlagAssumption
    <3> HIDE DEF c
    <3> QED BY <3>1, <3>2, <3>3
  <2> HIDE DEF c
  <2> QED BY <2>1 DEF Records
<1> HIDE DEF s, c
<1>6. /\ DOMAIN plain \subseteq DOMAIN s /\ \A k \in DOMAIN plain : plain[k] = s[k]
      /\ DOMAIN kept \subseteq DOMAIN plain /\ \A k \in DOMAIN kept : kept[k] = plain[k]
  BY DEF Delete
<1> HIDE DEF plain, kept
<1>7. DOMAIN kept \subseteq DOMAIN s /\ \A k \in DOMAIN kept : kept[k] = s[k]
  BY <1>6
<1>8. Records("setting", plain) \subseteq Representable
      /\ Records("setting", kept) \subseteq Representable
  BY <1>4, <1>6, <1>7 DEF Records
<1>9. [form |-> "setting", key |-> "EXPORTED_RUNTIME_METHODS", value |-> methods]
        \in Representable
  <2>1. Methods(kept) \in SUBSET Method
    <3>1. CASE "EXPORTED_RUNTIME_METHODS" \notin DOMAIN kept
      BY <3>1 DEF Methods
    <3>2. CASE "EXPORTED_RUNTIME_METHODS" \in DOMAIN kept
      <4> DEFINE f == [form |-> "setting", key |-> "EXPORTED_RUNTIME_METHODS",
                       value |-> kept["EXPORTED_RUNTIME_METHODS"]]
      <4>1. f \in Representable
        BY <1>8, <3>2 DEF Records
      <4>2. f.key = "EXPORTED_RUNTIME_METHODS"
            /\ f.value = kept["EXPORTED_RUNTIME_METHODS"]
        OBVIOUS
      <4> HIDE DEF f
      <4>3. f.value \in SUBSET Method
        BY <4>1, <4>2, FlagAssumption
      <4> QED BY <3>2, <4>2, <4>3 DEF Methods
    <3> QED BY <3>1, <3>2
  <2>2. methods \in SUBSET Method /\ Helpers \subseteq methods
    BY <2>1, MarkAssumption
  <2> HIDE DEF methods
  <2> QED BY <2>2, FlagAssumption
<1>10. /\ DOMAIN new = DOMAIN kept \union {"EXPORTED_RUNTIME_METHODS"}
       /\ \A k \in DOMAIN new : new[k] = IF k = "EXPORTED_RUNTIME_METHODS"
                                         THEN methods ELSE kept[k]
  BY DEF Set
<1>11. Records("setting", new) \subseteq Representable
  <2> HIDE DEF new, methods
  <2> SUFFICES ASSUME NEW k \in DOMAIN new
               PROVE  [form |-> "setting", key |-> k, value |-> new[k]] \in Representable
    BY DEF Records
  <2>1. CASE k = "EXPORTED_RUNTIME_METHODS"
    BY <1>9, <1>10, <2>1
  <2>2. CASE k # "EXPORTED_RUNTIME_METHODS"
    <3>1. k \in DOMAIN kept /\ new[k] = kept[k]
      BY <1>10, <2>2
    <3>2. [form |-> "setting", key |-> k, value |-> kept[k]] \in Representable
      BY <1>8, <3>1 DEF Records
    <3> QED BY <3>1, <3>2
  <2> QED BY <2>1, <2>2
<1>12. Records("compiler", Set(c, "threads", "true")) \subseteq Flag
  <2> DEFINE t == Set(c, "threads", "true")
  <2>1. /\ DOMAIN t = DOMAIN c \union {"threads"}
        /\ \A k \in DOMAIN t : t[k] = IF k = "threads" THEN "true" ELSE c[k]
    BY DEF Set
  <2> HIDE DEF t
  <2> SUFFICES ASSUME NEW k \in DOMAIN t
               PROVE  [form |-> "compiler", key |-> k, value |-> t[k]] \in Flag
    BY DEF Records, t
  <2>2. CASE k = "threads"
    BY <2>1, <2>2, FlagAssumption
  <2>3. CASE k # "threads"
    <3>1. k \in DOMAIN c /\ t[k] = c[k]
      BY <2>1, <2>3
    <3>2. [form |-> "compiler", key |-> k, value |-> c[k]] \in Flag
      BY <1>5, <3>1 DEF Records
    <3> QED BY <3>1, <3>2
  <2> QED BY <2>2, <2>3
<1>13. IsFiniteSet(DOMAIN plain) /\ IsFiniteSet(DOMAIN new)
  <2>1. IsFiniteSet(DOMAIN plain) /\ IsFiniteSet(DOMAIN kept)
    BY <1>3, <1>6, <1>7, FS_Subset
  <2>2. IsFiniteSet(DOMAIN kept \union {"EXPORTED_RUNTIME_METHODS"})
    BY <2>1, FS_AddElement
  <2> QED BY <1>10, <2>1, <2>2
<1>14. IsFiniteSet(DOMAIN Set(c, "threads", "true"))
  <2>1. IsFiniteSet(DOMAIN c \union {"threads"})
    BY <1>3, FS_AddElement
  <2> QED BY <2>1 DEF Set
<1> HIDE DEF asked, new
<1> QED BY <1>1, <1>3, <1>5, <1>8, <1>11, <1>12, <1>13, <1>14 DEF asked

-----------------------------------------------------------------------------
(* What is rendered from some maps and raw flags reads as those.           *)
LEMMA ReadingBack ==
    ASSUME NEW s, s = [k \in DOMAIN s |-> s[k]], IsFiniteSet(DOMAIN s),
           Records("setting", s) \subseteq Representable,
           NEW c, c = [k \in DOMAIN c |-> c[k]], IsFiniteSet(DOMAIN c),
           Records("compiler", c) \subseteq Flag,
           NEW raw \in Seq(Flag),
           \A f \in ToSet(raw) : ~ Typed(f, "setting") /\ ~ Typed(f, "compiler")
    PROVE  LET given == Rendering("setting", s) \o Rendering("compiler", c) \o raw
           IN  /\ given \in Seq(Flag)
               /\ ParseFlags(given)
                    = [settings |-> s, compilerFlags |-> c, rawFlags |-> raw]
<1> DEFINE a == Rendering("setting", s)
           b == Rendering("compiler", c)
           ab == a \o b
           given == ab \o raw
           U == {f \in ToSet(given) : ~ Typed(f, "setting") /\ ~ Typed(f, "compiler")}
<1>1. Representable \subseteq Flag
  BY FlagAssumption
<1>2. a \in Seq(Flag) /\ ToSet(a) = Records("setting", s)
  BY <1>1, RenderingOf
<1>3. b \in Seq(Flag) /\ ToSet(b) = Records("compiler", c)
  BY RenderingOf
<1> HIDE DEF a, b
<1>4. ab \in Seq(Flag) /\ ToSet(ab) = ToSet(a) \union ToSet(b)
  BY <1>2, <1>3, ToSetConcat
<1> HIDE DEF ab
<1>5. given \in Seq(Flag) /\ ToSet(given) = ToSet(ab) \union ToSet(raw)
  BY <1>4, ToSetConcat
<1>6. \A f \in Records("setting", s) : Typed(f, "setting") /\ ~ Typed(f, "compiler")
  BY DEF Records, Typed
<1>7. \A f \in Records("compiler", c) : Typed(f, "compiler") /\ ~ Typed(f, "setting")
  BY DEF Records, Typed
<1>8. Keep(given, U) = raw
  <2>1. ToSet(ab) \intersect U = {} /\ ToSet(raw) \subseteq U
    BY <1>2, <1>3, <1>4, <1>5, <1>6, <1>7
  <2> HIDE DEF U
  <2> QED BY <1>4, <2>1, KeepEnd
<1> HIDE DEF given
<1>9. {f \in ToSet(given) : Typed(f, "setting")} = Records("setting", s)
  BY <1>2, <1>3, <1>4, <1>5, <1>6, <1>7
<1>10. {f \in ToSet(given) : Typed(f, "compiler")} = Records("compiler", c)
  BY <1>2, <1>3, <1>4, <1>5, <1>6, <1>7
<1>11. LastWins(given, "setting") = s
  BY <1>5, <1>9, LastWinsOf
<1>12. LastWins(given, "compiler") = c
  BY <1>5, <1>10, LastWinsOf
<1>13. Untyped(given) = raw
  BY <1>8 DEF Untyped
<1>14. ParseFlags(given) = [settings |-> s, compilerFlags |-> c, rawFlags |-> raw]
  BY <1>11, <1>12, <1>13 DEF ParseFlags
<1> QED BY <1>5, <1>14 DEF given, ab, a, b

-----------------------------------------------------------------------------
(* The common raw flags are those that every build has, those of a variant *)
(* the others of its build.                                                *)
LEMMA RawPartition ==
    ASSUME NEW raws, 1 \in DOMAIN raws, \A j \in DOMAIN raws : raws[j] \in Seq(Flag),
           NEW i \in DOMAIN raws
    PROVE  /\ BaseRaw(raws) \in Seq(Flag)
           /\ ToSet(BaseRaw(raws))
                = {f \in ToSet(raws[1]) : \A j \in DOMAIN raws : f \in ToSet(raws[j])}
           /\ RawDelta(raws, i) \in Seq(Flag)
           /\ ToSet(RawDelta(raws, i)) = ToSet(raws[i]) \ ToSet(BaseRaw(raws))
<1> DEFINE C == {f \in ToSet(raws[1]) : \A j \in DOMAIN raws : f \in ToSet(raws[j])}
           D == ToSet(raws[i]) \ ToSet(BaseRaw(raws))
<1>1. BaseRaw(raws) = Keep(raws[1], C)
  BY DEF BaseRaw
<1>2. RawDelta(raws, i) = Keep(raws[i], D)
  BY DEF RawDelta
<1>3. C \subseteq ToSet(raws[1]) /\ D \subseteq ToSet(raws[i])
  OBVIOUS
<1>4. raws[1] \in Seq(Flag) /\ raws[i] \in Seq(Flag)
  OBVIOUS
<1> HIDE DEF C, D
<1>5. Keep(raws[1], C) \in Seq(Flag) /\ ToSet(Keep(raws[1], C)) = ToSet(raws[1]) \intersect C
  BY <1>4, KeepSelects
<1>6. Keep(raws[i], D) \in Seq(Flag) /\ ToSet(Keep(raws[i], D)) = ToSet(raws[i]) \intersect D
  BY <1>4, KeepSelects
<1>7. ToSet(raws[1]) \intersect C = C /\ ToSet(raws[i]) \intersect D = D
  BY <1>3
<1> QED BY <1>1, <1>2, <1>5, <1>6, <1>7 DEF C, D

(* A build given the common raw flags and those of its variant.            *)
Joined(raws) == [i \in DOMAIN raws |-> BaseRaw(raws) \o RawDelta(raws, i)]

(* It has the raw flags it had, and the two parts are found again.         *)
LEMMA RawJoined ==
    ASSUME NEW raws, 1 \in DOMAIN raws, \A j \in DOMAIN raws : raws[j] \in Seq(Flag)
    PROVE  /\ \A i \in DOMAIN raws :
                  /\ Joined(raws)[i] \in Seq(Flag)
                  /\ ToSet(Joined(raws)[i]) = ToSet(raws[i])
           /\ BaseRaw(Joined(raws)) = BaseRaw(raws)
           /\ \A i \in DOMAIN raws : RawDelta(Joined(raws), i) = RawDelta(raws, i)
<1> DEFINE base == BaseRaw(raws)
           delta(i) == RawDelta(raws, i)
           joined == Joined(raws)
           C == {f \in ToSet(raws[1]) : \A j \in DOMAIN raws : f \in ToSet(raws[j])}
<1>1. base \in Seq(Flag) /\ ToSet(base) = C
  BY RawPartition
<1>2. \A i \in DOMAIN raws : delta(i) \in Seq(Flag) /\ ToSet(delta(i)) = ToSet(raws[i]) \ C
  BY <1>1, RawPartition
<1>3. \A i \in DOMAIN raws : joined[i] = base \o delta(i)
  BY DEF Joined
<1>4. DOMAIN joined = DOMAIN raws
  BY DEF Joined
<1>5. \A i \in DOMAIN raws : C \subseteq ToSet(raws[i])
  OBVIOUS
<1> HIDE DEF base, delta, joined
<1>7. ASSUME NEW i \in DOMAIN raws
      PROVE  joined[i] \in Seq(Flag) /\ ToSet(joined[i]) = ToSet(raws[i])
  <2>1. base \o delta(i) \in Seq(Flag)
        /\ ToSet(base \o delta(i)) = ToSet(base) \union ToSet(delta(i))
    BY <1>1, <1>2, ToSetConcat
  <2>2. C \subseteq ToSet(raws[i])
    BY <1>5
  <2> HIDE DEF C
  <2>3. ToSet(base) \union ToSet(delta(i)) = ToSet(raws[i])
    BY <1>1, <1>2, <2>2
  <2> QED BY <1>3, <2>1, <2>3
<1>8. {f \in ToSet(joined[1]) : \A j \in DOMAIN joined : f \in ToSet(joined[j])} = C
  <2>1. ToSet(joined[1]) = ToSet(raws[1])
    BY <1>7
  <2> QED BY <1>4, <1>7, <2>1
<1> HIDE DEF C
<1>9. BaseRaw(joined) = base
  <2> DEFINE d == delta(1)
  <2>1. d \in Seq(Flag) /\ ToSet(d) \intersect C = {} /\ joined[1] = base \o d
    BY <1>2, <1>3
  <2>2. BaseRaw(joined) = Keep(joined[1], C)
    BY <1>8 DEF BaseRaw
  <2> HIDE DEF d
  <2>3. Keep(base \o d, C) = base
    BY <1>1, <2>1, KeepStart
  <2> QED BY <2>1, <2>2, <2>3
<1>10. ASSUME NEW i \in DOMAIN raws PROVE RawDelta(joined, i) = delta(i)
  <2> DEFINE d == delta(i)
             S == ToSet(raws[i]) \ C
  <2>1. d \in Seq(Flag) /\ ToSet(d) = S /\ joined[i] = base \o d
    BY <1>2, <1>3
  <2>2. RawDelta(joined, i) = Keep(joined[i], S)
    BY <1>1, <1>7, <1>9 DEF RawDelta
  <2>3. ToSet(base) \intersect S = {} /\ ToSet(d) \subseteq S
    BY <1>1, <2>1
  <2> HIDE DEF d, S
  <2>4. Keep(base \o d, S) = d
    BY <1>1, <2>1, <2>3, KeepEnd
  <2> QED BY <2>1, <2>2, <2>4 DEF d
<1> QED BY <1>7, <1>9, <1>10 DEF base, delta, joined

-----------------------------------------------------------------------------
(* The raw flags of a build are untyped flags a yml may carry.             *)
LEMMA RawFlagsAreUntyped ==
    ASSUME NEW flags \in Seq(Flag)
    PROVE  LET raw == ParseFlags(flags).rawFlags
           IN  /\ Modernize(ParseFlags(flags)).rawFlags = raw
               /\ raw \in Seq(Flag)
               /\ \A f \in ToSet(raw) : ~ Typed(f, "setting") /\ ~ Typed(f, "compiler")
<1> DEFINE U == {f \in ToSet(flags) : ~ Typed(f, "setting") /\ ~ Typed(f, "compiler")}
           raw == ParseFlags(flags).rawFlags
           asked == Modernize(ParseFlags(flags))
<1>1. raw = Keep(flags, U)
  BY DEF ParseFlags, Untyped
<1>2. \A f \in U : ~ Typed(f, "setting") /\ ~ Typed(f, "compiler")
  OBVIOUS
<1>3. asked.rawFlags = raw
  <2>1. asked = [settings |-> asked.settings, compilerFlags |-> asked.compilerFlags,
                 rawFlags |-> raw]
    BY ModernizedForm
  <2> HIDE DEF asked
  <2> QED BY <2>1
<1> HIDE DEF U
<1>4. Keep(flags, U) \in Seq(Flag) /\ ToSet(Keep(flags, U)) \subseteq U
  <2>1. Keep(flags, U) \in Seq(Flag) /\ ToSet(Keep(flags, U)) = ToSet(flags) \intersect U
    BY KeepSelects
  <2> QED BY <2>1
<1> HIDE DEF raw, asked
<1>5. raw \in Seq(Flag)
      /\ \A f \in ToSet(raw) : ~ Typed(f, "setting") /\ ~ Typed(f, "compiler")
  BY <1>1, <1>2, <1>4
<1> QED BY <1>3, <1>5 DEF raw, asked

(* The raw flags of some builds, as migrate reads them.                    *)
Raws(builds) ==
    [i \in DOMAIN builds |-> Modernize(ParseFlags(builds[i].flags)).rawFlags]

LEMMA RawsOfBuilds ==
    ASSUME NEW builds \in Ymls
    PROVE  /\ DOMAIN Raws(builds) = DOMAIN builds /\ 1 \in DOMAIN Raws(builds)
           /\ \A j \in DOMAIN Raws(builds) :
                  /\ Raws(builds)[j] = ParseFlags(builds[j].flags).rawFlags
                  /\ Raws(builds)[j] \in Seq(Flag)
                  /\ \A f \in ToSet(Raws(builds)[j]) :
                         ~ Typed(f, "setting") /\ ~ Typed(f, "compiler")
<1>1. DOMAIN Raws(builds) = DOMAIN builds /\ 1 \in DOMAIN builds
  BY YmlsAreBuilds DEF Raws
<1>2. ASSUME NEW j \in DOMAIN builds
      PROVE  /\ Raws(builds)[j] = ParseFlags(builds[j].flags).rawFlags
             /\ Raws(builds)[j] \in Seq(Flag)
             /\ \A f \in ToSet(Raws(builds)[j]) :
                    ~ Typed(f, "setting") /\ ~ Typed(f, "compiler")
  <2>1. builds[j].flags \in Seq(Flag)
    BY YmlsAreBuilds
  <2>2. Raws(builds)[j] = Modernize(ParseFlags(builds[j].flags)).rawFlags
    BY DEF Raws
  <2> QED BY <2>1, <2>2, RawFlagsAreUntyped
<1> QED BY <1>1, <1>2

(* A yml rendered from the migrated configuration reads as what its build  *)
(* asked for, the common raw flags before the others.                      *)
LEMMA RenderedReadsAsAsked ==
    ASSUME NEW builds \in Ymls, NEW i \in DOMAIN builds
    PROVE  LET asked == Modernize(ParseFlags(builds[i].flags))
           IN  ParseFlags(RenderEmccFlags(Migrated(builds), i))
                 = [settings |-> asked.settings, compilerFlags |-> asked.compilerFlags,
                    rawFlags |-> Joined(Raws(builds))[i]]
<1> DEFINE asked == Modernize(ParseFlags(builds[i].flags))
           raws == Raws(builds)
           base == BaseRaw(raws)
           delta == RawDelta(raws, i)
           raw == base \o delta
           c == Migrated(builds)
           s == asked.settings
           f == asked.compilerFlags
           x == Rendering("setting", s)
           y == Rendering("compiler", f)
<1>1. MergeSettings(c, i) = s /\ MergeCompilerFlags(c, i) = f
  BY MigrationMergesBack
<1>2. c.rawFlags = base /\ c.variants[i].rawFlags = delta
  <2>1. raws = [j \in DOMAIN builds |->
                  [k \in DOMAIN builds |-> Modernize(ParseFlags(builds[k].flags))][j].rawFlags]
    BY DEF Raws
  <2> HIDE DEF raws
  <2> QED BY <2>1 DEF Migrated
<1>3. /\ IsFiniteSet(DOMAIN s) /\ IsFiniteSet(DOMAIN f)
      /\ Records("setting", s) \subseteq Representable
      /\ Records("compiler", f) \subseteq Flag
      /\ s = [k \in DOMAIN s |-> s[k]] /\ f = [k \in DOMAIN f |-> f[k]]
  <2>1. builds[i].flags \in Seq(Flag)
    BY YmlsAreBuilds
  <2>2. Proper(s) /\ Proper(f)
    BY <2>1, ModernizedIsProper
  <2>3. /\ IsFiniteSet(DOMAIN s) /\ IsFiniteSet(DOMAIN f)
        /\ Records("setting", s) \subseteq Representable
        /\ Records("compiler", f) \subseteq Flag
    BY <2>1, ModernizedIsRendered
  <2> HIDE DEF s, f
  <2> QED BY <2>2, <2>3 DEF Proper
<1>4. /\ 1 \in DOMAIN raws /\ i \in DOMAIN raws
      /\ \A j \in DOMAIN raws : raws[j] \in Seq(Flag)
  BY RawsOfBuilds
<1>5. /\ base \in Seq(Flag) /\ delta \in Seq(Flag) /\ Joined(raws)[i] = raw
      /\ raw \in Seq(Flag) /\ ToSet(raw) = ToSet(raws[i])
  <2> HIDE DEF raws
  <2>1. base \in Seq(Flag) /\ delta \in Seq(Flag)
    BY <1>4, RawPartition
  <2>2. Joined(raws)[i] = raw
    BY <1>4 DEF Joined
  <2>3. Joined(raws)[i] \in Seq(Flag) /\ ToSet(Joined(raws)[i]) = ToSet(raws[i])
    BY <1>4, RawJoined
  <2> QED BY <2>1, <2>2, <2>3
<1>6. \A g \in ToSet(raw) : ~ Typed(g, "setting") /\ ~ Typed(g, "compiler")
  BY <1>5, RawsOfBuilds
<1> HIDE DEF s, f, raw, base, delta, c
<1>7. ParseFlags(x \o y \o raw) = [settings |-> s, compilerFlags |-> f, rawFlags |-> raw]
  BY <1>3, <1>5, <1>6, ReadingBack
<1>8. x \in Seq(Flag) /\ y \in Seq(Flag)
  <2>1. Records("setting", s) \subseteq Flag
    BY <1>3, FlagAssumption
  <2> QED BY <1>3, <2>1, RenderingOf
<1>9. RenderEmccFlags(c, i) = x \o y \o base \o delta
  BY <1>1, <1>2 DEF RenderEmccFlags
<1> HIDE DEF x, y
<1>10. x \o y \o base \o delta = x \o y \o raw
  <2> DEFINE xy == x \o y
  <2>1. xy \in Seq(Flag)
    BY <1>8, ConcatElements
  <2> HIDE DEF xy
  <2>2. (xy \o base) \o delta = xy \o (base \o delta)
    BY <1>5, <2>1, ConcatAssociative
  <2> QED BY <2>2 DEF xy, raw
<1>11. ParseFlags(RenderEmccFlags(c, i))
         = [settings |-> s, compilerFlags |-> f, rawFlags |-> Joined(raws)[i]]
  BY <1>5, <1>7, <1>9, <1>10
<1> QED BY <1>11 DEF c, s, f

(* So migrating what is rendered gives the configuration back.             *)
LEMMA MigratingRendered ==
    ASSUME NEW builds \in Ymls
    PROVE  Migrated(RenderedFrom(Migrated(builds))) = Migrated(builds)
<1> DEFINE c == Migrated(builds)
           r == RenderedFrom(c)
           asked(j) == Modernize(ParseFlags(builds[j].flags))
           reread(j) == Modernize(ParseFlags(r[j].flags))
           raws == Raws(builds)
           settings == [j \in DOMAIN builds |-> asked(j).settings]
           flags == [j \in DOMAIN builds |-> asked(j).compilerFlags]
<1>1. /\ DOMAIN r = DOMAIN builds /\ 1 \in DOMAIN builds
      /\ \A j \in DOMAIN builds : r[j].shared = c.shared /\ r[j].flags = RenderEmccFlags(c, j)
  BY MigratedVariants, YmlsAreBuilds DEF RenderedFrom
<1>2. ASSUME NEW j \in DOMAIN builds
      PROVE  /\ reread(j).settings = asked(j).settings
             /\ reread(j).compilerFlags = asked(j).compilerFlags
             /\ reread(j).rawFlags = Joined(raws)[j]
  <2> DEFINE s == asked(j).settings
             f == asked(j).compilerFlags
             raw == Joined(raws)[j]
             p == [settings |-> s, compilerFlags |-> f, rawFlags |-> raw]
  <2>1. builds[j].flags \in Seq(Flag)
    BY YmlsAreBuilds
  <2>2. ParseFlags(r[j].flags) = p
    BY <1>1, RenderedReadsAsAsked
  <2>3. Settled(s, f)
    BY <2>1, ModernizedIsSettled
  <2>4. s = [k \in DOMAIN s |-> s[k]]
    <3>1. Proper(s)
      BY <2>1, ModernizedIsProper
    <3> HIDE DEF s
    <3> QED BY <3>1 DEF Proper
  <2> HIDE DEF s, f, raw
  <2>5. Modernize(p) = p
    BY <2>3, <2>4, SettledStays
  <2>6. reread(j) = p
    BY <2>2, <2>5
  <2> HIDE DEF reread, asked
  <2>7. reread(j).settings = s /\ reread(j).compilerFlags = f /\ reread(j).rawFlags = raw
    BY <2>6
  <2> QED BY <2>7 DEF s, f, raw
<1>3. /\ \A j \in DOMAIN raws : raws[j] \in Seq(Flag)
      /\ 1 \in DOMAIN raws /\ DOMAIN raws = DOMAIN builds
  BY RawsOfBuilds
<1> HIDE DEF raws
<1>4. /\ BaseRaw(Joined(raws)) = BaseRaw(raws)
      /\ \A j \in DOMAIN builds : RawDelta(Joined(raws), j) = RawDelta(raws, j)
  BY <1>3, RawJoined
<1>5. /\ DOMAIN Joined(raws) = DOMAIN builds
      /\ Joined(raws) = [j \in DOMAIN builds |-> Joined(raws)[j]]
  BY <1>3 DEF Joined
<1>6. c = [shared        |-> builds[1].shared,
           settings      |-> BaseSettings(settings),
           compilerFlags |-> BaseFlags(flags),
           rawFlags      |-> BaseRaw(raws),
           variants      |-> [j \in DOMAIN builds |->
               [settings      |-> Delta(settings, j),
                compilerFlags |-> FlagDelta(flags, j),
                rawFlags      |-> RawDelta(raws, j)]]]
  BY DEF Migrated, raws, Raws
<1> DEFINE settings2 == [j \in DOMAIN r |-> reread(j).settings]
           flags2 == [j \in DOMAIN r |-> reread(j).compilerFlags]
           raws2 == [j \in DOMAIN r |-> reread(j).rawFlags]
<1>7. Migrated(r) =
          [shared        |-> r[1].shared,
           settings      |-> BaseSettings(settings2),
           compilerFlags |-> BaseFlags(flags2),
           rawFlags      |-> BaseRaw(raws2),
           variants      |-> [j \in DOMAIN r |->
               [settings      |-> Delta(settings2, j),
                compilerFlags |-> FlagDelta(flags2, j),
                rawFlags      |-> RawDelta(raws2, j)]]]
  <2> HIDE DEF r
  <2> QED BY DEF Migrated
<1> HIDE DEF r, reread, asked
<1>8. settings2 = settings /\ flags2 = flags /\ raws2 = Joined(raws)
  BY <1>1, <1>2, <1>5
<1>9. r[1].shared = builds[1].shared
  <2>1. c.shared = builds[1].shared
    BY DEF Migrated
  <2> QED BY <1>1, <2>1
<1> HIDE DEF settings, flags, settings2, flags2, raws2, c
<1>10. Migrated(r) =
          [shared        |-> builds[1].shared,
           settings      |-> BaseSettings(settings),
           compilerFlags |-> BaseFlags(flags),
           rawFlags      |-> BaseRaw(raws),
           variants      |-> [j \in DOMAIN builds |->
               [settings      |-> Delta(settings, j),
                compilerFlags |-> FlagDelta(flags, j),
                rawFlags      |-> RawDelta(Joined(raws), j)]]]
  BY <1>1, <1>4, <1>7, <1>8, <1>9
<1>11. Migrated(r) = c
  BY <1>4, <1>6, <1>10
<1> QED BY <1>11 DEF r, c

-----------------------------------------------------------------------------
(* Keep, one flag at a time.                                               *)
LEMMA KeepAppend ==
    ASSUME NEW E, NEW s \in Seq(E), NEW e \in E, NEW S
    PROVE  Keep(Append(s, e), S) = IF e \in S THEN Append(Keep(s, S), e) ELSE Keep(s, S)
<1> DEFINE t == Append(s, e)
           l == Len(s)
<1>1. /\ t \in Seq(E) /\ Len(t) = l + 1 /\ l \in Nat /\ t[l + 1] = e
      /\ \A i \in 1 .. l : t[i] = s[i]
  OBVIOUS
<1> HIDE DEF t
<1>2. PICK g : Keeps(g, t, S) /\ Keep(t, S) = g[Len(t)]
  BY <1>1, KeepsExists
<1>3. PICK h : Keeps(h, s, S) /\ Keep(s, S) = h[Len(s)]
  BY KeepsExists
<1> DEFINE T == {n \in Nat : n <= l => g[n] = h[n]}
<1>4. 0 \in T
  BY <1>1, <1>2, <1>3, KeepsStep
<1>5. ASSUME NEW n \in Nat, n \in T PROVE n + 1 \in T
  <2> SUFFICES ASSUME n + 1 <= l PROVE g[n + 1] = h[n + 1]
    OBVIOUS
  <2>1. g[n + 1] = IF t[n + 1] \in S THEN Append(g[n], t[n + 1]) ELSE g[n]
    BY <1>1, <1>2, KeepsStep
  <2>2. h[n + 1] = IF s[n + 1] \in S THEN Append(h[n], s[n + 1]) ELSE h[n]
    BY <1>3, KeepsStep
  <2>3. t[n + 1] = s[n + 1] /\ g[n] = h[n]
    BY <1>1, <1>5
  <2> QED BY <2>1, <2>2, <2>3
<1> HIDE DEF T
<1>6. l \in T
  BY <1>1, <1>4, <1>5, Induct
<1>7. g[l] = h[l]
  BY <1>1, <1>6 DEF T
<1>8. g[l + 1] = IF t[l + 1] \in S THEN Append(g[l], t[l + 1]) ELSE g[l]
  BY <1>1, <1>2, KeepsStep
<1> QED BY <1>1, <1>2, <1>3, <1>7, <1>8 DEF t

(* What two lists joined have of a set.                                    *)
LEMMA KeepConcat ==
    ASSUME NEW E, NEW s \in Seq(E), NEW t \in Seq(E), NEW S
    PROVE  Keep(s \o t, S) = Keep(s, S) \o Keep(t, S)
<1>1. PICK g : Keeps(g, t, S) /\ Keep(t, S) = g[Len(t)]
  BY KeepsExists
<1> DEFINE part(n) == SubSeq(t, 1, n)
           T == {n \in Nat : n <= Len(t) =>
                   g[n] \in Seq(E) /\ Keep(s \o part(n), S) = Keep(s, S) \o g[n]}
<1>2. Keep(s, S) \in Seq(E)
  BY KeepSelects
<1>3. 0 \in T
  <2>1. g[0] = <<>> /\ part(0) = <<>> /\ <<>> \in Seq(E)
    BY <1>1, KeepsStep
  <2>2. s \o <<>> = s /\ Keep(s, S) \o <<>> = Keep(s, S)
    BY <1>2, ConcatEmptySeq
  <2> HIDE DEF part
  <2>3. Keep(s \o part(0), S) = Keep(s, S) \o g[0]
    BY <2>1, <2>2
  <2> QED BY <2>1, <2>3
<1>4. ASSUME NEW n \in Nat, n \in T PROVE n + 1 \in T
  <2> SUFFICES ASSUME n + 1 <= Len(t)
               PROVE  /\ g[n + 1] \in Seq(E)
                      /\ Keep(s \o part(n + 1), S) = Keep(s, S) \o g[n + 1]
    OBVIOUS
  <2> DEFINE e == t[n + 1]
             p == part(n)
             k == Keep(s, S)
             d == g[n]
  <2>1. /\ e \in E
        /\ g[n + 1] = IF e \in S THEN Append(d, e) ELSE d
    BY <1>1, KeepsStep
  <2>2. p \in Seq(E) /\ part(n + 1) = Append(p, e)
    OBVIOUS
  <2>3. d \in Seq(E) /\ Keep(s \o p, S) = k \o d /\ k \in Seq(E)
    BY <1>2, <1>4
  <2> HIDE DEF e, p, k, d
  <2>4. s \o Append(p, e) = Append(s \o p, e) /\ s \o p \in Seq(E)
    BY <2>1, <2>2
  <2>5. Keep(Append(s \o p, e), S) = IF e \in S THEN Append(k \o d, e) ELSE k \o d
    <3> DEFINE q == s \o p
    <3>1. q \in Seq(E) /\ Keep(q, S) = k \o d
      BY <2>3, <2>4
    <3> HIDE DEF q
    <3>2. Keep(Append(q, e), S) = IF e \in S THEN Append(Keep(q, S), e) ELSE Keep(q, S)
      BY <2>1, <3>1, KeepAppend
    <3> QED BY <3>1, <3>2 DEF q
  <2>6. k \o Append(d, e) = Append(k \o d, e) /\ Append(d, e) \in Seq(E)
    BY <2>1, <2>3
  <2>7. Keep(s \o part(n + 1), S) = k \o g[n + 1] /\ g[n + 1] \in Seq(E)
    BY <2>1, <2>2, <2>3, <2>4, <2>5, <2>6
  <2> QED BY <2>7 DEF k
<1> HIDE DEF T
<1>5. Len(t) \in T
  BY <1>3, <1>4, Induct
<1>6. Keep(s \o part(Len(t)), S) = Keep(s, S) \o g[Len(t)]
  BY <1>5 DEF T
<1>7. part(Len(t)) = t
  OBVIOUS
<1> QED BY <1>1, <1>6, <1>7

LEMMA KeepNone ==
    ASSUME NEW E, NEW s \in Seq(E), NEW S, ToSet(s) \intersect S = {}
    PROVE  Keep(s, S) = <<>>
<1> DEFINE k == Keep(s, S)
<1>1. k \in Seq(E) /\ ToSet(k) = {}
  BY KeepSelects
<1> HIDE DEF k
<1>2. DOMAIN k = 1 .. Len(k) /\ Len(k) \in Nat
  BY <1>1
<1>3. DOMAIN k = {}
  BY <1>1 DEF ToSet
<1>4. Len(k) = 0
  BY <1>2, <1>3
<1> QED BY <1>1, <1>4 DEF k

(* A flag is kept as often as it comes, or not at all.                     *)
LEMMA CopiesKept ==
    ASSUME NEW E, NEW s \in Seq(E), NEW S, NEW f
    PROVE  Copies(f, Keep(s, S)) = IF f \in S THEN Copies(f, s) ELSE <<>>
<1>1. PICK g : Keeps(g, s, S) /\ Keep(s, S) = g[Len(s)]
  BY KeepsExists
<1>2. PICK h : Keeps(h, s, {f}) /\ Keep(s, {f}) = h[Len(s)]
  BY KeepsExists
<1> DEFINE T == {n \in Nat : n <= Len(s) =>
                   g[n] \in Seq(E) /\ Keep(g[n], {f}) = IF f \in S THEN h[n] ELSE <<>>}
<1>3. 0 \in T
  <2>1. g[0] = <<>> /\ h[0] = <<>>
    BY <1>1, <1>2, KeepsStep
  <2>2. <<>> \in Seq(E) /\ ToSet(<<>>) = {}
    BY DEF ToSet
  <2>3. Keep(<<>>, {f}) = <<>>
    BY <2>2, KeepNone
  <2> QED BY <2>1, <2>2, <2>3
<1>4. ASSUME NEW n \in Nat, n \in T PROVE n + 1 \in T
  <2> SUFFICES ASSUME n + 1 <= Len(s)
               PROVE  /\ g[n + 1] \in Seq(E)
                      /\ Keep(g[n + 1], {f}) = IF f \in S THEN h[n + 1] ELSE <<>>
    OBVIOUS
  <2> DEFINE e == s[n + 1]
             d == g[n]
  <2>1. /\ e \in E
        /\ g[n + 1] = IF e \in S THEN Append(d, e) ELSE d
    BY <1>1, KeepsStep
  <2>2. h[n + 1] = IF e \in {f} THEN Append(h[n], e) ELSE h[n]
    BY <1>2, KeepsStep
  <2>3. d \in Seq(E) /\ Keep(d, {f}) = IF f \in S THEN h[n] ELSE <<>>
    BY <1>4
  <2> HIDE DEF e, d
  <2>4. /\ Append(d, e) \in Seq(E)
        /\ Keep(Append(d, e), {f}) = IF e \in {f} THEN Append(Keep(d, {f}), e) ELSE Keep(d, {f})
    BY <2>1, <2>3, KeepAppend, ToSetAppend
  <2> QED BY <2>1, <2>2, <2>3, <2>4
<1> HIDE DEF T
<1>5. Len(s) \in T
  BY <1>3, <1>4, Induct
<1> QED BY <1>1, <1>2, <1>5 DEF T, Copies

(* A build given the common flags and those of its variant has each as     *)
(* often as it had it, or as the first build has it when all do.           *)
LEMMA CopiesJoined ==
    ASSUME NEW raws, 1 \in DOMAIN raws, \A j \in DOMAIN raws : raws[j] \in Seq(Flag),
           NEW i \in DOMAIN raws, NEW f
    PROVE  LET common == \A j \in DOMAIN raws : f \in ToSet(raws[j])
           IN  Copies(f, Joined(raws)[i]) = Copies(f, raws[IF common THEN 1 ELSE i])
<1> DEFINE C == {x \in ToSet(raws[1]) : \A j \in DOMAIN raws : x \in ToSet(raws[j])}
           D == ToSet(raws[i]) \ ToSet(BaseRaw(raws))
           base == BaseRaw(raws)
           delta == RawDelta(raws, i)
           r == raws[i]
<1>1. base \in Seq(Flag) /\ delta \in Seq(Flag) /\ ToSet(base) = C
  BY RawPartition
<1>2. Joined(raws)[i] = base \o delta
  BY DEF Joined
<1>3. base = Keep(raws[1], C) /\ delta = Keep(r, D)
  BY DEF BaseRaw, RawDelta
<1>4. f \in C <=> \A j \in DOMAIN raws : f \in ToSet(raws[j])
  OBVIOUS
<1>5. f \in D <=> f \in ToSet(r) /\ f \notin C
  BY <1>1
<1>6. raws[1] \in Seq(Flag) /\ r \in Seq(Flag)
  OBVIOUS
<1> HIDE DEF C, D, base, delta, r
<1>7. Copies(f, base \o delta) = Copies(f, base) \o Copies(f, delta)
  <2> DEFINE S == {f}
  <2> HIDE DEF S
  <2>1. base \in Seq(Flag) /\ delta \in Seq(Flag)
    BY <1>1
  <2>2. Keep(base \o delta, S) = Keep(base, S) \o Keep(delta, S)
    BY ONLY <2>1, KeepConcat
  <2> QED BY ONLY <2>2 DEF Copies, S
<1>8. Copies(f, base) = IF f \in C THEN Copies(f, raws[1]) ELSE <<>>
  BY <1>3, <1>6, CopiesKept
<1>9. Copies(f, delta) = IF f \in D THEN Copies(f, r) ELSE <<>>
  BY <1>3, <1>6, CopiesKept
<1>10. Copies(f, raws[1]) \in Seq(Flag) /\ Copies(f, r) \in Seq(Flag)
  BY <1>6, KeepSelects DEF Copies
<1>11. f \notin ToSet(r) => Copies(f, r) = <<>>
  <2> SUFFICES ASSUME f \notin ToSet(r) PROVE Keep(r, {f}) = <<>>
    BY DEF Copies
  <2>1. ToSet(r) \intersect {f} = {}
    OBVIOUS
  <2> QED BY <1>6, <2>1, KeepNone
<1>12. CASE f \in C
  <2>1. Copies(f, base \o delta) = Copies(f, raws[1]) \o <<>>
    BY <1>5, <1>7, <1>8, <1>9, <1>12
  <2>2. Copies(f, raws[1]) \o <<>> = Copies(f, raws[1])
    BY <1>10, ConcatEmptySeq
  <2> QED BY <1>2, <1>4, <1>12, <2>1, <2>2
<1>13. CASE f \notin C
  <2>1. Copies(f, base \o delta) = <<>> \o Copies(f, r)
    BY <1>5, <1>7, <1>8, <1>9, <1>11, <1>13
  <2>2. <<>> \o Copies(f, r) = Copies(f, r)
    BY <1>10, ConcatEmptySeq
  <2> QED BY <1>2, <1>4, <1>13, <2>1, <2>2 DEF r
<1> QED BY <1>12, <1>13

(* The raw flags of a build reach emcc in its yml, and in no other, with   *)
(* their number.                                                           *)
THEOREM RawFlagsArrive == MigrationSpec => []NoRawFlagIsLostOrAdded
<1>1. MigrationInv => NoRawFlagIsLostOrAdded
  <2> DEFINE common(f) == \A j \in DOMAIN ymls : f \in ToSet(RawFlags(ymls[j]))
  <2> SUFFICES ASSUME MigrationInv, stage = "rendered", NEW i \in DOMAIN ymls, NEW f \in Flag
               PROVE  Copies(f, RawFlags(rendered[i]))
                        = Copies(f, RawFlags(ymls[IF common(f) THEN 1 ELSE i]))
    BY DEF NoRawFlagIsLostOrAdded
  <2>1. ymls \in Ymls /\ config = Migrated(ymls) /\ rendered = RenderedFrom(config)
    BY DEF MigrationInv
  <2>2. rendered[i].flags = RenderEmccFlags(config, i)
    BY <2>1, MigratedVariants DEF RenderedFrom
  <2>3. RawFlags(rendered[i]) = Joined(Raws(ymls))[i]
    BY <2>1, <2>2, RenderedReadsAsAsked DEF RawFlags
  <2>4. /\ DOMAIN Raws(ymls) = DOMAIN ymls /\ 1 \in DOMAIN Raws(ymls)
        /\ \A j \in DOMAIN Raws(ymls) : Raws(ymls)[j] \in Seq(Flag)
        /\ \A j \in DOMAIN ymls : Raws(ymls)[j] = RawFlags(ymls[j])
    BY <2>1, RawsOfBuilds DEF RawFlags
  <2> DEFINE all == \A j \in DOMAIN Raws(ymls) : f \in ToSet(Raws(ymls)[j])
  <2>5. Copies(f, Joined(Raws(ymls))[i]) = Copies(f, Raws(ymls)[IF all THEN 1 ELSE i])
    BY <2>4, CopiesJoined
  <2>6. all <=> common(f)
    BY <2>4
  <2> HIDE DEF all, common
  <2> QED BY <2>3, <2>4, <2>5, <2>6
<1> QED BY <1>1, StagesHoldTheMigration, PTL

(* Migrating a second time, from the rendered ymls, changes nothing.       *)
THEOREM MigrationIsStable == MigrationSpec => []MigratingAgainChangesNothing
<1>1. MigrationInv => MigratingAgainChangesNothing
  BY MigratingRendered DEF MigrationInv, MigratingAgainChangesNothing
<1> QED BY <1>1, StagesHoldTheMigration, PTL
=============================================================================
