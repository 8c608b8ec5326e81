------------------------------ MODULE LinkOutputs ------------------------------
(***************************************************************************)
(* The end of the pipeline: link-core, materialize, validate, provenance   *)
(* (build-wasm.sh, scripts/artifact-state.py, build_state.py:              *)
(* materialize_ledger, src/provenance.py: finalize), run by Nx as a chain  *)
(* of targets or by hand, one command at a time.                           *)
(*                                                                         *)
(* There is one directory build/link-core, for whatever build was linked   *)
(* last.  Its inventory is written after the link; materialize copies what *)
(* the inventory lists to OCJS_OUTPUT_DIR, after it removed what a marker  *)
(* in the build directory says it copied there the last time; provenance   *)
(* compares the destination with the inventory once more and writes what   *)
(* link report and inventory say next to the files.                        *)
(*                                                                         *)
(* A tree maps each path to its content.  Nx's cache is external: it may   *)
(* have the outputs of any link, and puts them back instead of running     *)
(* link-core again.                                                        *)
(***************************************************************************)
EXTENDS Naturals

CONSTANTS Builds,      \* a configuration and a YAML file: $OCJS_CONFIG-$name
          Names,       \* the names of builds in YAML files: $name
          Name,        \* the name of each build
          Versions,    \* versions of what builds are made from
          Dirs,        \* values of OCJS_OUTPUT_DIR
          Paths,       \* file names below them
          Contents,    \* contents of files
          Output,      \* the tree that each link makes
          NoFile,      \* nothing is at the path
          Torn,        \* a file whose writing was cut
          None,        \* a JSON file that is missing
          MaxFaults    \* bound on the events outside the commands

Links == Builds \X Versions
Trees == [Paths -> Contents \cup {NoFile}]
Made(tree) == {p \in Paths : tree[p] # NoFile}

ASSUME NamesAssumption == /\ NoFile \notin Contents
                          /\ Torn \notin Contents \cup {NoFile}
                          /\ None \notin Trees \cup Links
ASSUME BuildsAssumption == Name \in [Builds -> Names]
ASSUME OutputAssumption == /\ Output \in [Links -> Trees]
                           /\ \A l \in Links : Made(Output[l]) # {}
ASSUME BoundAssumption == MaxFaults \in Nat

VARIABLES version,     \* what builds are made from now
          core,        \* build/link-core/
          inventory,   \* build/link-core.manifest.json
          report,      \* build/link-core.link-report.json
          marker,      \* build/materialized/<build>.json: the paths it lists
          dest,        \* the output directories
          provenance,  \* <name>.provenance.json in each of them
          chain,       \* the commands run as Nx targets, one after the other
          build, dir,  \* OCJS_CONFIG and the YAML file, OCJS_OUTPUT_DIR
          pc,          \* where the command is
          todo,        \* the paths it has still to handle
          result,      \* "published" by a chain, or "stopped"
          faults       \* how many events there were outside the commands

linked == <<core, inventory, report>>
placed == <<marker, dest, provenance>>
command == <<chain, build, dir>>
vars == <<version, linked, placed, command, pc, todo, result, faults>>

-----------------------------------------------------------------------------
Files == Contents \cup {NoFile, Torn}
Documents == [link : Links \cup {None}, outputs : Trees]
Phases == {"idle", "start", "clear", "report", "link", "verify", "unlink",
           "copy", "validate", "finalize"}

TypeOK == /\ version \in Versions
          /\ core \in [Paths -> Files]
          /\ inventory \in Trees \cup {None}
          /\ report \in Links \cup {None}
          /\ marker \in [Builds -> SUBSET Paths]
          /\ dest \in [Dirs -> [Paths -> Files]]
          /\ provenance \in [Dirs -> [Names -> Documents \cup {None}]]
          /\ chain \in BOOLEAN
          /\ build \in Builds
          /\ dir \in Dirs
          /\ pc \in Phases
          /\ todo \in SUBSET Paths
          /\ result \in {"none", "published", "stopped"}
          /\ faults \in 0 .. MaxFaults

Init == /\ version \in Versions
        /\ core = [p \in Paths |-> NoFile]
        /\ inventory = None
        /\ report = None
        /\ marker = [b \in Builds |-> {}]
        /\ dest = [d \in Dirs |-> [p \in Paths |-> NoFile]]
        /\ provenance = [d \in Dirs |-> [n \in Names |-> None]]
        /\ chain = FALSE
        /\ build \in Builds
        /\ dir \in Dirs
        /\ pc = "idle"
        /\ todo = {}
        /\ result = "none"
        /\ faults = 0

(* The link of the command that runs.                                      *)
Link == <<build, version>>

-----------------------------------------------------------------------------
(* The commands.                                                           *)
Begin(phase, b, d, targets) ==
  /\ pc = "idle"
  /\ pc' = phase
  /\ build' = b
  /\ dir' = d
  /\ chain' = targets
  /\ result' = "none"
  /\ UNCHANGED <<version, linked, placed, todo, faults>>

(* nx run ocjs:link, and the commands one by one.                          *)
StartChain(b, d) == Begin("start", b, d, TRUE)
StartLinkCore(b, d) == Begin("clear", b, d, FALSE)
StartMaterialize(b, d) == Begin("verify", b, d, FALSE)
StartProvenance(b, d) == Begin("finalize", b, d, FALSE)

Stop == /\ pc' = "idle"
        /\ chain' = FALSE
        /\ todo' = {}
        /\ result' = "stopped"
        /\ UNCHANGED <<build, dir>>

(* Nx has the outputs of this link and puts them back (external).          *)
Restore ==
  /\ pc = "start"
  /\ core' = Output[Link]
  /\ inventory' = Output[Link]
  /\ report' = Link
  /\ pc' = "verify"
  /\ UNCHANGED <<version, placed, command, todo, result, faults>>

(* Nx runs the target.                                                     *)
RunLinkCore ==
  /\ pc = "start"
  /\ pc' = "clear"
  /\ UNCHANGED <<version, linked, placed, command, todo, result, faults>>

-----------------------------------------------------------------------------
(* link-core: rm -rf of the directory ...                                  *)
ClearFile(p) ==
  /\ pc = "clear"
  /\ core[p] # NoFile
  /\ core' = [core EXCEPT ![p] = NoFile]
  /\ UNCHANGED <<version, inventory, report, placed, command, pc, todo,
                 result, faults>>

(* A mutant: the new link is made over the old files.                      *)
RemoveOnlyInventory ==
  /\ pc = "clear"
  /\ inventory' = None
  /\ pc' = "report"
  /\ UNCHANGED <<version, core, report, placed, command, todo, result,
                 faults>>

(* A mutant: the inventory stays until the next one replaces it.           *)
KeepInventory ==
  /\ pc = "clear"
  /\ \A p \in Paths : core[p] = NoFile
  /\ pc' = "report"
  /\ UNCHANGED <<version, linked, placed, command, todo, result, faults>>

(* ... and rm -f of the two JSON files.                                    *)
RemoveInventory ==
  /\ pc = "clear"
  /\ \A p \in Paths : core[p] = NoFile
  /\ inventory' = None
  /\ pc' = "report"
  /\ UNCHANGED <<version, core, report, placed, command, todo, result,
                 faults>>

RemoveReport ==
  /\ pc = "report"
  /\ report' = None
  /\ pc' = "link"
  /\ todo' = Made(Output[Link])
  /\ UNCHANGED <<version, core, inventory, placed, command, result,
                 faults>>

(* step_link: emcc, wasm-opt and yaml_build.py write the artifacts ...     *)
LinkFile(p) ==
  /\ pc = "link"
  /\ p \in todo
  /\ core' = [core EXCEPT ![p] = Output[Link][p]]
  /\ todo' = todo \ {p}
  /\ UNCHANGED <<version, inventory, report, placed, command, pc,
                 result, faults>>

(* ... and add_linking the report, with some of them still to come.        *)
WriteReport ==
  /\ pc = "link"
  /\ report = None
  /\ report' = Link
  /\ UNCHANGED <<version, core, inventory, placed, command, pc, todo,
                 result, faults>>

(* artifact-state.py write.                                                *)
WriteInventory ==
  /\ pc = "link"
  /\ todo = {}
  /\ report # None
  /\ inventory' = core
  /\ pc' = IF chain THEN "verify" ELSE "idle"
  /\ UNCHANGED <<version, core, report, placed, command, todo, result, faults>>

-----------------------------------------------------------------------------
(* materialize_ledger: only files that are as the inventory says.          *)
Verify ==
  /\ pc = "verify"
  /\ inventory # None
  /\ core = inventory
  /\ pc' = "unlink"
  /\ todo' = marker[build] \ Made(inventory)
  /\ UNCHANGED <<version, linked, placed, command, result, faults>>

VerifyFails ==
  /\ pc = "verify"
  /\ inventory = None \/ core # inventory
  /\ Stop
  /\ UNCHANGED <<version, linked, placed, faults>>

(* A mutant: unlink() without missing_ok raises FileNotFoundError.         *)
UnlinkStrictly(p) ==
  /\ pc = "unlink"
  /\ p \in todo
  /\ \/ /\ dest[dir][p] # NoFile
        /\ dest' = [dest EXCEPT ![dir] = [@ EXCEPT ![p] = NoFile]]
        /\ todo' = todo \ {p}
        /\ UNCHANGED <<command, pc, result>>
     \/ /\ dest[dir][p] = NoFile
        /\ Stop
        /\ UNCHANGED dest
  /\ UNCHANGED <<version, linked, marker, provenance, faults>>

(* What the marker lists and the inventory does not goes.                  *)
Unlink(p) ==
  /\ pc = "unlink"
  /\ p \in todo
  /\ dest' = [dest EXCEPT ![dir] = [@ EXCEPT ![p] = NoFile]]
  /\ todo' = todo \ {p}
  /\ UNCHANGED <<version, linked, marker, provenance, command, pc, result,
                 faults>>

Unlinked ==
  /\ pc = "unlink"
  /\ todo = {}
  /\ pc' = "copy"
  /\ todo' = Made(inventory)
  /\ UNCHANGED <<version, linked, placed, command, result, faults>>

(* A file is copied next to its place and renamed into it.                 *)
Copy(p) ==
  /\ pc = "copy"
  /\ p \in todo
  /\ dest' = [dest EXCEPT ![dir] = [@ EXCEPT ![p] = core[p]]]
  /\ todo' = todo \ {p}
  /\ UNCHANGED <<version, linked, marker, provenance, command, pc, result,
                 faults>>

WriteMarker ==
  /\ pc = "copy"
  /\ todo = {}
  /\ marker' = [marker EXCEPT ![build] = Made(inventory)]
  /\ pc' = IF chain THEN "validate" ELSE "idle"
  /\ UNCHANGED <<version, linked, dest, provenance, command, todo, result,
                 faults>>

-----------------------------------------------------------------------------
(* validate-build.py looks at symbols and sizes, none of which is modelled *)
(* here; when it fails the chain is cut.                                   *)
Validate ==
  /\ pc = "validate"
  /\ pc' = "finalize"
  /\ UNCHANGED <<version, linked, placed, command, todo, result, faults>>

Complete == inventory # None /\ \A p \in Made(inventory) :
                                  dest[dir][p] = inventory[p]

(* What finalize writes: link report and hashes of the files.              *)
Document == [link |-> report, outputs |-> inventory]

(* finalize: each file of the inventory must be there as it was linked.    *)
Finalize ==
  /\ pc = "finalize"
  /\ Complete
  /\ provenance' =
       [provenance EXCEPT ![dir] = [@ EXCEPT ![Name[build]] = Document]]
  /\ pc' = "idle"
  /\ chain' = FALSE
  /\ result' = IF chain THEN "published" ELSE "none"
  /\ UNCHANGED <<version, linked, marker, dest, build, dir, todo, faults>>

FinalizeFails ==
  /\ pc = "finalize"
  /\ ~Complete
  /\ Stop
  /\ UNCHANGED <<version, linked, placed, faults>>

-----------------------------------------------------------------------------
(* Events outside the commands.                                            *)
Fault == faults < MaxFaults /\ faults' = faults + 1

(* The command is killed, or a tool it runs fails: files that the linker   *)
(* is writing may be torn.                                                 *)
Cut ==
  /\ Fault
  /\ pc # "idle"
  /\ Stop
  /\ \E torn \in SUBSET todo :
       core' = [p \in Paths |->
                  IF pc = "link" /\ p \in torn THEN Torn ELSE core[p]]
  /\ UNCHANGED <<version, inventory, report, placed>>

(* Nx removes the outputs of the target and is killed while it copies the  *)
(* cached ones.                                                            *)
CutRestore ==
  /\ Fault
  /\ pc = "start"
  /\ \E back \in SUBSET Paths :
       core' = [p \in Paths |-> IF p \in back THEN Output[Link][p]
                                ELSE NoFile]
  /\ inventory' \in {None, Output[Link]}
  /\ report' \in {None, Link}
  /\ Stop
  /\ UNCHANGED <<version, placed>>

(* The YAML file, an option or the code changes between two commands.      *)
ChangeInputs(v) ==
  /\ Fault
  /\ pc = "idle"
  /\ version' = v
  /\ result' = "none"
  /\ UNCHANGED <<linked, placed, command, pc, todo>>

(* Somebody removes a file of an output directory.                         *)
Remove(d, p) ==
  /\ Fault
  /\ pc = "idle"
  /\ dest' = [dest EXCEPT ![d] = [@ EXCEPT ![p] = NoFile]]
  /\ result' = "none"
  /\ UNCHANGED <<version, linked, marker, provenance, command, pc, todo>>

Steps == \/ Restore
         \/ RunLinkCore
         \/ \E p \in Paths : ClearFile(p)
         \/ RemoveInventory
         \/ RemoveReport
         \/ \E p \in Paths : LinkFile(p)
         \/ WriteReport
         \/ WriteInventory
         \/ Verify
         \/ VerifyFails
         \/ \E p \in Paths : Unlink(p)
         \/ Unlinked
         \/ \E p \in Paths : Copy(p)
         \/ WriteMarker
         \/ Validate
         \/ Finalize
         \/ FinalizeFails

ByHand == \E b \in Builds, d \in Dirs : \/ StartLinkCore(b, d)
                                        \/ StartMaterialize(b, d)
                                        \/ StartProvenance(b, d)

Targets == \E b \in Builds, d \in Dirs : StartChain(b, d)

Outside == \/ Cut
           \/ CutRestore
           \/ \E v \in Versions : ChangeInputs(v)
           \/ \E d \in Dirs, p \in Paths : Remove(d, p)

Next == Steps \/ ByHand \/ Targets \/ Outside

Spec == Init /\ [][Next]_vars

(* A command runs to its end, and Nx is run again and again, whatever else *)
(* is run between.                                                         *)
FairSpec == Spec /\ WF_vars(Steps) /\ SF_vars(Targets)

-----------------------------------------------------------------------------
(* Properties.                                                             *)

(* When the targets have run to the end, each file that the present link   *)
(* makes is in the output directory as it was linked, and the provenance   *)
(* next to it tells of that link and of just these files: nothing is left  *)
(* of the build that was in link-core before, of a link that was cut, or   *)
(* of commands that were run by hand on the wrong build.                   *)
ChainPublishesItsLink ==
  result = "published" =>
    /\ \A p \in Made(Output[Link]) : dest[dir][p] = Output[Link][p]
    /\ provenance[dir][Name[build]] = [link |-> Link, outputs |-> Output[Link]]

(* A reader of an output directory never finds a half-written file, at no  *)
(* moment of a materialization and after no kill of it or of the link.     *)
DestIsNeverTorn == \A d \in Dirs, p \in Paths : dest[d][p] # Torn

(* Link report and inventory are two files, written at different times: no *)
(* provenance ever describes the files of one link by the report of        *)
(* another, in whatever order commands are run by hand or cut.             *)
ProvenanceTellsTheTruth ==
  \A d \in Dirs, n \in Names :
    LET doc == provenance[d][n]
    IN doc # None /\ doc.link # None => doc.outputs = Output[doc.link]

(* Nx gets to the end again and again: what a cut link, materialization or *)
(* restore left behind, or somebody removed, stops no later run.           *)
EventuallyPublished == []<>(result = "published")
=============================================================================
