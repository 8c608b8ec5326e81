------------------------------ MODULE PatchState ------------------------------
(***************************************************************************)
(* apply-patches (build-wasm.sh: step_apply_patches, step_patch_embind)    *)
(* and scripts/patch-state.py: the only step that writes into the clones   *)
(* of OCCT and emsdk.  `prepare` decides from git status and from the      *)
(* ownership manifest of the last complete run whether the tree may be     *)
(* patched, is patched already, or has to be reverted first; `write`       *)
(* records what the tree holds in the end.  Between them the patch scripts *)
(* run.  Each reads a file, decides, and then opens it again to write what *)
(* it has made of what it read.  A file is taken for done by a sentinel or *)
(* by its hash; one that is neither done nor has the text to be replaced   *)
(* makes the script exit 1, except for patch_using_statements.py, which    *)
(* warns and goes on.                                                      *)
(*                                                                         *)
(* A file is its patch and the user's edit of it, if any.  Users edit the  *)
(* clones at any time, also between the reading of a file and its writing. *)
(***************************************************************************)
EXTENDS Naturals

CONSTANTS Files,       \* files of the OCCT clone
          Versions,    \* versions of the patch scripts
          Targets,     \* the files that each version patches
          Guarded,     \* the files whose scripts compare hashes
          Lenient,     \* those whose script only warns
          NoPatch,     \* a file as it was checked out
          Torn,        \* a file whose rewriting was killed
          NoManifest,  \* build/patches-applied.json is missing
          Edits,       \* the changes a user may make to a file
          Breaking,    \* those that take away what a script looks for
          NoEdit,      \* ... and none
          MaxFaults    \* bound on the events outside the step

ASSUME TargetsAssumption == Targets \in [Versions -> SUBSET Files]
ASSUME NamesAssumption == /\ NoPatch \notin Versions
                          /\ Torn \notin Versions \cup {NoPatch}
                          /\ NoEdit \notin Edits
ASSUME BoundAssumption == MaxFaults \in Nat

ASSUME BreakingAssumption == Breaking \subseteq Edits

VARIABLES scripts,   \* the version of src/patches
          patched,   \* the version that patched each file
          edit,      \* the user's change of each file
          embind,    \* the version that patched emsdk's libembind.js
          manifest,  \* build/patches-applied.json
          pc,        \* where the step is
          todo,      \* the files it has still to revert, or to patch
          buffer,    \* what a script has read, from there to its writing
          result,    \* how the last run ended; "none" after a later event
          faults     \* how many events there were outside the step

vars == <<scripts, patched, edit, embind, manifest, pc, todo, buffer, result,
          faults>>

tree == <<patched, edit, embind>>

-----------------------------------------------------------------------------
Patch == Versions \cup {NoPatch, Torn}
Change == Edits \cup {NoEdit}
Buffers == [file : Files, edit : Change]
Phases == {"idle", "prepare", "revert", "patch", "reset", "embind", "write"}

(* _state: the inputs, and the content of whatever git calls changed.      *)
State == [inputs |-> scripts, patched |-> patched, edit |-> edit,
          embind |-> embind]

States == [inputs : Versions, patched : [Files -> Patch],
           edit : [Files -> Change], embind : Patch]

TypeOK == /\ scripts \in Versions
          /\ patched \in [Files -> Patch]
          /\ edit \in [Files -> Change]
          /\ embind \in Patch
          /\ manifest \in States \cup {NoManifest}
          /\ pc \in Phases
          /\ todo \in SUBSET Files
          /\ buffer \in SUBSET Buffers
          /\ result \in {"none", "ok", "refused", "failed", "killed"}
          /\ faults \in 0 .. MaxFaults

(* Fresh clones, and no build directory.                                   *)
Init == /\ scripts \in Versions
        /\ patched = [f \in Files |-> NoPatch]
        /\ edit = [f \in Files |-> NoEdit]
        /\ embind = NoPatch
        /\ manifest = NoManifest
        /\ pc = "idle"
        /\ todo = {}
        /\ buffer = {}
        /\ result = "none"
        /\ faults = 0

(* _status: git status --porcelain.                                        *)
Dirty == {f \in Files : patched[f] # NoPatch \/ edit[f] # NoEdit}

(* The dependencyFiles of a manifest.                                      *)
Owned == IF manifest = NoManifest THEN {}
         ELSE {f \in Files : \/ manifest.patched[f] # NoPatch
                             \/ manifest.edit[f] # NoEdit}

-----------------------------------------------------------------------------
Start ==
  /\ pc = "idle"
  /\ pc' = "prepare"
  /\ result' = "none"
  /\ UNCHANGED <<scripts, tree, manifest, todo, buffer, faults>>

StartPatching == pc' = "patch" /\ todo' = Targets[scripts]

(* A mutant: a tree whose dirty files are all owned counts as patched.     *)
PrepareNothingBlindly ==
  /\ pc = "prepare"
  /\ Dirty \subseteq Owned
  /\ StartPatching
  /\ UNCHANGED <<scripts, tree, manifest, buffer, result, faults>>

(* prepare finds a clean tree, or exactly what the manifest describes.     *)
PrepareNothing ==
  /\ pc = "prepare"
  /\ Dirty = {} \/ (Dirty \subseteq Owned /\ State = manifest)
  /\ StartPatching
  /\ UNCHANGED <<scripts, tree, manifest, buffer, result, faults>>

(* Changes without a manifest, or outside it, must be resolved by hand.    *)
PrepareRefuses ==
  /\ pc = "prepare"
  /\ ~(Dirty \subseteq Owned)
  /\ pc' = "idle"
  /\ result' = "refused"
  /\ UNCHANGED <<scripts, tree, manifest, todo, buffer, faults>>

(* A mutant: git checkout of all that is dirty.                            *)
PrepareRevertsAll ==
  /\ pc = "prepare"
  /\ Dirty # {}
  /\ State # manifest
  /\ pc' = "revert"
  /\ todo' = Dirty
  /\ UNCHANGED <<scripts, tree, manifest, buffer, result, faults>>

(* Owned files, but not as recorded: all that is owned is reverted.        *)
PrepareReverts ==
  /\ pc = "prepare"
  /\ Dirty # {}
  /\ Dirty \subseteq Owned
  /\ State # manifest
  /\ pc' = "revert"
  /\ todo' = Owned
  /\ UNCHANGED <<scripts, tree, manifest, buffer, result, faults>>

(* git checkout -- f, or unlink of a file git does not track.              *)
Revert(f) ==
  /\ pc = "revert"
  /\ f \in todo
  /\ patched' = [patched EXCEPT ![f] = NoPatch]
  /\ edit' = [edit EXCEPT ![f] = NoEdit]
  /\ todo' = todo \ {f}
  /\ UNCHANGED <<scripts, embind, manifest, pc, buffer, result, faults>>

Reverted ==
  /\ pc = "revert"
  /\ todo = {}
  /\ StartPatching
  /\ UNCHANGED <<scripts, tree, manifest, buffer, result, faults>>

(* The sentinel is there, or the hash is the right one.                    *)
Done(f) ==
  /\ patched[f] # NoPatch
  /\ edit[f] \notin Breaking
  /\ f \in Guarded => patched[f] = scripts /\ edit[f] = NoEdit

(* The text to be replaced is there.                                       *)
Fits(f) == /\ patched[f] = NoPatch
           /\ edit[f] \notin Breaking
           /\ f \in Guarded => edit[f] = NoEdit

(* The next file: no script is between its reading and its writing.        *)
Turn(f) == pc = "patch" /\ buffer = {} /\ f \in todo

(* A patch script reads a file ...                                         *)
ReadFile(f) ==
  /\ Turn(f)
  /\ Fits(f)
  /\ buffer' = {[file |-> f, edit |-> edit[f]]}
  /\ UNCHANGED <<scripts, tree, manifest, pc, todo, result, faults>>

(* ... and writes what it has made of that, whatever is there by now.      *)
WriteFile(read) ==
  /\ read \in buffer
  /\ patched' = [patched EXCEPT ![read.file] = scripts]
  /\ edit' = [edit EXCEPT ![read.file] = read.edit]
  /\ todo' = todo \ {read.file}
  /\ buffer' = {}
  /\ UNCHANGED <<scripts, embind, manifest, pc, result, faults>>

(* "Already patched", or the warning that the text was not found.          *)
LeaveFile(f) ==
  /\ Turn(f)
  /\ Done(f) \/ (f \in Lenient /\ ~Fits(f))
  /\ todo' = todo \ {f}
  /\ UNCHANGED <<scripts, tree, manifest, pc, buffer, result, faults>>

(* No anchor, or a hash that is neither of the two: the script exits 1.    *)
RejectFile(f) ==
  /\ Turn(f)
  /\ f \notin Lenient
  /\ ~Done(f) /\ ~Fits(f)
  /\ pc' = "idle"
  /\ result' = "failed"
  /\ UNCHANGED <<scripts, tree, manifest, todo, buffer, faults>>

Patched ==
  /\ pc = "patch"
  /\ todo = {}
  /\ pc' = "reset"
  /\ UNCHANGED <<scripts, tree, manifest, todo, buffer, result, faults>>

(* step_patch_embind copies the pristine snapshot over libembind.js ...    *)
ResetEmbind ==
  /\ pc = "reset"
  /\ embind' = NoPatch
  /\ pc' = "embind"
  /\ UNCHANGED <<scripts, patched, edit, manifest, todo, buffer, result,
                 faults>>

(* ... and patches it; both steps verify what they made by its hash.       *)
PatchEmbind ==
  /\ pc = "embind"
  /\ embind' = scripts
  /\ pc' = "write"
  /\ UNCHANGED <<scripts, patched, edit, manifest, todo, buffer, result,
                 faults>>

(* patch-state.py write: whatever git calls changed is recorded as owned.  *)
Write ==
  /\ pc = "write"
  /\ manifest' = State
  /\ pc' = "idle"
  /\ result' = "ok"
  /\ UNCHANGED <<scripts, tree, todo, buffer, faults>>

-----------------------------------------------------------------------------
(* Events outside the step.                                                *)
Fault == faults < MaxFaults /\ faults' = faults + 1

(* open(f, "w") has emptied the file, and not all of it is written: what    *)
(* there was of the user's is gone, or stands in the part that is written. *)
Tear(read) ==
  /\ patched' = [patched EXCEPT ![read.file] = Torn]
  /\ \E change \in {NoEdit, read.edit} :
       edit' = [edit EXCEPT ![read.file] = change]
  /\ UNCHANGED embind

(* The run is killed, or a write of its fails: maybe in mid-rewrite.       *)
Kill ==
  /\ Fault
  /\ pc # "idle"
  /\ pc' = "idle"
  /\ result' = "killed"
  /\ buffer' = {}
  /\ \/ UNCHANGED tree
     \/ \E read \in buffer : Tear(read)
     \/ /\ pc \in {"reset", "embind"}
        /\ embind' = Torn
        /\ UNCHANGED <<patched, edit>>
  /\ UNCHANGED <<scripts, manifest, todo>>

(* A checkout of another commit of the repository, between runs.           *)
ChangeScripts(v) ==
  /\ Fault
  /\ pc = "idle"
  /\ scripts' = v
  /\ result' = "none"
  /\ UNCHANGED <<tree, manifest, pc, todo, buffer>>

(* The user changes a file of the clone.                                   *)
EditFile(f, change) ==
  /\ Fault
  /\ edit' = [edit EXCEPT ![f] = change]
  /\ result' = "none"
  /\ UNCHANGED <<scripts, patched, embind, manifest, pc, todo, buffer>>

(* The build directory is removed.                                         *)
LoseManifest ==
  /\ Fault
  /\ pc = "idle"
  /\ manifest' = NoManifest
  /\ result' = "none"
  /\ UNCHANGED <<scripts, tree, pc, todo, buffer>>

(* The user resolves the changes the refusal lists.                        *)
Resolve ==
  /\ result = "refused"
  /\ patched' = [f \in Files |-> IF f \in Owned THEN patched[f] ELSE NoPatch]
  /\ edit' = [f \in Files |-> IF f \in Owned THEN edit[f] ELSE NoEdit]
  /\ result' = "none"
  /\ UNCHANGED <<scripts, embind, manifest, pc, todo, buffer, faults>>

Run == \/ Start
       \/ PrepareNothing
       \/ PrepareRefuses
       \/ PrepareReverts
       \/ \E f \in Files : Revert(f)
       \/ Reverted
       \/ \E f \in Files : ReadFile(f)
       \/ \E read \in buffer : WriteFile(read)
       \/ \E f \in Files : LeaveFile(f)
       \/ \E f \in Files : RejectFile(f)
       \/ Patched
       \/ ResetEmbind
       \/ PatchEmbind
       \/ Write

Outside == \/ Kill
           \/ \E v \in Versions : ChangeScripts(v)
           \/ \E f \in Files, change \in Edits : EditFile(f, change)
           \/ LoseManifest
           \/ Resolve

Next == Run \/ Outside

Spec == Init /\ [][Next]_vars

(* The step is sequential code, run before every build; a user who is      *)
(* refused again and again does what the message says.                     *)
FairSpec == Spec /\ WF_vars(Run) /\ SF_vars(Resolve)

-----------------------------------------------------------------------------
(* Properties.                                                             *)

(* The tree the present scripts make: each target patched by them, and     *)
(* nothing left of another version.  Edited files are the user's business. *)
Exact(v, files, changes) ==
  \A f \in Files :
    changes[f] = NoEdit =>
      files[f] = IF f \in Targets[v] THEN v ELSE NoPatch

(* After a successful run the clones are exactly as the present scripts    *)
(* make them and the manifest describes them, whatever versions, kills and *)
(* edits there were before: no torn file and no patch of an older version  *)
(* stays, although most scripts take any sentinel of theirs for done.      *)
PatchedIsCurrent ==
  result = "ok" => /\ Exact(scripts, patched, edit)
                   /\ embind = scripts
                   /\ manifest = State

(* The exception of the next property: the file is being rewritten, and    *)
(* the user's change came after it was read, or the rewriting is cut.      *)
Raced(f) ==
  \E read \in buffer : read.file = f /\ (read.edit # edit[f] \/ Kill)

(* A run undoes a user's change only where the manifest owns the file: the *)
(* one way to lose a change of a file of one's own is to make it, or to    *)
(* have the run killed, while a script is about to write that very file.   *)
ForeignEditsSurvive ==
  [][\A f \in Files :
       pc # "idle" /\ edit[f] # NoEdit /\ edit'[f] # edit[f] =>
         f \in Owned \/ EditFile(f, edit'[f]) \/ Raced(f)]_vars

(* What a script rejects: an edit of a file with a hash, or one that takes *)
(* an anchor or a sentinel away.                                           *)
Rejected(f, change) ==
  /\ f \notin Lenient
  /\ change \in Breaking \/ (f \in Guarded /\ change # NoEdit)

(* Scripts reject nothing but such edits: prepare has refused or reverted  *)
(* what another version, or a run that was killed, has left.               *)
ScriptsAcceptTheTree ==
  result = "failed" => \E f \in Targets[scripts] : Rejected(f, edit[f])

(* The exception: an edit made between the script of its file and `write`  *)
(* is recorded as owned.  prepare then finds the tree exactly as recorded, *)
(* and the script rejects it, in every run until the user reverts it.      *)
EditIsRecorded ==
  manifest # NoManifest /\ \E f \in Files : Rejected(f, manifest.edit[f])

(* Once edits and kills stop, repeated runs get to a patched tree: a run   *)
(* that was cut short, in the middle of a file included, or that a script  *)
(* ended, leaves nothing that prepare cannot revert, or refuse so that the *)
(* user can resolve it.                                                    *)
EventuallyPatched == []<>(result = "ok" \/ EditIsRecorded)
=============================================================================
