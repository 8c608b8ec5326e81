--------------------------- MODULE PatchStateProofs ---------------------------
(***************************************************************************)
(* Proofs about PatchState, for every set of files, of versions of the     *)
(* patch scripts and of edits, whenever the edits are made.                *)
(***************************************************************************)
EXTENDS PatchState, TLAPS

(* A run has no result yet; only what the manifest owns is reverted; only  *)
(* a file that has still to be patched is between reading and writing.     *)
PhaseInv ==
  /\ pc # "idle" => result = "none"
  /\ pc = "revert" => todo \subseteq Owned
  /\ pc = "patch" => todo \subseteq Targets[scripts]
  /\ buffer # {} => pc = "patch"
  /\ \A read \in buffer : read.file \in todo

(* The manifest describes what a complete run has made.                    *)
ManifestInv ==
  manifest # NoManifest =>
    /\ Exact(manifest.inputs, manifest.patched, manifest.edit)
    /\ manifest.embind = manifest.inputs

(* While a run reverts, all it has not still to revert is unpatched; while *)
(* it patches, no unedited file has a patch of another version; after that *)
(* every unedited file is as it should be.                                 *)
TreeInv ==
  /\ pc = "revert" => \A f \in Files \ todo : patched[f] = NoPatch
  /\ pc = "patch" =>
       \A f \in Files :
         edit[f] = NoEdit =>
           /\ f \in todo => patched[f] \in {NoPatch, scripts}
           /\ f \notin todo =>
                patched[f] = IF f \in Targets[scripts] THEN scripts
                             ELSE NoPatch
  /\ pc \in {"reset", "embind", "write"} => Exact(scripts, patched, edit)
  /\ pc = "write" => embind = scripts

Inv == TypeOK /\ PhaseInv /\ ManifestInv /\ TreeInv /\ PatchedIsCurrent

-----------------------------------------------------------------------------
LEMMA InvInitial == Init => Inv
BY BoundAssumption DEF Init, Inv, TypeOK, PhaseInv, ManifestInv, TreeInv,
  PatchedIsCurrent, Patch, Change, Buffers, Phases

LEMMA Recorded == TypeOK => State \in States
BY DEF TypeOK, State, States

LEMMA OwnedAreFiles == Owned \subseteq Files
BY DEF Owned

(* A tree that is not clean but is as recorded has a manifest.             *)
LEMMA DirtyHasManifest ==
  Dirty # {} /\ Dirty \subseteq Owned => manifest # NoManifest
BY DEF Owned

-----------------------------------------------------------------------------
(* The invariant is inductive.                                             *)
LEMMA StepType == TypeOK /\ [Next]_vars => TypeOK'
<1> SUFFICES ASSUME TypeOK, [Next]_vars PROVE TypeOK'
  OBVIOUS
<1> USE BoundAssumption, TargetsAssumption DEF TypeOK, Patch, Change, Buffers,
       Phases
<1>1. CASE UNCHANGED vars
  BY <1>1 DEF vars
<1>2. ASSUME Start PROVE TypeOK'
  BY <1>2 DEF Start, tree
<1>3. ASSUME PrepareNothing PROVE TypeOK'
  BY <1>3 DEF PrepareNothing, tree, StartPatching
<1>4. ASSUME PrepareRefuses PROVE TypeOK'
  BY <1>4 DEF PrepareRefuses, tree
<1>5. ASSUME PrepareReverts PROVE TypeOK'
  BY <1>5, OwnedAreFiles DEF PrepareReverts, tree
<1>6. ASSUME NEW f \in Files, Revert(f) PROVE TypeOK'
  BY <1>6 DEF Revert, tree
<1>7. ASSUME Reverted PROVE TypeOK'
  BY <1>7 DEF Reverted, tree, StartPatching
<1>8. ASSUME NEW f \in Files, ReadFile(f) PROVE TypeOK'
  BY <1>8 DEF ReadFile, tree, Turn
<1>9. ASSUME NEW read \in buffer, WriteFile(read) PROVE TypeOK'
  BY <1>9 DEF WriteFile, tree
<1>10. ASSUME NEW f \in Files, LeaveFile(f) PROVE TypeOK'
  BY <1>10 DEF LeaveFile, tree, Turn
<1>11. ASSUME NEW f \in Files, RejectFile(f) PROVE TypeOK'
  BY <1>11 DEF RejectFile, tree, Turn
<1>12. ASSUME Patched PROVE TypeOK'
  BY <1>12 DEF Patched, tree
<1>13. ASSUME ResetEmbind PROVE TypeOK'
  BY <1>13 DEF ResetEmbind, tree
<1>14. ASSUME PatchEmbind PROVE TypeOK'
  BY <1>14 DEF PatchEmbind, tree
<1>15. ASSUME Write PROVE TypeOK'
  BY <1>15, Recorded DEF Write, tree
<1>16. ASSUME Kill PROVE TypeOK'
  BY <1>16 DEF Kill, tree, Fault, Tear
<1>17. ASSUME NEW v \in Versions, ChangeScripts(v) PROVE TypeOK'
  BY <1>17 DEF ChangeScripts, tree, Fault
<1>18. ASSUME NEW f \in Files, NEW change \in Edits, EditFile(f, change)
       PROVE  TypeOK'
  BY <1>18 DEF EditFile, tree, Fault
<1>19. ASSUME LoseManifest PROVE TypeOK'
  BY <1>19 DEF LoseManifest, tree, Fault
<1>20. ASSUME Resolve PROVE TypeOK'
  BY <1>20 DEF Resolve, tree
<1>21. QED
  BY <1>1, <1>2, <1>3, <1>4, <1>5, <1>6, <1>7, <1>8, <1>9,
     <1>10, <1>11, <1>12, <1>13, <1>14, <1>15, <1>16, <1>17, <1>18,
     <1>19, <1>20 DEF Next, Run, Outside

LEMMA StepPhase == TypeOK /\ PhaseInv /\ [Next]_vars => PhaseInv'
<1> SUFFICES ASSUME TypeOK, PhaseInv, [Next]_vars PROVE PhaseInv'
  OBVIOUS
<1> USE DEF PhaseInv, Owned, TypeOK
<1>1. CASE UNCHANGED vars
  BY <1>1 DEF vars
<1>2. ASSUME Start PROVE PhaseInv'
  BY <1>2 DEF Start, tree
<1>3. ASSUME PrepareNothing PROVE PhaseInv'
  BY <1>3 DEF PrepareNothing, tree, StartPatching
<1>4. ASSUME PrepareRefuses PROVE PhaseInv'
  BY <1>4 DEF PrepareRefuses, tree
<1>5. ASSUME PrepareReverts PROVE PhaseInv'
  BY <1>5 DEF PrepareReverts, tree
<1>6. ASSUME NEW f \in Files, Revert(f) PROVE PhaseInv'
  BY <1>6 DEF Revert, tree
<1>7. ASSUME Reverted PROVE PhaseInv'
  BY <1>7 DEF Reverted, tree, StartPatching
<1>8. ASSUME NEW f \in Files, ReadFile(f) PROVE PhaseInv'
  BY <1>8 DEF ReadFile, tree, Turn
<1>9. ASSUME NEW read \in buffer, WriteFile(read) PROVE PhaseInv'
  BY <1>9 DEF WriteFile, tree
<1>10. ASSUME NEW f \in Files, LeaveFile(f) PROVE PhaseInv'
  BY <1>10 DEF LeaveFile, tree, Turn
<1>11. ASSUME NEW f \in Files, RejectFile(f) PROVE PhaseInv'
  BY <1>11 DEF RejectFile, tree, Turn
<1>12. ASSUME Patched PROVE PhaseInv'
  BY <1>12 DEF Patched, tree
<1>13. ASSUME ResetEmbind PROVE PhaseInv'
  BY <1>13 DEF ResetEmbind, tree
<1>14. ASSUME PatchEmbind PROVE PhaseInv'
  BY <1>14 DEF PatchEmbind, tree
<1>15. ASSUME Write PROVE PhaseInv'
  BY <1>15 DEF Write, tree
<1>16. ASSUME Kill PROVE PhaseInv'
  BY <1>16 DEF Kill, tree, Fault, Tear
<1>17. ASSUME NEW v \in Versions, ChangeScripts(v) PROVE PhaseInv'
  BY <1>17 DEF ChangeScripts, tree, Fault
<1>18. ASSUME NEW f \in Files, NEW change \in Edits, EditFile(f, change)
       PROVE  PhaseInv'
  BY <1>18 DEF EditFile, tree, Fault
<1>19. ASSUME LoseManifest PROVE PhaseInv'
  BY <1>19 DEF LoseManifest, tree, Fault
<1>20. ASSUME Resolve PROVE PhaseInv'
  BY <1>20 DEF Resolve, tree
<1>21. QED
  BY <1>1, <1>2, <1>3, <1>4, <1>5, <1>6, <1>7, <1>8, <1>9,
     <1>10, <1>11, <1>12, <1>13, <1>14, <1>15, <1>16, <1>17, <1>18,
     <1>19, <1>20 DEF Next, Run, Outside

LEMMA StepManifest == Inv /\ [Next]_vars => ManifestInv'
<1> SUFFICES ASSUME Inv, [Next]_vars PROVE ManifestInv'
  OBVIOUS
<1> USE DEF Inv, TypeOK, ManifestInv
<1>1. CASE UNCHANGED vars
  BY <1>1 DEF vars, tree
<1>2. ASSUME Start PROVE ManifestInv'
  BY <1>2 DEF Start, tree
<1>3. ASSUME PrepareNothing PROVE ManifestInv'
  BY <1>3 DEF PrepareNothing, tree, StartPatching
<1>4. ASSUME PrepareRefuses PROVE ManifestInv'
  BY <1>4 DEF PrepareRefuses, tree
<1>5. ASSUME PrepareReverts PROVE ManifestInv'
  BY <1>5 DEF PrepareReverts, tree
<1>6. ASSUME NEW f \in Files, Revert(f) PROVE ManifestInv'
  BY <1>6 DEF Revert, tree
<1>7. ASSUME Reverted PROVE ManifestInv'
  BY <1>7 DEF Reverted, tree, StartPatching
<1>8. ASSUME NEW f \in Files, ReadFile(f) PROVE ManifestInv'
  BY <1>8 DEF ReadFile, tree, Turn
<1>9. ASSUME NEW read \in buffer, WriteFile(read) PROVE ManifestInv'
  BY <1>9 DEF WriteFile, tree
<1>10. ASSUME NEW f \in Files, LeaveFile(f) PROVE ManifestInv'
  BY <1>10 DEF LeaveFile, tree, Turn
<1>11. ASSUME NEW f \in Files, RejectFile(f) PROVE ManifestInv'
  BY <1>11 DEF RejectFile, tree, Turn
<1>12. ASSUME Patched PROVE ManifestInv'
  BY <1>12 DEF Patched, tree
<1>13. ASSUME ResetEmbind PROVE ManifestInv'
  BY <1>13 DEF ResetEmbind, tree
<1>14. ASSUME PatchEmbind PROVE ManifestInv'
  BY <1>14 DEF PatchEmbind, tree
<1>15. ASSUME Write PROVE ManifestInv'
  BY <1>15 DEF Write, tree, State, TreeInv, Exact
<1>16. ASSUME Kill PROVE ManifestInv'
  BY <1>16 DEF Kill, tree, Fault, Tear
<1>17. ASSUME NEW v \in Versions, ChangeScripts(v) PROVE ManifestInv'
  BY <1>17 DEF ChangeScripts, tree, Fault
<1>18. ASSUME NEW f \in Files, NEW change \in Edits, EditFile(f, change)
       PROVE  ManifestInv'
  BY <1>18 DEF EditFile, tree, Fault
<1>19. ASSUME LoseManifest PROVE ManifestInv'
  BY <1>19 DEF LoseManifest, tree, Fault
<1>20. ASSUME Resolve PROVE ManifestInv'
  BY <1>20 DEF Resolve, tree
<1>21. QED
  BY <1>1, <1>2, <1>3, <1>4, <1>5, <1>6, <1>7, <1>8, <1>9,
     <1>10, <1>11, <1>12, <1>13, <1>14, <1>15, <1>16, <1>17, <1>18,
     <1>19, <1>20 DEF Next, Run, Outside

LEMMA StepTree == Inv /\ [Next]_vars => TreeInv'
<1> SUFFICES ASSUME Inv, [Next]_vars PROVE TreeInv'
  OBVIOUS
<1> USE DEF Inv, TreeInv, TypeOK
<1>1. CASE UNCHANGED vars
  BY <1>1 DEF vars, tree, Exact
<1>2. ASSUME Start PROVE TreeInv'
  BY <1>2 DEF Start, tree, Exact
<1>3. ASSUME PrepareNothing PROVE TreeInv'
  <2>1. CASE Dirty = {}
    BY <1>3, <2>1 DEF PrepareNothing, StartPatching, tree, Dirty, Exact
  <2>2. CASE Dirty # {}
    <3>1. manifest # NoManifest /\ State = manifest
      BY <1>3, <2>2, DirtyHasManifest DEF PrepareNothing
    <3>2. Exact(scripts, patched, edit)
      BY <3>1 DEF ManifestInv, State
    <3>3. QED
      BY <1>3, <3>2 DEF PrepareNothing, StartPatching, tree, Exact
  <2>3. QED
    BY <2>1, <2>2
<1>4. ASSUME PrepareRefuses PROVE TreeInv'
  BY <1>4 DEF PrepareRefuses, tree, Exact
<1>5. ASSUME PrepareReverts PROVE TreeInv'
  <2>1. \A f \in Files \ Owned : patched[f] = NoPatch
    BY <1>5 DEF PrepareReverts, Dirty
  <2>2. QED
    BY <1>5, <2>1 DEF PrepareReverts, tree
<1>6. ASSUME NEW f \in Files, Revert(f) PROVE TreeInv'
  BY <1>6 DEF Revert, tree, Exact
<1>7. ASSUME Reverted PROVE TreeInv'
  BY <1>7 DEF Reverted, tree, StartPatching, Exact
<1>8. ASSUME NEW f \in Files, ReadFile(f) PROVE TreeInv'
  BY <1>8 DEF ReadFile, tree, Turn, Exact
<1>9. ASSUME NEW read \in buffer, WriteFile(read) PROVE TreeInv'
  <2>1. pc = "patch" /\ read.file \in Targets[scripts]
    BY <1>9 DEF WriteFile, PhaseInv
  <2>2. \A f \in Files :
          f # read.file => edit'[f] = edit[f] /\ patched'[f] = patched[f]
    BY <1>9 DEF WriteFile
  <2>3. patched'[read.file] = scripts
    BY <1>9 DEF WriteFile, Buffers
  <2>4. todo' = todo \ {read.file} /\ UNCHANGED <<scripts, pc>>
    BY <1>9 DEF WriteFile
  <2>5. QED
    BY <2>1, <2>2, <2>3, <2>4
<1>10. ASSUME NEW f \in Files, LeaveFile(f) PROVE TreeInv'
  <2>1. todo \subseteq Targets[scripts] /\ scripts # NoPatch
    BY <1>10, NamesAssumption DEF LeaveFile, Turn, PhaseInv
  <2>2. ~Fits(f) => patched[f] # NoPatch \/ edit[f] # NoEdit
    BY BreakingAssumption, NamesAssumption DEF Fits
  <2>3. QED
    BY <1>10, <2>1, <2>2 DEF LeaveFile, Turn, Done, tree
<1>11. ASSUME NEW f \in Files, RejectFile(f) PROVE TreeInv'
  BY <1>11 DEF RejectFile, tree, Turn, Exact
<1>12. ASSUME Patched PROVE TreeInv'
  BY <1>12 DEF Patched, tree, Exact
<1>13. ASSUME ResetEmbind PROVE TreeInv'
  BY <1>13 DEF ResetEmbind, tree, Exact
<1>14. ASSUME PatchEmbind PROVE TreeInv'
  BY <1>14 DEF PatchEmbind, tree, Exact
<1>15. ASSUME Write PROVE TreeInv'
  BY <1>15 DEF Write, tree, Exact
<1>16. ASSUME Kill PROVE TreeInv'
  BY <1>16 DEF Kill, tree, Fault, Tear, Exact
<1>17. ASSUME NEW v \in Versions, ChangeScripts(v) PROVE TreeInv'
  BY <1>17 DEF ChangeScripts, tree, Fault, Exact
<1>18. ASSUME NEW f \in Files, NEW change \in Edits, EditFile(f, change)
       PROVE  TreeInv'
  BY <1>18, NamesAssumption DEF EditFile, Fault, Exact
<1>19. ASSUME LoseManifest PROVE TreeInv'
  BY <1>19 DEF LoseManifest, tree, Fault, Exact
<1>20. ASSUME Resolve PROVE TreeInv'
  BY <1>20 DEF Resolve, PhaseInv, Exact
<1>21. QED
  BY <1>1, <1>2, <1>3, <1>4, <1>5, <1>6, <1>7, <1>8, <1>9,
     <1>10, <1>11, <1>12, <1>13, <1>14, <1>15, <1>16, <1>17, <1>18,
     <1>19, <1>20 DEF Next, Run, Outside

LEMMA StepCurrent == Inv /\ [Next]_vars => PatchedIsCurrent'
<1> SUFFICES ASSUME Inv, [Next]_vars PROVE PatchedIsCurrent'
  OBVIOUS
<1> USE DEF Inv, PatchedIsCurrent, PhaseInv
<1>1. CASE UNCHANGED vars
  BY <1>1 DEF vars, tree, State, Exact
<1>2. ASSUME Start PROVE PatchedIsCurrent'
  BY <1>2 DEF Start, tree
<1>3. ASSUME PrepareNothing PROVE PatchedIsCurrent'
  BY <1>3 DEF PrepareNothing, tree, StartPatching
<1>4. ASSUME PrepareRefuses PROVE PatchedIsCurrent'
  BY <1>4 DEF PrepareRefuses, tree
<1>5. ASSUME PrepareReverts PROVE PatchedIsCurrent'
  BY <1>5 DEF PrepareReverts, tree
<1>6. ASSUME NEW f \in Files, Revert(f) PROVE PatchedIsCurrent'
  BY <1>6 DEF Revert, tree
<1>7. ASSUME Reverted PROVE PatchedIsCurrent'
  BY <1>7 DEF Reverted, tree, StartPatching
<1>8. ASSUME NEW f \in Files, ReadFile(f) PROVE PatchedIsCurrent'
  BY <1>8 DEF ReadFile, tree, Turn
<1>9. ASSUME NEW read \in buffer, WriteFile(read) PROVE PatchedIsCurrent'
  BY <1>9 DEF WriteFile, tree
<1>10. ASSUME NEW f \in Files, LeaveFile(f) PROVE PatchedIsCurrent'
  BY <1>10 DEF LeaveFile, tree, Turn
<1>11. ASSUME NEW f \in Files, RejectFile(f) PROVE PatchedIsCurrent'
  BY <1>11 DEF RejectFile, tree, Turn
<1>12. ASSUME Patched PROVE PatchedIsCurrent'
  BY <1>12 DEF Patched, tree
<1>13. ASSUME ResetEmbind PROVE PatchedIsCurrent'
  BY <1>13 DEF ResetEmbind, tree
<1>14. ASSUME PatchEmbind PROVE PatchedIsCurrent'
  BY <1>14 DEF PatchEmbind, tree
<1>15. ASSUME Write PROVE PatchedIsCurrent'
  BY <1>15 DEF Write, tree, State, TreeInv, Exact
<1>16. ASSUME Kill PROVE PatchedIsCurrent'
  BY <1>16 DEF Kill, tree, Fault, Tear
<1>17. ASSUME NEW v \in Versions, ChangeScripts(v) PROVE PatchedIsCurrent'
  BY <1>17 DEF ChangeScripts, tree, Fault
<1>18. ASSUME NEW f \in Files, NEW change \in Edits, EditFile(f, change)
       PROVE  PatchedIsCurrent'
  BY <1>18 DEF EditFile, tree, Fault
<1>19. ASSUME LoseManifest PROVE PatchedIsCurrent'
  BY <1>19 DEF LoseManifest, tree, Fault
<1>20. ASSUME Resolve PROVE PatchedIsCurrent'
  BY <1>20 DEF Resolve, tree
<1>21. QED
  BY <1>1, <1>2, <1>3, <1>4, <1>5, <1>6, <1>7, <1>8, <1>9,
     <1>10, <1>11, <1>12, <1>13, <1>14, <1>15, <1>16, <1>17, <1>18,
     <1>19, <1>20 DEF Next, Run, Outside

LEMMA InvInductive == Inv /\ [Next]_vars => Inv'
BY StepType, StepPhase, StepManifest, StepTree, StepCurrent DEF Inv

LEMMA Invariance == Spec => []Inv
<1>1. QED
  BY InvInitial, InvInductive, PTL DEF Spec

-----------------------------------------------------------------------------
(* Every reachable state is typed.                                         *)
THEOREM TypeCorrect == Spec => []TypeOK
<1>1. Inv => TypeOK
  BY DEF Inv
<1>2. QED
  BY <1>1, Invariance, PTL

(* After a successful run the clones are as the present scripts make them  *)
(* and as the manifest says, whatever edits, kills, changes of the scripts *)
(* and losses of the manifest there were before.                           *)
THEOREM AlwaysCurrent == Spec => []PatchedIsCurrent
<1>1. Inv => PatchedIsCurrent
  BY DEF Inv
<1>2. QED
  BY <1>1, Invariance, PTL

(* A run undoes a user's change only where the manifest owns the file, or  *)
(* where the change came, or the run was killed, while a script was about  *)
(* to write that very file.                                                *)
THEOREM ForeignEditsStay == Spec => ForeignEditsSurvive
<1> DEFINE Kept == \A f \in Files :
                     pc # "idle" /\ edit[f] # NoEdit /\ edit'[f] # edit[f]
                       => f \in Owned \/ EditFile(f, edit'[f]) \/ Raced(f)
<1>1. Inv /\ [Next]_vars => [Kept]_vars
  <2> SUFFICES ASSUME Inv, [Next]_vars PROVE Kept
    OBVIOUS
  <2> USE NamesAssumption DEF Inv, TypeOK, PhaseInv
  <2>1. CASE UNCHANGED vars
    BY <2>1 DEF vars, tree
  <2>2. ASSUME Start PROVE Kept
    BY <2>2 DEF Start, tree
  <2>3. ASSUME PrepareNothing PROVE Kept
    BY <2>3 DEF PrepareNothing, tree, StartPatching
  <2>4. ASSUME PrepareRefuses PROVE Kept
    BY <2>4 DEF PrepareRefuses, tree
  <2>5. ASSUME PrepareReverts PROVE Kept
    BY <2>5 DEF PrepareReverts, tree
  <2>6. ASSUME NEW f \in Files, Revert(f) PROVE Kept
    BY <2>6 DEF Revert, tree
  <2>7. ASSUME Reverted PROVE Kept
    BY <2>7 DEF Reverted, tree, StartPatching
  <2>8. ASSUME NEW f \in Files, ReadFile(f) PROVE Kept
    BY <2>8 DEF ReadFile, tree, Turn
  <2>9. ASSUME NEW read \in buffer, WriteFile(read) PROVE Kept
    BY <2>9 DEF WriteFile, Buffers, Raced
  <2>10. ASSUME NEW f \in Files, LeaveFile(f) PROVE Kept
    BY <2>10 DEF LeaveFile, tree, Turn
  <2>11. ASSUME NEW f \in Files, RejectFile(f) PROVE Kept
    BY <2>11 DEF RejectFile, tree, Turn
  <2>12. ASSUME Patched PROVE Kept
    BY <2>12 DEF Patched, tree
  <2>13. ASSUME ResetEmbind PROVE Kept
    BY <2>13 DEF ResetEmbind, tree
  <2>14. ASSUME PatchEmbind PROVE Kept
    BY <2>14 DEF PatchEmbind, tree
  <2>15. ASSUME Write PROVE Kept
    BY <2>15 DEF Write, tree
  <2>16. ASSUME Kill PROVE Kept
    BY <2>16 DEF Kill, Tear, Buffers, tree, Raced
  <2>17. ASSUME NEW v \in Versions, ChangeScripts(v)
         PROVE Kept
    BY <2>17 DEF ChangeScripts, tree, Fault
  <2>18. ASSUME NEW f \in Files, NEW change \in Edits, EditFile(f, change)
         PROVE  Kept
    <3>1. edit' = [edit EXCEPT ![f] = change]
      BY <2>18 DEF EditFile
    <3>2. ASSUME NEW g \in Files, edit'[g] # edit[g]
          PROVE  EditFile(g, edit'[g])
      BY <2>18, <3>1, <3>2
    <3>3. QED
      BY <3>2
  <2>19. ASSUME LoseManifest PROVE Kept
    BY <2>19 DEF LoseManifest, tree, Fault
  <2>20. ASSUME Resolve PROVE Kept
    BY <2>20 DEF Resolve, tree
  <2>21. QED
    BY <2>1, <2>2, <2>3, <2>4, <2>5, <2>6, <2>7, <2>8, <2>9,
       <2>10, <2>11, <2>12, <2>13, <2>14, <2>15, <2>16, <2>17, <2>18,
       <2>19, <2>20 DEF Next, Run, Outside
<1>2. QED
  BY <1>1, Invariance, PTL DEF Spec, ForeignEditsSurvive

(* A script rejects nothing but a user's edit: one of a file with a hash,  *)
(* or one that takes away what the script looks for.                       *)
THEOREM OnlyEditsAreRejected == Spec => []ScriptsAcceptTheTree
<1>1. Init => ScriptsAcceptTheTree
  BY DEF Init, ScriptsAcceptTheTree
<1>2. Inv /\ ScriptsAcceptTheTree /\ [Next]_vars => ScriptsAcceptTheTree'
  <2> SUFFICES ASSUME Inv, ScriptsAcceptTheTree, [Next]_vars
               PROVE  ScriptsAcceptTheTree'
    OBVIOUS
  <2> USE DEF Inv, TypeOK, ScriptsAcceptTheTree
  <2>1. CASE UNCHANGED vars
    BY <2>1 DEF vars, tree
  <2>2. ASSUME Start PROVE ScriptsAcceptTheTree'
    BY <2>2 DEF Start, tree
  <2>3. ASSUME PrepareNothing PROVE ScriptsAcceptTheTree'
    BY <2>3 DEF PrepareNothing, tree, StartPatching
  <2>4. ASSUME PrepareRefuses PROVE ScriptsAcceptTheTree'
    BY <2>4 DEF PrepareRefuses, tree
  <2>5. ASSUME PrepareReverts PROVE ScriptsAcceptTheTree'
    BY <2>5 DEF PrepareReverts, tree
  <2>6. ASSUME NEW f \in Files, Revert(f) PROVE ScriptsAcceptTheTree'
    BY <2>6 DEF Revert, PhaseInv
  <2>7. ASSUME Reverted PROVE ScriptsAcceptTheTree'
    BY <2>7 DEF Reverted, tree, StartPatching
  <2>8. ASSUME NEW f \in Files, ReadFile(f) PROVE ScriptsAcceptTheTree'
    BY <2>8 DEF ReadFile, tree, Turn
  <2>9. ASSUME NEW read \in buffer, WriteFile(read) PROVE ScriptsAcceptTheTree'
    BY <2>9 DEF WriteFile, PhaseInv
  <2>10. ASSUME NEW f \in Files, LeaveFile(f) PROVE ScriptsAcceptTheTree'
    BY <2>10 DEF LeaveFile, tree, Turn
  <2>11. ASSUME NEW f \in Files, RejectFile(f) PROVE ScriptsAcceptTheTree'
    <3>1. f \in Targets[scripts] /\ Rejected(f, edit[f])
      BY <2>11, BreakingAssumption, NamesAssumption
      DEF RejectFile, Turn, Done, Fits, Rejected, TreeInv, PhaseInv
    <3>2. QED
      BY <2>11, <3>1 DEF RejectFile, tree
  <2>12. ASSUME Patched PROVE ScriptsAcceptTheTree'
    BY <2>12 DEF Patched, tree
  <2>13. ASSUME ResetEmbind PROVE ScriptsAcceptTheTree'
    BY <2>13 DEF ResetEmbind, tree
  <2>14. ASSUME PatchEmbind PROVE ScriptsAcceptTheTree'
    BY <2>14 DEF PatchEmbind, tree
  <2>15. ASSUME Write PROVE ScriptsAcceptTheTree'
    BY <2>15 DEF Write, tree
  <2>16. ASSUME Kill PROVE ScriptsAcceptTheTree'
    BY <2>16 DEF Kill, tree, Fault, Tear
  <2>17. ASSUME NEW v \in Versions, ChangeScripts(v)
         PROVE ScriptsAcceptTheTree'
    BY <2>17 DEF ChangeScripts, tree, Fault
  <2>18. ASSUME NEW f \in Files, NEW change \in Edits, EditFile(f, change)
         PROVE  ScriptsAcceptTheTree'
    BY <2>18 DEF EditFile, Fault
  <2>19. ASSUME LoseManifest PROVE ScriptsAcceptTheTree'
    BY <2>19 DEF LoseManifest, tree, Fault
  <2>20. ASSUME Resolve PROVE ScriptsAcceptTheTree'
    BY <2>20 DEF Resolve, tree
  <2>21. QED
    BY <2>1, <2>2, <2>3, <2>4, <2>5, <2>6, <2>7, <2>8, <2>9,
       <2>10, <2>11, <2>12, <2>13, <2>14, <2>15, <2>16, <2>17, <2>18,
       <2>19, <2>20 DEF Next, Run, Outside
<1>3. QED
  BY <1>1, <1>2, Invariance, PTL DEF Spec
=============================================================================
