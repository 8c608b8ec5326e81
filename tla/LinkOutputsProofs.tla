--------------------------- MODULE LinkOutputsProofs ---------------------------
(***************************************************************************)
(* Proofs about LinkOutputs, for any builds, versions, output directories  *)
(* and files, with any number of kills and changes between the commands.   *)
(***************************************************************************)
EXTENDS LinkOutputs, TLAPS

Chained == {"verify", "unlink", "copy", "validate", "finalize"}

(* The files of link-core: report and inventory are of one link whenever   *)
(* both are there; what the link has no more to write is written; and what *)
(* a chain materializes is the link of its own build.                      *)
LinkInv ==
  /\ inventory # None /\ report # None => inventory = Output[report]
  /\ pc = "report" => inventory = None /\ \A p \in Paths : core[p] = NoFile
  /\ pc = "link" => /\ inventory = None
                    /\ report \in {None, Link}
                    /\ todo \subseteq Made(Output[Link])
                    /\ \A p \in Paths \ todo : core[p] = Output[Link][p]
  /\ pc \in {"unlink", "copy"} => inventory # None /\ core = inventory
  /\ chain /\ pc \in Chained => inventory = Output[Link] /\ report = Link

(* What a chain has copied is in the output directory until it has ended.  *)
PlaceInv ==
  /\ pc # "idle" => result = "none"
  /\ chain /\ pc = "copy" =>
       \A p \in Made(inventory) \ todo : dest[dir][p] = inventory[p]
  /\ chain /\ pc \in {"validate", "finalize"} => Complete

Inv == /\ TypeOK
       /\ LinkInv
       /\ PlaceInv
       /\ DestIsNeverTorn
       /\ ProvenanceTellsTheTruth
       /\ ChainPublishesItsLink

-----------------------------------------------------------------------------
LEMMA InvInitial == Init => Inv
<1> SUFFICES ASSUME Init PROVE Inv
  OBVIOUS
<1> USE DEF Init
<1>1. TypeOK
  <2>1. /\ core \in [Paths -> Files]
        /\ marker \in [Builds -> SUBSET Paths]
        /\ dest \in [Dirs -> [Paths -> Files]]
        /\ provenance \in [Dirs -> [Names -> Documents \cup {None}]]
    BY DEF Files
  <2>2. /\ version \in Versions
        /\ inventory \in Trees \cup {None}
        /\ report \in Links \cup {None}
        /\ chain \in BOOLEAN
        /\ build \in Builds
        /\ dir \in Dirs
        /\ pc \in Phases
        /\ todo \in SUBSET Paths
        /\ result \in {"none", "published", "stopped"}
    BY DEF Phases
  <2>3. faults \in 0 .. MaxFaults
    BY BoundAssumption
  <2>4. QED
    BY <2>1, <2>2, <2>3, Zenon DEF TypeOK
<1>2. LinkInv /\ PlaceInv
  BY DEF LinkInv, PlaceInv, Chained
<1>3. DestIsNeverTorn
  BY NamesAssumption DEF DestIsNeverTorn
<1>4. ProvenanceTellsTheTruth
  BY DEF ProvenanceTellsTheTruth
<1>5. ChainPublishesItsLink
  BY DEF ChainPublishesItsLink
<1>6. QED
  BY <1>1, <1>2, <1>3, <1>4, <1>5 DEF Inv

LEMMA LinkTyped == TypeOK => Link \in Links /\ Output[Link] \in Trees
BY OutputAssumption DEF TypeOK, Link, Links

(* A link that is through has made its tree, and no other file.            *)
LEMMA Linked ==
  ASSUME TypeOK, LinkInv, pc = "link", todo = {}
  PROVE  core = Output[Link]
<1>1. core \in [Paths -> Files] /\ Output[Link] \in [Paths -> Files]
  BY LinkTyped DEF TypeOK, Trees, Files
<1>2. \A p \in Paths : core[p] = Output[Link][p]
  BY DEF LinkInv
<1>3. QED
  BY <1>1, <1>2

LEMMA Documented ==
  TypeOK /\ inventory # None => Document \in Documents
BY DEF TypeOK, Document, Documents

LEMMA MadePaths == ASSUME NEW tree PROVE Made(tree) \subseteq Paths
BY DEF Made

-----------------------------------------------------------------------------
(* Types.                                                                  *)
LEMMA StepType == TypeOK /\ LinkInv /\ [Next]_vars => TypeOK'
<1> SUFFICES ASSUME TypeOK, LinkInv, [Next]_vars PROVE TypeOK'
  OBVIOUS
<1> USE BoundAssumption, LinkTyped, MadePaths DEF TypeOK, Files, Phases
<1>1. CASE UNCHANGED vars
  BY <1>1 DEF vars, linked, placed, command
<1>2. ASSUME Restore PROVE TypeOK'
  BY <1>2 DEF Restore, linked, placed, command, Trees
<1>3. ASSUME RunLinkCore PROVE TypeOK'
  BY <1>3 DEF RunLinkCore, linked, placed, command
<1>4. ASSUME NEW p \in Paths, ClearFile(p) PROVE TypeOK'
  BY <1>4 DEF ClearFile, linked, placed, command, Trees
<1>5. ASSUME RemoveInventory PROVE TypeOK'
  BY <1>5 DEF RemoveInventory, linked, placed, command
<1>6. ASSUME RemoveReport PROVE TypeOK'
  BY <1>6 DEF RemoveReport, linked, placed, command
<1>7. ASSUME NEW p \in Paths, LinkFile(p) PROVE TypeOK'
  BY <1>7 DEF LinkFile, linked, placed, command, Trees
<1>8. ASSUME WriteReport PROVE TypeOK'
  BY <1>8 DEF WriteReport, linked, placed, command
<1>9. ASSUME WriteInventory PROVE TypeOK'
  BY <1>9, Linked DEF WriteInventory, linked, placed, command, Trees
<1>10. ASSUME Verify PROVE TypeOK'
  BY <1>10 DEF Verify, linked, placed, command
<1>11. ASSUME VerifyFails PROVE TypeOK'
  BY <1>11 DEF VerifyFails, linked, placed, command, Stop
<1>12. ASSUME NEW p \in Paths, Unlink(p) PROVE TypeOK'
  BY <1>12 DEF Unlink, linked, placed, command
<1>13. ASSUME Unlinked PROVE TypeOK'
  BY <1>13 DEF Unlinked, linked, placed, command
<1>14. ASSUME NEW p \in Paths, Copy(p) PROVE TypeOK'
  BY <1>14 DEF Copy, linked, placed, command
<1>15. ASSUME WriteMarker PROVE TypeOK'
  BY <1>15 DEF WriteMarker, linked, placed, command
<1>16. ASSUME Validate PROVE TypeOK'
  BY <1>16 DEF Validate, linked, placed, command
<1>17. ASSUME Finalize PROVE TypeOK'
  BY <1>17, Documented DEF Finalize, linked, placed, command, Complete
<1>18. ASSUME FinalizeFails PROVE TypeOK'
  BY <1>18 DEF FinalizeFails, linked, placed, command, Stop
<1>19. ASSUME NEW b \in Builds, NEW d \in Dirs, StartLinkCore(b, d)
      PROVE  TypeOK'
  BY <1>19 DEF StartLinkCore, linked, placed, command, Begin
<1>20. ASSUME NEW b \in Builds, NEW d \in Dirs, StartMaterialize(b, d)
      PROVE  TypeOK'
  BY <1>20 DEF StartMaterialize, linked, placed, command, Begin
<1>21. ASSUME NEW b \in Builds, NEW d \in Dirs, StartProvenance(b, d)
      PROVE  TypeOK'
  BY <1>21 DEF StartProvenance, linked, placed, command, Begin
<1>22. ASSUME NEW b \in Builds, NEW d \in Dirs, StartChain(b, d) PROVE TypeOK'
  BY <1>22 DEF StartChain, linked, placed, command, Begin
<1>23. ASSUME Cut PROVE TypeOK'
  <2>1. core' \in [Paths -> Files]
    BY <1>23 DEF Cut
  <2>2. faults' \in 0 .. MaxFaults
    BY <1>23 DEF Cut, Fault
  <2>3. UNCHANGED <<version, inventory, report, placed, build, dir>>
    BY <1>23 DEF Cut, Stop
  <2>4. /\ pc' = "idle" /\ chain' = FALSE
        /\ todo' = {} /\ result' = "stopped"
    BY <1>23 DEF Cut, Stop
  <2>5. QED
    BY <2>1, <2>2, <2>3, <2>4 DEF placed
<1>24. ASSUME CutRestore PROVE TypeOK'
  <2>1. core' \in [Paths -> Files]
    BY <1>24 DEF CutRestore, Trees
  <2>2. inventory' \in Trees \cup {None} /\ report' \in Links \cup {None}
    BY <1>24 DEF CutRestore
  <2>3. faults' \in 0 .. MaxFaults
    BY <1>24 DEF CutRestore, Fault
  <2>4. UNCHANGED <<version, placed, build, dir>>
    BY <1>24 DEF CutRestore, Stop
  <2>5. /\ pc' = "idle" /\ chain' = FALSE
        /\ todo' = {} /\ result' = "stopped"
    BY <1>24 DEF CutRestore, Stop
  <2>6. QED
    BY <2>1, <2>2, <2>3, <2>4, <2>5 DEF placed
<1>25. ASSUME NEW v \in Versions, ChangeInputs(v) PROVE TypeOK'
  BY <1>25 DEF ChangeInputs, linked, placed, command, Fault
<1>26. ASSUME NEW d \in Dirs, NEW p \in Paths, Remove(d, p) PROVE TypeOK'
  BY <1>26 DEF Remove, linked, placed, command, Fault
<1>27. QED
  BY <1>1, <1>2, <1>3, <1>4, <1>5, <1>6, <1>7, <1>8, <1>9, <1>10, <1>11,
     <1>12, <1>13, <1>14, <1>15, <1>16, <1>17, <1>18, <1>19, <1>20, <1>21,
     <1>22, <1>23, <1>24, <1>25, <1>26
  DEF Next, Steps, ByHand, Targets, Outside

-----------------------------------------------------------------------------
(* link-core.                                                              *)
LEMMA StepLink == TypeOK /\ LinkInv /\ [Next]_vars => LinkInv'
<1> SUFFICES ASSUME TypeOK, LinkInv, [Next]_vars PROVE LinkInv'
  OBVIOUS
<1> USE LinkTyped, MadePaths DEF LinkInv, TypeOK, Chained, Link
<1>1. CASE UNCHANGED vars
  BY <1>1 DEF vars, linked, placed, command
<1>2. ASSUME Restore PROVE LinkInv'
  BY <1>2 DEF Restore, linked, placed, command
<1>3. ASSUME RunLinkCore PROVE LinkInv'
  BY <1>3 DEF RunLinkCore, linked, placed, command
<1>4. ASSUME NEW p \in Paths, ClearFile(p) PROVE LinkInv'
  BY <1>4 DEF ClearFile, linked, placed, command
<1>5. ASSUME RemoveInventory PROVE LinkInv'
  BY <1>5 DEF RemoveInventory, linked, placed, command
<1>6. ASSUME RemoveReport PROVE LinkInv'
  BY <1>6 DEF RemoveReport, linked, placed, command, Made, Trees
<1>7. ASSUME NEW p \in Paths, LinkFile(p) PROVE LinkInv'
  BY <1>7 DEF LinkFile, linked, placed, command
<1>8. ASSUME WriteReport PROVE LinkInv'
  BY <1>8 DEF WriteReport, linked, placed, command
<1>9. ASSUME WriteInventory PROVE LinkInv'
  BY <1>9, Linked DEF WriteInventory, linked, placed, command
<1>10. ASSUME Verify PROVE LinkInv'
  BY <1>10 DEF Verify, linked, placed, command
<1>11. ASSUME VerifyFails PROVE LinkInv'
  BY <1>11 DEF VerifyFails, linked, placed, command, Stop
<1>12. ASSUME NEW p \in Paths, Unlink(p) PROVE LinkInv'
  BY <1>12 DEF Unlink, linked, placed, command
<1>13. ASSUME Unlinked PROVE LinkInv'
  BY <1>13 DEF Unlinked, linked, placed, command
<1>14. ASSUME NEW p \in Paths, Copy(p) PROVE LinkInv'
  BY <1>14 DEF Copy, linked, placed, command
<1>15. ASSUME WriteMarker PROVE LinkInv'
  BY <1>15 DEF WriteMarker, linked, placed, command
<1>16. ASSUME Validate PROVE LinkInv'
  BY <1>16 DEF Validate, linked, placed, command
<1>17. ASSUME Finalize PROVE LinkInv'
  BY <1>17 DEF Finalize, linked, placed, command
<1>18. ASSUME FinalizeFails PROVE LinkInv'
  BY <1>18 DEF FinalizeFails, linked, placed, command, Stop
<1>19. ASSUME NEW b \in Builds, NEW d \in Dirs, StartLinkCore(b, d)
      PROVE  LinkInv'
  BY <1>19 DEF StartLinkCore, linked, placed, command, Begin
<1>20. ASSUME NEW b \in Builds, NEW d \in Dirs, StartMaterialize(b, d)
      PROVE  LinkInv'
  BY <1>20 DEF StartMaterialize, linked, placed, command, Begin
<1>21. ASSUME NEW b \in Builds, NEW d \in Dirs, StartProvenance(b, d)
      PROVE  LinkInv'
  BY <1>21 DEF StartProvenance, linked, placed, command, Begin
<1>22. ASSUME NEW b \in Builds, NEW d \in Dirs, StartChain(b, d) PROVE LinkInv'
  BY <1>22 DEF StartChain, linked, placed, command, Begin
<1>23. ASSUME Cut PROVE LinkInv'
  BY <1>23 DEF Cut, linked, placed, command, Stop, Fault
<1>24. ASSUME CutRestore PROVE LinkInv'
  BY <1>24 DEF CutRestore, linked, placed, command, Stop, Fault
<1>25. ASSUME NEW v \in Versions, ChangeInputs(v) PROVE LinkInv'
  BY <1>25 DEF ChangeInputs, linked, placed, command, Fault
<1>26. ASSUME NEW d \in Dirs, NEW p \in Paths, Remove(d, p) PROVE LinkInv'
  BY <1>26 DEF Remove, linked, placed, command, Fault
<1>27. QED
  BY <1>1, <1>2, <1>3, <1>4, <1>5, <1>6, <1>7, <1>8, <1>9, <1>10, <1>11,
     <1>12, <1>13, <1>14, <1>15, <1>16, <1>17, <1>18, <1>19, <1>20, <1>21,
     <1>22, <1>23, <1>24, <1>25, <1>26
  DEF Next, Steps, ByHand, Targets, Outside

-----------------------------------------------------------------------------
(* The output directories.                                                 *)
LEMMA StepPlace == TypeOK /\ LinkInv /\ PlaceInv /\ [Next]_vars => PlaceInv'
<1> SUFFICES ASSUME TypeOK, LinkInv, PlaceInv, [Next]_vars PROVE PlaceInv'
  OBVIOUS
<1> USE MadePaths DEF PlaceInv, LinkInv, TypeOK, Complete
<1>1. CASE UNCHANGED vars
  BY <1>1 DEF vars, linked, placed, command
<1>2. ASSUME Restore PROVE PlaceInv'
  BY <1>2 DEF Restore, linked, placed, command
<1>3. ASSUME RunLinkCore PROVE PlaceInv'
  BY <1>3 DEF RunLinkCore, linked, placed, command
<1>4. ASSUME NEW p \in Paths, ClearFile(p) PROVE PlaceInv'
  BY <1>4 DEF ClearFile, linked, placed, command
<1>5. ASSUME RemoveInventory PROVE PlaceInv'
  BY <1>5 DEF RemoveInventory, linked, placed, command
<1>6. ASSUME RemoveReport PROVE PlaceInv'
  BY <1>6 DEF RemoveReport, linked, placed, command
<1>7. ASSUME NEW p \in Paths, LinkFile(p) PROVE PlaceInv'
  BY <1>7 DEF LinkFile, linked, placed, command
<1>8. ASSUME WriteReport PROVE PlaceInv'
  BY <1>8 DEF WriteReport, linked, placed, command
<1>9. ASSUME WriteInventory PROVE PlaceInv'
  BY <1>9 DEF WriteInventory, linked, placed, command
<1>10. ASSUME Verify PROVE PlaceInv'
  BY <1>10 DEF Verify, linked, placed, command
<1>11. ASSUME VerifyFails PROVE PlaceInv'
  BY <1>11 DEF VerifyFails, linked, placed, command, Stop
<1>12. ASSUME NEW p \in Paths, Unlink(p) PROVE PlaceInv'
  BY <1>12 DEF Unlink, linked, placed, command
<1>13. ASSUME Unlinked PROVE PlaceInv'
  BY <1>13 DEF Unlinked, linked, placed, command
<1>14. ASSUME NEW p \in Paths, Copy(p) PROVE PlaceInv'
  BY <1>14 DEF Copy, linked, placed, command
<1>15. ASSUME WriteMarker PROVE PlaceInv'
  BY <1>15 DEF WriteMarker, linked, placed, command
<1>16. ASSUME Validate PROVE PlaceInv'
  BY <1>16 DEF Validate, linked, placed, command
<1>17. ASSUME Finalize PROVE PlaceInv'
  BY <1>17 DEF Finalize, linked, placed, command
<1>18. ASSUME FinalizeFails PROVE PlaceInv'
  BY <1>18 DEF FinalizeFails, linked, placed, command, Stop
<1>19. ASSUME NEW b \in Builds, NEW d \in Dirs, StartLinkCore(b, d)
      PROVE  PlaceInv'
  BY <1>19 DEF StartLinkCore, linked, placed, command, Begin
<1>20. ASSUME NEW b \in Builds, NEW d \in Dirs, StartMaterialize(b, d)
      PROVE  PlaceInv'
  BY <1>20 DEF StartMaterialize, linked, placed, command, Begin
<1>21. ASSUME NEW b \in Builds, NEW d \in Dirs, StartProvenance(b, d)
      PROVE  PlaceInv'
  BY <1>21 DEF StartProvenance, linked, placed, command, Begin
<1>22. ASSUME NEW b \in Builds, NEW d \in Dirs, StartChain(b, d)
      PROVE  PlaceInv'
  BY <1>22 DEF StartChain, linked, placed, command, Begin
<1>23. ASSUME Cut PROVE PlaceInv'
  BY <1>23 DEF Cut, linked, placed, command, Stop, Fault
<1>24. ASSUME CutRestore PROVE PlaceInv'
  BY <1>24 DEF CutRestore, linked, placed, command, Stop, Fault
<1>25. ASSUME NEW v \in Versions, ChangeInputs(v) PROVE PlaceInv'
  BY <1>25 DEF ChangeInputs, linked, placed, command, Fault
<1>26. ASSUME NEW d \in Dirs, NEW p \in Paths, Remove(d, p) PROVE PlaceInv'
  BY <1>26 DEF Remove, linked, placed, command, Fault
<1>27. QED
  BY <1>1, <1>2, <1>3, <1>4, <1>5, <1>6, <1>7, <1>8, <1>9, <1>10, <1>11,
     <1>12, <1>13, <1>14, <1>15, <1>16, <1>17, <1>18, <1>19, <1>20, <1>21,
     <1>22, <1>23, <1>24, <1>25, <1>26
  DEF Next, Steps, ByHand, Targets, Outside

(* Only four actions write below OCJS_OUTPUT_DIR.                          *)
LEMMA Writers ==
  [Next]_vars =>
    /\ \/ UNCHANGED dest
       \/ \E p \in Paths : Unlink(p) \/ Copy(p)
       \/ \E d \in Dirs, p \in Paths : Remove(d, p)
    /\ UNCHANGED provenance \/ Finalize
BY DEF Next, Steps, ByHand, Targets, Outside, Restore, RunLinkCore,
       ClearFile, RemoveInventory, RemoveReport, LinkFile, WriteReport,
       WriteInventory, Verify, VerifyFails, Unlinked, WriteMarker, Validate,
       FinalizeFails, StartChain, StartLinkCore, StartMaterialize,
       StartProvenance, Begin, Stop, Cut, CutRestore, ChangeInputs, linked,
       placed, command, vars, Unlink, Copy, Finalize, Remove

LEMMA StepTorn ==
  TypeOK /\ LinkInv /\ DestIsNeverTorn /\ [Next]_vars => DestIsNeverTorn'
<1> SUFFICES ASSUME TypeOK, LinkInv, DestIsNeverTorn, [Next]_vars
             PROVE  DestIsNeverTorn'
  OBVIOUS
<1> USE NamesAssumption DEF DestIsNeverTorn, TypeOK
<1>1. CASE UNCHANGED dest
  BY <1>1
<1>2. ASSUME NEW p \in Paths, Unlink(p) PROVE DestIsNeverTorn'
  BY <1>2 DEF Unlink
<1>3. ASSUME NEW p \in Paths, Copy(p) PROVE DestIsNeverTorn'
  <2>1. core \in Trees
    BY <1>3 DEF Copy, LinkInv
  <2>2. core[p] # Torn
    BY <2>1 DEF Trees
  <2>3. QED
    BY <1>3, <2>2 DEF Copy
<1>4. ASSUME NEW d \in Dirs, NEW p \in Paths, Remove(d, p)
      PROVE  DestIsNeverTorn'
  BY <1>4 DEF Remove
<1>5. QED
  BY <1>1, <1>2, <1>3, <1>4, Writers

LEMMA StepTruth ==
  TypeOK /\ LinkInv /\ ProvenanceTellsTheTruth /\ [Next]_vars
    => ProvenanceTellsTheTruth'
<1> SUFFICES ASSUME TypeOK, LinkInv, ProvenanceTellsTheTruth, [Next]_vars
             PROVE  ProvenanceTellsTheTruth'
  OBVIOUS
<1>1. CASE UNCHANGED provenance
  BY <1>1 DEF ProvenanceTellsTheTruth
<1>2. CASE Finalize
  <2>1. Document.link # None => Document.outputs = Output[Document.link]
    BY <1>2 DEF Finalize, Complete, Document, LinkInv
  <2>2. ASSUME NEW d \in Dirs, NEW n \in Names
        PROVE  provenance'[d][n] \in {provenance[d][n], Document}
    BY <1>2 DEF Finalize, TypeOK
  <2>3. QED
    BY <2>1, <2>2, Zenon DEF ProvenanceTellsTheTruth
<1>3. QED
  BY <1>1, <1>2, Writers

(* Only the end of a chain publishes.                                      *)
LEMMA Publishers ==
  PlaceInv /\ [Next]_vars /\ result' = "published"
    => Finalize \/ UNCHANGED vars
BY DEF PlaceInv, Next, Steps, ByHand, Targets, Outside, Restore, RunLinkCore,
       ClearFile, RemoveInventory, RemoveReport, LinkFile, WriteReport,
       WriteInventory, Verify, VerifyFails, Unlinked, WriteMarker, Validate,
       FinalizeFails, StartChain, StartLinkCore, StartMaterialize,
       StartProvenance, Begin, Stop, Cut, CutRestore, ChangeInputs, linked,
       placed, command, vars, Unlink, Copy, Remove

LEMMA StepChain ==
  TypeOK /\ LinkInv /\ PlaceInv /\ ChainPublishesItsLink /\ [Next]_vars
    => ChainPublishesItsLink'
<1> SUFFICES ASSUME TypeOK, LinkInv, PlaceInv, ChainPublishesItsLink,
                    [Next]_vars, result' = "published"
             PROVE  ChainPublishesItsLink'
  BY DEF ChainPublishesItsLink
<1>1. CASE UNCHANGED vars
  BY <1>1 DEF ChainPublishesItsLink, Link, vars, placed, command
<1>2. CASE Finalize
  <2>1. chain
    BY <1>2 DEF Finalize
  <2>2. inventory = Output[Link] /\ report = Link
    BY <1>2, <2>1 DEF Finalize, LinkInv, Chained
  <2>3. \A p \in Made(Output[Link]) : dest[dir][p] = Output[Link][p]
    BY <1>2, <2>2 DEF Finalize, Complete
  <2>4. provenance'[dir][Name[build]] = Document
    BY <1>2, BuildsAssumption DEF Finalize, TypeOK
  <2>5. UNCHANGED <<dest, dir, build, version>>
    BY <1>2 DEF Finalize
  <2>6. QED
    BY <2>2, <2>3, <2>4, <2>5 DEF ChainPublishesItsLink, Document, Link
<1>3. QED
  BY <1>1, <1>2, Publishers

-----------------------------------------------------------------------------
LEMMA InvInductive == Inv /\ [Next]_vars => Inv'
BY StepType, StepLink, StepPlace, StepTorn, StepTruth, StepChain DEF Inv

LEMMA Invariance == Spec => []Inv
BY InvInitial, InvInductive, PTL DEF Spec

(* Every variable keeps its type.                                          *)
THEOREM TypeCorrect == Spec => []TypeOK
<1>1. Inv => TypeOK
  BY DEF Inv
<1>2. QED
  BY <1>1, Invariance, PTL

(* Nx publishes the files of the link it was asked for, and a provenance   *)
(* that tells of them, whatever was linked, copied or cut before, in any   *)
(* number of output directories.                                           *)
THEOREM ChainsAreFaithful == Spec => []ChainPublishesItsLink
<1>1. Inv => ChainPublishesItsLink
  BY DEF Inv
<1>2. QED
  BY <1>1, Invariance, PTL

(* No half-written file is ever in an output directory.                    *)
THEOREM NeverTorn == Spec => []DestIsNeverTorn
<1>1. Inv => DestIsNeverTorn
  BY DEF Inv
<1>2. QED
  BY <1>1, Invariance, PTL

(* No provenance tells of another link than that of the files it lists.    *)
THEOREM ProvenanceIsTrue == Spec => []ProvenanceTellsTheTruth
<1>1. Inv => ProvenanceTellsTheTruth
  BY DEF Inv
<1>2. QED
  BY <1>1, Invariance, PTL
=============================================================================
