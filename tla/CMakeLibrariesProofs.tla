------------------------ MODULE CMakeLibrariesProofs ------------------------
(***************************************************************************)
(* Proofs about CMakeLibraries, for every set of inputs, identities and    *)
(* libraries and any number of faults and edits: what is published is      *)
(* never a mixture, unless the builds of its identity read two sets of     *)
(* inputs.  That something is published at all is a liveness property, and *)
(* only checked.                                                           *)
(***************************************************************************)
EXTENDS CMakeLibraries, TLAPS

(* No archive is half-written, and if the builds of identity d read one    *)
(* set of inputs only, each that is there is of those ...                  *)
Clean(d, tree) ==
  /\ \A l \in Libs : tree[l] # Torn
  /\ \A i \in Inputs : sources[d] = {i} =>
       \A l \in Libs : tree[l] \in {Absent, Exact(i)[l]}

(* ... and nothing is missing.                                             *)
Whole(d, tree) ==
  /\ \A l \in Libs : tree[l] # Torn
  /\ \A i \in Inputs : sources[d] = {i} => tree = Exact(i)

(* The inputs of now are among those that the identity of the run stands   *)
(* for as long as the run reads them.                                      *)
RunInv ==
  /\ pc # "idle" => sources[identity] # {} /\ result # "ok"
  /\ pc \in Reading => inputs \in sources[identity]

(* The mark tells the truth (CompleteScratchIsClean), and its identity is  *)
(* one that a build had.                                                   *)
ScratchInv ==
  marker.state = "complete" =>
    /\ marker.identity \in Identities
    /\ sources[marker.identity] # {}
    /\ Clean(marker.identity, libs)

(* While CMake runs the mark is off; an archive that no job writes is not  *)
(* half-written, and of the inputs of now if those are the only ones.      *)
BuildInv ==
  /\ pc = "mark" => libs = NoFiles /\ marker.state # "complete"
  /\ pc \in {"build", "complete"} => marker = Marker(identity, "incomplete")
  /\ pc = "build" => \A l \in Libs :
       /\ job[l] # "running" => libs[l] # Torn
       /\ sources[identity] = {inputs} =>
            /\ job[l] = "running" => l \in LibsOf[inputs]
            /\ job[l] = "todo" => libs[l] \in {Absent, Exact(inputs)[l]}
            /\ job[l] = "done" => libs[l] = Exact(inputs)[l]

(* From the end of the build on, the tree to publish is whole.             *)
PublishInv ==
  /\ pc \in {"complete", "publish"} => Whole(identity, libs)
  /\ pc \in {"withdraw", "install"} =>
       staged # NoFiles /\ Whole(identity, staged)

(* A manifest lists the archives of its identity.                          *)
ManifestInv ==
  manifest.identity # NoIdentity =>
    /\ sources[manifest.identity] # {}
    /\ Whole(manifest.identity, manifest.files)

ResultInv == result = "ok" \/ pc = "describe" => Matches(identity)

Inv == /\ TypeOK
       /\ RunInv
       /\ BuildInv
       /\ ScratchInv
       /\ PublishInv
       /\ ManifestInv
       /\ ResultInv

-----------------------------------------------------------------------------
(* The archives of a build are a tree, and not an empty one.               *)
LEMMA ExactIsTree ==
  ASSUME NEW i \in Inputs
  PROVE  /\ Exact(i) \in Tree
         /\ Exact(i) # NoFiles
         /\ \A l \in Libs : Exact(i)[l] = IF l \in LibsOf[i] THEN i ELSE Absent
<1>1. Exact(i) \in Tree
  BY DEF Exact, Tree, Contents
<1>2. \A l \in Libs : Exact(i)[l] = IF l \in LibsOf[i] THEN i ELSE Absent
  BY DEF Exact
<1>3. Exact(i) # NoFiles
  <2>1. PICK l \in Libs : l \in LibsOf[i]
    BY LibsOfAssumption
  <2>2. Exact(i)[l] # NoFiles[l]
    BY <2>1, <1>2, SentinelAssumption DEF NoFiles
  <2>3. QED
    BY <2>2
<1>4. QED
  BY <1>1, <1>2, <1>3

LEMMA NoFilesIsTree ==
  NoFiles \in Tree /\ \A l \in Libs : NoFiles[l] = Absent
BY DEF NoFiles, Tree, Contents

LEMMA Records ==
  /\ \A i, c : Marker(i, c).identity = i /\ Marker(i, c).state = c
  /\ \A i, f : Manifest(i, f).identity = i /\ Manifest(i, f).files = f
  /\ \A i \in Identities \cup {NoIdentity}, c \in {"complete", "incomplete"} :
       Marker(i, c) \in [identity : Identities \cup {NoIdentity},
                         state : {"complete", "incomplete"}]
  /\ \A i \in Identities \cup {NoIdentity}, f \in Tree :
       Manifest(i, f) \in [identity : Identities \cup {NoIdentity},
                           files : Tree]
BY DEF Marker, Manifest

LEMMA InvInitial == Init => Inv
<1> SUFFICES ASSUME Init PROVE Inv
  OBVIOUS
<1> USE Records, NoFilesIsTree, FaultsAssumption DEF Init
<1>1. TypeOK
  <2>1. /\ marker \in [identity : Identities \cup {NoIdentity},
                       state : {"complete", "incomplete"}]
        /\ manifest \in [identity : Identities \cup {NoIdentity}, files : Tree]
    OBVIOUS
  <2>2. faults \in 0 .. MaxFaults
    OBVIOUS
  <2>3. QED
    BY <2>1, <2>2 DEF TypeOK, Phases
<1>2. RunInv /\ BuildInv /\ PublishInv /\ ManifestInv /\ ResultInv
  BY DEF RunInv, BuildInv, PublishInv, ManifestInv, ResultInv, Reading
<1>3. ScratchInv
  BY DEF ScratchInv
<1>4. QED
  BY <1>1, <1>2, <1>3 DEF Inv

(* The inputs that an identity stands for only become more: what it stands *)
(* for alone after a step it stood for alone before.                       *)
LEMMA HistoryGrows ==
  Inv /\ [Next]_vars =>
    \A d \in Identities :
      /\ sources[d] \subseteq sources'[d]
      /\ sources[d] # {} => sources'[d] # {}
      /\ \A i \in Inputs : sources'[d] = {i} /\ sources[d] # {} =>
           sources[d] = {i}
<1> SUFFICES ASSUME Inv, [Next]_vars, NEW d \in Identities
             PROVE  sources[d] \subseteq sources'[d]
  OBVIOUS
<1> USE DEF Inv, TypeOK
<1>1. CASE UNCHANGED sources
  BY <1>1
<1>2. ASSUME ComputeIdentity PROVE sources[d] \subseteq sources'[d]
  BY <1>2 DEF ComputeIdentity
<1>3. ASSUME NEW i \in Inputs, NEW e \in Identities, EditInputs(i, e)
      PROVE  sources[d] \subseteq sources'[d]
  BY <1>3 DEF EditInputs
<1>4. ASSUME NEW i \in Inputs, NEW e \in Identities, CopyFromStage(i, e)
      PROVE  sources[d] \subseteq sources'[d]
  BY <1>4 DEF CopyFromStage
<1>5. CASE UNCHANGED vars
  BY <1>1, <1>5 DEF vars, checkout
<1>6. CASE Next
  <2>1. \/ ComputeIdentity
        \/ \E i \in Inputs, e \in Identities :
             EditInputs(i, e) \/ CopyFromStage(i, e)
        \/ UNCHANGED sources
    BY <1>6 DEF Next, Run, Outside, ReusePublished, VerifyFails, ReuseScratch,
       DiscardScratch, RemoveLib, RemoveMarker, MakeScratch, MarkIncomplete,
       StartLib, FinishLib, SkipLib, Built, Complete, StageLibraries,
       WithdrawTree, WithdrawLib, WithdrawManifest, InstallTree, Describe,
       Fail, Tamper, checkout
  <2>2. QED
    BY <1>1, <1>2, <1>3, <1>4, <2>1
<1>7. QED
  BY <1>5, <1>6

LEMMA TypesPreserved == Inv /\ [Next]_vars => TypeOK'
<1> SUFFICES ASSUME Inv, [Next]_vars PROVE TypeOK'
  OBVIOUS
<1> USE ExactIsTree, NoFilesIsTree, Records, SentinelAssumption, FaultsAssumption
    DEF Inv, TypeOK, Phases
<1>1. CASE UNCHANGED vars
  BY <1>1 DEF vars, checkout, scratch, destination
<1>2. ASSUME ComputeIdentity PROVE TypeOK'
  BY <1>2 DEF ComputeIdentity, checkout, scratch, destination
<1>3. ASSUME ReusePublished PROVE TypeOK'
  BY <1>3 DEF ReusePublished, checkout, scratch, destination
<1>4. ASSUME VerifyFails PROVE TypeOK'
  BY <1>4 DEF VerifyFails, checkout, scratch, destination
<1>5. ASSUME ReuseScratch PROVE TypeOK'
  BY <1>5 DEF ReuseScratch, checkout, scratch, destination
<1>6. ASSUME DiscardScratch PROVE TypeOK'
  BY <1>6 DEF DiscardScratch, checkout, scratch, destination
<1>7. ASSUME NEW l \in Libs, RemoveLib(l) PROVE TypeOK'
  BY <1>7 DEF RemoveLib, checkout, scratch, destination, Tree, Contents
<1>8. ASSUME RemoveMarker PROVE TypeOK'
  BY <1>8 DEF RemoveMarker, checkout, scratch, destination
<1>9. ASSUME MakeScratch PROVE TypeOK'
  BY <1>9 DEF MakeScratch, checkout, scratch, destination
<1>10. ASSUME MarkIncomplete PROVE TypeOK'
  BY <1>10 DEF MarkIncomplete, checkout, scratch, destination
<1>11. ASSUME NEW l \in Libs, StartLib(l) PROVE TypeOK'
  BY <1>11 DEF StartLib, checkout, scratch, destination, Tree, Contents
<1>12. ASSUME NEW l \in Libs, FinishLib(l) PROVE TypeOK'
  BY <1>12 DEF FinishLib, checkout, scratch, destination, Tree, Contents
<1>13. ASSUME NEW l \in Libs, SkipLib(l) PROVE TypeOK'
  BY <1>13 DEF SkipLib, checkout, scratch, destination
<1>14. ASSUME Built PROVE TypeOK'
  BY <1>14 DEF Built, checkout, scratch, destination
<1>15. ASSUME Complete PROVE TypeOK'
  BY <1>15 DEF Complete, checkout, scratch, destination
<1>16. ASSUME StageLibraries PROVE TypeOK'
  BY <1>16 DEF StageLibraries, checkout, scratch, destination
<1>17. ASSUME WithdrawTree PROVE TypeOK'
  BY <1>17 DEF WithdrawTree, checkout, scratch, destination
<1>18. ASSUME NEW l \in Libs, WithdrawLib(l) PROVE TypeOK'
  BY <1>18 DEF WithdrawLib, checkout, scratch, destination, Tree, Contents
<1>19. ASSUME WithdrawManifest PROVE TypeOK'
  BY <1>19 DEF WithdrawManifest, checkout, scratch, destination
<1>20. ASSUME InstallTree PROVE TypeOK'
  BY <1>20 DEF InstallTree, checkout, scratch, destination
<1>21. ASSUME Describe PROVE TypeOK'
  BY <1>21 DEF Describe, checkout, scratch, destination
<1>22. ASSUME Fail PROVE TypeOK'
  BY <1>22 DEF Fail, checkout, scratch, destination, Fault
<1>23. ASSUME NEW i \in Inputs, NEW d \in Identities, EditInputs(i, d)
       PROVE  TypeOK'
  BY <1>23 DEF EditInputs, checkout, scratch, destination, Fault
<1>24. ASSUME NEW l \in Libs, NEW content \in {Absent, Torn}, Tamper(l, content)
       PROVE  TypeOK'
  BY <1>24 DEF Tamper, checkout, scratch, destination, Fault, Tree, Contents
<1>25. ASSUME NEW i \in Inputs, NEW d \in Identities, CopyFromStage(i, d)
       PROVE  TypeOK'
  BY <1>25 DEF CopyFromStage, checkout, scratch, destination, Fault
<1>26. QED
  BY <1>1, <1>2, <1>3, <1>4, <1>5, <1>6, <1>7, <1>8, <1>9,
     <1>10, <1>11, <1>12, <1>13, <1>14, <1>15, <1>16, <1>17, <1>18,
     <1>19, <1>20, <1>21, <1>22, <1>23, <1>24, <1>25 DEF Next, Run, Outside

LEMMA RunPreserved == Inv /\ [Next]_vars => RunInv'
<1> SUFFICES ASSUME Inv, [Next]_vars PROVE RunInv'
  OBVIOUS
<1> USE ExactIsTree, NoFilesIsTree, Records, SentinelAssumption, HistoryGrows
    DEF Inv, RunInv, TypeOK, Phases, Reading
<1>1. CASE UNCHANGED vars
  BY <1>1 DEF vars, checkout, scratch, destination
<1>2. ASSUME ComputeIdentity PROVE RunInv'
  BY <1>2 DEF ComputeIdentity, checkout, scratch, destination
<1>3. ASSUME ReusePublished PROVE RunInv'
  BY <1>3 DEF ReusePublished, checkout, scratch, destination
<1>4. ASSUME VerifyFails PROVE RunInv'
  BY <1>4 DEF VerifyFails, checkout, scratch, destination
<1>5. ASSUME ReuseScratch PROVE RunInv'
  BY <1>5 DEF ReuseScratch, checkout, scratch, destination
<1>6. ASSUME DiscardScratch PROVE RunInv'
  BY <1>6 DEF DiscardScratch, checkout, scratch, destination
<1>7. ASSUME NEW l \in Libs, RemoveLib(l) PROVE RunInv'
  BY <1>7 DEF RemoveLib, checkout, scratch, destination
<1>8. ASSUME RemoveMarker PROVE RunInv'
  BY <1>8 DEF RemoveMarker, checkout, scratch, destination
<1>9. ASSUME MakeScratch PROVE RunInv'
  BY <1>9 DEF MakeScratch, checkout, scratch, destination
<1>10. ASSUME MarkIncomplete PROVE RunInv'
  BY <1>10 DEF MarkIncomplete, checkout, scratch, destination
<1>11. ASSUME NEW l \in Libs, StartLib(l) PROVE RunInv'
  BY <1>11 DEF StartLib, checkout, scratch, destination
<1>12. ASSUME NEW l \in Libs, FinishLib(l) PROVE RunInv'
  BY <1>12 DEF FinishLib, checkout, scratch, destination
<1>13. ASSUME NEW l \in Libs, SkipLib(l) PROVE RunInv'
  BY <1>13 DEF SkipLib, checkout, scratch, destination
<1>14. ASSUME Built PROVE RunInv'
  BY <1>14 DEF Built, checkout, scratch, destination
<1>15. ASSUME Complete PROVE RunInv'
  BY <1>15 DEF Complete, checkout, scratch, destination
<1>16. ASSUME StageLibraries PROVE RunInv'
  BY <1>16 DEF StageLibraries, checkout, scratch, destination
<1>17. ASSUME WithdrawTree PROVE RunInv'
  BY <1>17 DEF WithdrawTree, checkout, scratch, destination
<1>18. ASSUME NEW l \in Libs, WithdrawLib(l) PROVE RunInv'
  BY <1>18 DEF WithdrawLib, checkout, scratch, destination
<1>19. ASSUME WithdrawManifest PROVE RunInv'
  BY <1>19 DEF WithdrawManifest, checkout, scratch, destination
<1>20. ASSUME InstallTree PROVE RunInv'
  BY <1>20 DEF InstallTree, checkout, scratch, destination
<1>21. ASSUME Describe PROVE RunInv'
  BY <1>21 DEF Describe, checkout, scratch, destination
<1>22. ASSUME Fail PROVE RunInv'
  BY <1>22 DEF Fail, checkout, scratch, destination, Fault
<1>23. ASSUME NEW i \in Inputs, NEW d \in Identities, EditInputs(i, d)
       PROVE  RunInv'
  BY <1>23 DEF EditInputs, checkout, scratch, destination, Fault
<1>24. ASSUME NEW l \in Libs, NEW content \in {Absent, Torn}, Tamper(l, content)
       PROVE  RunInv'
  BY <1>24 DEF Tamper, checkout, scratch, destination, Fault
<1>25. ASSUME NEW i \in Inputs, NEW d \in Identities, CopyFromStage(i, d)
       PROVE  RunInv'
  BY <1>25 DEF CopyFromStage, checkout, scratch, destination, Fault
<1>26. QED
  BY <1>1, <1>2, <1>3, <1>4, <1>5, <1>6, <1>7, <1>8, <1>9,
     <1>10, <1>11, <1>12, <1>13, <1>14, <1>15, <1>16, <1>17, <1>18,
     <1>19, <1>20, <1>21, <1>22, <1>23, <1>24, <1>25 DEF Next, Run, Outside

LEMMA BuildPreserved == Inv /\ [Next]_vars => BuildInv'
<1> SUFFICES ASSUME Inv, [Next]_vars PROVE BuildInv'
  OBVIOUS
<1> USE ExactIsTree, NoFilesIsTree, Records, SentinelAssumption, HistoryGrows
    DEF Inv, TypeOK, RunInv, BuildInv, ScratchInv, Tree, Reading, Clean
<1>1. CASE UNCHANGED vars
  BY <1>1 DEF vars, checkout, scratch, destination
<1>2. ASSUME ComputeIdentity PROVE BuildInv'
  BY <1>2 DEF ComputeIdentity, checkout, scratch, destination
<1>3. ASSUME ReusePublished PROVE BuildInv'
  BY <1>3 DEF ReusePublished, checkout, scratch, destination
<1>4. ASSUME VerifyFails PROVE BuildInv'
  BY <1>4 DEF VerifyFails, checkout, scratch, destination
<1>5. ASSUME ReuseScratch PROVE BuildInv'
  <2>1. marker.identity = identity /\ marker.state = "complete"
    BY <1>5 DEF ReuseScratch
  <2>2. /\ \A l \in Libs : libs[l] # Torn
        /\ sources[identity] = {inputs} =>
             \A l \in Libs : libs[l] \in {Absent, Exact(inputs)[l]}
    BY <2>1
  <2>3. QED
    BY <1>5, <2>2 DEF ReuseScratch, checkout, scratch, destination
<1>6. ASSUME DiscardScratch PROVE BuildInv'
  BY <1>6 DEF DiscardScratch, checkout, scratch, destination
<1>7. ASSUME NEW l \in Libs, RemoveLib(l) PROVE BuildInv'
  BY <1>7 DEF RemoveLib, checkout, scratch, destination
<1>8. ASSUME RemoveMarker PROVE BuildInv'
  BY <1>8 DEF RemoveMarker, checkout, scratch, destination
<1>9. ASSUME MakeScratch PROVE BuildInv'
  BY <1>9 DEF MakeScratch, checkout, scratch, destination
<1>10. ASSUME MarkIncomplete PROVE BuildInv'
  BY <1>10 DEF MarkIncomplete, checkout, scratch, destination
<1>11. ASSUME NEW l \in Libs, StartLib(l) PROVE BuildInv'
  BY <1>11 DEF StartLib, checkout, scratch, destination
<1>12. ASSUME NEW l \in Libs, FinishLib(l) PROVE BuildInv'
  BY <1>12 DEF FinishLib, checkout, scratch, destination
<1>13. ASSUME NEW l \in Libs, SkipLib(l) PROVE BuildInv'
  BY <1>13 DEF SkipLib, checkout, scratch, destination
<1>14. ASSUME Built PROVE BuildInv'
  BY <1>14 DEF Built, checkout, scratch, destination
<1>15. ASSUME Complete PROVE BuildInv'
  BY <1>15 DEF Complete, checkout, scratch, destination
<1>16. ASSUME StageLibraries PROVE BuildInv'
  BY <1>16 DEF StageLibraries, checkout, scratch, destination
<1>17. ASSUME WithdrawTree PROVE BuildInv'
  BY <1>17 DEF WithdrawTree, checkout, scratch, destination
<1>18. ASSUME NEW l \in Libs, WithdrawLib(l) PROVE BuildInv'
  BY <1>18 DEF WithdrawLib, checkout, scratch, destination
<1>19. ASSUME WithdrawManifest PROVE BuildInv'
  BY <1>19 DEF WithdrawManifest, checkout, scratch, destination
<1>20. ASSUME InstallTree PROVE BuildInv'
  BY <1>20 DEF InstallTree, checkout, scratch, destination
<1>21. ASSUME Describe PROVE BuildInv'
  BY <1>21 DEF Describe, checkout, scratch, destination
<1>22. ASSUME Fail PROVE BuildInv'
  BY <1>22 DEF Fail, checkout, scratch, destination, Fault
<1>23. ASSUME NEW i \in Inputs, NEW d \in Identities, EditInputs(i, d)
       PROVE  BuildInv'
  BY <1>23 DEF EditInputs, checkout, scratch, destination, Fault
<1>24. ASSUME NEW l \in Libs, NEW content \in {Absent, Torn}, Tamper(l, content)
       PROVE  BuildInv'
  BY <1>24 DEF Tamper, checkout, scratch, destination, Fault
<1>25. ASSUME NEW i \in Inputs, NEW d \in Identities, CopyFromStage(i, d)
       PROVE  BuildInv'
  BY <1>25 DEF CopyFromStage, checkout, scratch, destination, Fault
<1>26. QED
  BY <1>1, <1>2, <1>3, <1>4, <1>5, <1>6, <1>7, <1>8, <1>9,
     <1>10, <1>11, <1>12, <1>13, <1>14, <1>15, <1>16, <1>17, <1>18,
     <1>19, <1>20, <1>21, <1>22, <1>23, <1>24, <1>25 DEF Next, Run, Outside

LEMMA ScratchPreserved == Inv /\ [Next]_vars => ScratchInv'
<1> SUFFICES ASSUME Inv, [Next]_vars PROVE ScratchInv'
  OBVIOUS
<1> USE ExactIsTree, NoFilesIsTree, Records, SentinelAssumption, HistoryGrows
    DEF Inv, TypeOK, RunInv, BuildInv, PublishInv, ScratchInv, Tree, Clean, Whole
<1>1. CASE UNCHANGED vars
  BY <1>1 DEF vars, checkout, scratch, destination
<1>2. ASSUME ComputeIdentity PROVE ScratchInv'
  BY <1>2 DEF ComputeIdentity, checkout, scratch, destination
<1>3. ASSUME ReusePublished PROVE ScratchInv'
  BY <1>3 DEF ReusePublished, checkout, scratch, destination
<1>4. ASSUME VerifyFails PROVE ScratchInv'
  BY <1>4 DEF VerifyFails, checkout, scratch, destination
<1>5. ASSUME ReuseScratch PROVE ScratchInv'
  <2>1. marker' = Marker(identity, "incomplete")
    BY <1>5 DEF ReuseScratch
  <2>2. marker'.state # "complete"
    BY <2>1
  <2>3. QED
    BY <2>2
<1>6. ASSUME DiscardScratch PROVE ScratchInv'
  BY <1>6 DEF DiscardScratch, checkout, scratch, destination
<1>7. ASSUME NEW l \in Libs, RemoveLib(l) PROVE ScratchInv'
  BY <1>7 DEF RemoveLib, checkout, scratch, destination
<1>8. ASSUME RemoveMarker PROVE ScratchInv'
  <2>1. marker' = Marker(NoIdentity, "incomplete")
    BY <1>8 DEF RemoveMarker
  <2>2. marker'.state # "complete"
    BY <2>1
  <2>3. QED
    BY <2>2
<1>9. ASSUME MakeScratch PROVE ScratchInv'
  BY <1>9 DEF MakeScratch, checkout, scratch, destination
<1>10. ASSUME MarkIncomplete PROVE ScratchInv'
  <2>1. marker' = Marker(identity, "incomplete")
    BY <1>10 DEF MarkIncomplete
  <2>2. marker'.state # "complete"
    BY <2>1
  <2>3. QED
    BY <2>2
<1>11. ASSUME NEW l \in Libs, StartLib(l) PROVE ScratchInv'
  <2>1. marker.state # "complete"
    BY <1>11 DEF StartLib
  <2>2. marker' = marker
    BY <1>11 DEF StartLib
  <2>3. QED
    BY <2>1, <2>2
<1>12. ASSUME NEW l \in Libs, FinishLib(l) PROVE ScratchInv'
  <2>1. marker.state # "complete"
    BY <1>12 DEF FinishLib
  <2>2. marker' = marker
    BY <1>12 DEF FinishLib
  <2>3. QED
    BY <2>1, <2>2
<1>13. ASSUME NEW l \in Libs, SkipLib(l) PROVE ScratchInv'
  BY <1>13 DEF SkipLib, checkout, scratch, destination
<1>14. ASSUME Built PROVE ScratchInv'
  BY <1>14 DEF Built, checkout, scratch, destination
<1>15. ASSUME Complete PROVE ScratchInv'
  <2>1. CASE marker.identity = identity
    <3>1. marker' = Marker(identity, "complete")
      BY <1>15, <2>1 DEF Complete
    <3>2. libs' = libs /\ sources' = sources /\ Whole(identity, libs)
      BY <1>15 DEF Complete, checkout
    <3>3. Clean(identity, libs)
      BY <3>2, ExactIsTree
    <3>4. identity \in Identities /\ sources[identity] # {}
      BY <1>15 DEF Complete
    <3>5. QED
      BY <3>1, <3>2, <3>3, <3>4
  <2>2. CASE marker.identity # identity
    BY <1>15, <2>2 DEF Complete, checkout, scratch, destination
  <2>3. QED
    BY <2>1, <2>2
<1>16. ASSUME StageLibraries PROVE ScratchInv'
  BY <1>16 DEF StageLibraries, checkout, scratch, destination
<1>17. ASSUME WithdrawTree PROVE ScratchInv'
  BY <1>17 DEF WithdrawTree, checkout, scratch, destination
<1>18. ASSUME NEW l \in Libs, WithdrawLib(l) PROVE ScratchInv'
  BY <1>18 DEF WithdrawLib, checkout, scratch, destination
<1>19. ASSUME WithdrawManifest PROVE ScratchInv'
  BY <1>19 DEF WithdrawManifest, checkout, scratch, destination
<1>20. ASSUME InstallTree PROVE ScratchInv'
  BY <1>20 DEF InstallTree, checkout, scratch, destination
<1>21. ASSUME Describe PROVE ScratchInv'
  BY <1>21 DEF Describe, checkout, scratch, destination
<1>22. ASSUME Fail PROVE ScratchInv'
  BY <1>22 DEF Fail, checkout, scratch, destination, Fault
<1>23. ASSUME NEW i \in Inputs, NEW d \in Identities, EditInputs(i, d)
       PROVE  ScratchInv'
  BY <1>23 DEF EditInputs, checkout, scratch, destination, Fault
<1>24. ASSUME NEW l \in Libs, NEW content \in {Absent, Torn}, Tamper(l, content)
       PROVE  ScratchInv'
  BY <1>24 DEF Tamper, checkout, scratch, destination, Fault
<1>25. ASSUME NEW i \in Inputs, NEW d \in Identities, CopyFromStage(i, d)
       PROVE  ScratchInv'
  BY <1>25 DEF CopyFromStage, checkout, scratch, destination, Fault
<1>26. QED
  BY <1>1, <1>2, <1>3, <1>4, <1>5, <1>6, <1>7, <1>8, <1>9,
     <1>10, <1>11, <1>12, <1>13, <1>14, <1>15, <1>16, <1>17, <1>18,
     <1>19, <1>20, <1>21, <1>22, <1>23, <1>24, <1>25 DEF Next, Run, Outside

LEMMA PublishPreserved == Inv /\ [Next]_vars => PublishInv'
<1> SUFFICES ASSUME Inv, [Next]_vars PROVE PublishInv'
  OBVIOUS
<1> USE ExactIsTree, NoFilesIsTree, Records, SentinelAssumption, HistoryGrows
    DEF Inv, TypeOK, RunInv, BuildInv, PublishInv, Tree, Reading, Whole
<1>1. CASE UNCHANGED vars
  BY <1>1 DEF vars, checkout, scratch, destination
<1>2. ASSUME ComputeIdentity PROVE PublishInv'
  BY <1>2 DEF ComputeIdentity, checkout, scratch, destination
<1>3. ASSUME ReusePublished PROVE PublishInv'
  BY <1>3 DEF ReusePublished, checkout, scratch, destination
<1>4. ASSUME VerifyFails PROVE PublishInv'
  BY <1>4 DEF VerifyFails, checkout, scratch, destination
<1>5. ASSUME ReuseScratch PROVE PublishInv'
  BY <1>5 DEF ReuseScratch, checkout, scratch, destination
<1>6. ASSUME DiscardScratch PROVE PublishInv'
  BY <1>6 DEF DiscardScratch, checkout, scratch, destination
<1>7. ASSUME NEW l \in Libs, RemoveLib(l) PROVE PublishInv'
  BY <1>7 DEF RemoveLib, checkout, scratch, destination
<1>8. ASSUME RemoveMarker PROVE PublishInv'
  BY <1>8 DEF RemoveMarker, checkout, scratch, destination
<1>9. ASSUME MakeScratch PROVE PublishInv'
  BY <1>9 DEF MakeScratch, checkout, scratch, destination
<1>10. ASSUME MarkIncomplete PROVE PublishInv'
  BY <1>10 DEF MarkIncomplete, checkout, scratch, destination
<1>11. ASSUME NEW l \in Libs, StartLib(l) PROVE PublishInv'
  BY <1>11 DEF StartLib, checkout, scratch, destination
<1>12. ASSUME NEW l \in Libs, FinishLib(l) PROVE PublishInv'
  BY <1>12 DEF FinishLib, checkout, scratch, destination
<1>13. ASSUME NEW l \in Libs, SkipLib(l) PROVE PublishInv'
  BY <1>13 DEF SkipLib, checkout, scratch, destination
<1>14. ASSUME Built PROVE PublishInv'
  BY <1>14 DEF Built, checkout, scratch, destination
<1>15. ASSUME Complete PROVE PublishInv'
  BY <1>15 DEF Complete, checkout, scratch, destination
<1>16. ASSUME StageLibraries PROVE PublishInv'
  BY <1>16 DEF StageLibraries, checkout, scratch, destination
<1>17. ASSUME WithdrawTree PROVE PublishInv'
  BY <1>17 DEF WithdrawTree, checkout, scratch, destination
<1>18. ASSUME NEW l \in Libs, WithdrawLib(l) PROVE PublishInv'
  BY <1>18 DEF WithdrawLib, checkout, scratch, destination
<1>19. ASSUME WithdrawManifest PROVE PublishInv'
  BY <1>19 DEF WithdrawManifest, checkout, scratch, destination
<1>20. ASSUME InstallTree PROVE PublishInv'
  BY <1>20 DEF InstallTree, checkout, scratch, destination
<1>21. ASSUME Describe PROVE PublishInv'
  BY <1>21 DEF Describe, checkout, scratch, destination
<1>22. ASSUME Fail PROVE PublishInv'
  BY <1>22 DEF Fail, checkout, scratch, destination, Fault
<1>23. ASSUME NEW i \in Inputs, NEW d \in Identities, EditInputs(i, d)
       PROVE  PublishInv'
  BY <1>23 DEF EditInputs, checkout, scratch, destination, Fault
<1>24. ASSUME NEW l \in Libs, NEW content \in {Absent, Torn}, Tamper(l, content)
       PROVE  PublishInv'
  BY <1>24 DEF Tamper, checkout, scratch, destination, Fault
<1>25. ASSUME NEW i \in Inputs, NEW d \in Identities, CopyFromStage(i, d)
       PROVE  PublishInv'
  BY <1>25 DEF CopyFromStage, checkout, scratch, destination, Fault
<1>26. QED
  BY <1>1, <1>2, <1>3, <1>4, <1>5, <1>6, <1>7, <1>8, <1>9,
     <1>10, <1>11, <1>12, <1>13, <1>14, <1>15, <1>16, <1>17, <1>18,
     <1>19, <1>20, <1>21, <1>22, <1>23, <1>24, <1>25 DEF Next, Run, Outside

LEMMA ManifestPreserved == Inv /\ [Next]_vars => ManifestInv'
<1> SUFFICES ASSUME Inv, [Next]_vars PROVE ManifestInv'
  OBVIOUS
<1> USE ExactIsTree, NoFilesIsTree, Records, SentinelAssumption, HistoryGrows
    DEF Inv, TypeOK, PublishInv, ManifestInv, RunInv, Whole
<1>1. CASE UNCHANGED vars
  BY <1>1 DEF vars, checkout, scratch, destination
<1>2. ASSUME ComputeIdentity PROVE ManifestInv'
  BY <1>2 DEF ComputeIdentity, checkout, scratch, destination
<1>3. ASSUME ReusePublished PROVE ManifestInv'
  BY <1>3 DEF ReusePublished, checkout, scratch, destination
<1>4. ASSUME VerifyFails PROVE ManifestInv'
  BY <1>4 DEF VerifyFails, checkout, scratch, destination
<1>5. ASSUME ReuseScratch PROVE ManifestInv'
  BY <1>5 DEF ReuseScratch, checkout, scratch, destination
<1>6. ASSUME DiscardScratch PROVE ManifestInv'
  BY <1>6 DEF DiscardScratch, checkout, scratch, destination
<1>7. ASSUME NEW l \in Libs, RemoveLib(l) PROVE ManifestInv'
  BY <1>7 DEF RemoveLib, checkout, scratch, destination
<1>8. ASSUME RemoveMarker PROVE ManifestInv'
  BY <1>8 DEF RemoveMarker, checkout, scratch, destination
<1>9. ASSUME MakeScratch PROVE ManifestInv'
  BY <1>9 DEF MakeScratch, checkout, scratch, destination
<1>10. ASSUME MarkIncomplete PROVE ManifestInv'
  BY <1>10 DEF MarkIncomplete, checkout, scratch, destination
<1>11. ASSUME NEW l \in Libs, StartLib(l) PROVE ManifestInv'
  BY <1>11 DEF StartLib, checkout, scratch, destination
<1>12. ASSUME NEW l \in Libs, FinishLib(l) PROVE ManifestInv'
  BY <1>12 DEF FinishLib, checkout, scratch, destination
<1>13. ASSUME NEW l \in Libs, SkipLib(l) PROVE ManifestInv'
  BY <1>13 DEF SkipLib, checkout, scratch, destination
<1>14. ASSUME Built PROVE ManifestInv'
  BY <1>14 DEF Built, checkout, scratch, destination
<1>15. ASSUME Complete PROVE ManifestInv'
  BY <1>15 DEF Complete, checkout, scratch, destination
<1>16. ASSUME StageLibraries PROVE ManifestInv'
  BY <1>16 DEF StageLibraries, checkout, scratch, destination
<1>17. ASSUME WithdrawTree PROVE ManifestInv'
  BY <1>17 DEF WithdrawTree, checkout, scratch, destination
<1>18. ASSUME NEW l \in Libs, WithdrawLib(l) PROVE ManifestInv'
  BY <1>18 DEF WithdrawLib, checkout, scratch, destination
<1>19. ASSUME WithdrawManifest PROVE ManifestInv'
  BY <1>19 DEF WithdrawManifest, checkout, scratch, destination
<1>20. ASSUME InstallTree PROVE ManifestInv'
  BY <1>20 DEF InstallTree, checkout, scratch, destination
<1>21. ASSUME Describe PROVE ManifestInv'
  BY <1>21 DEF Describe, checkout, scratch, destination
<1>22. ASSUME Fail PROVE ManifestInv'
  BY <1>22 DEF Fail, checkout, scratch, destination, Fault
<1>23. ASSUME NEW i \in Inputs, NEW d \in Identities, EditInputs(i, d)
       PROVE  ManifestInv'
  BY <1>23 DEF EditInputs, checkout, scratch, destination, Fault
<1>24. ASSUME NEW l \in Libs, NEW content \in {Absent, Torn}, Tamper(l, content)
       PROVE  ManifestInv'
  BY <1>24 DEF Tamper, checkout, scratch, destination, Fault
<1>25. ASSUME NEW i \in Inputs, NEW d \in Identities, CopyFromStage(i, d)
       PROVE  ManifestInv'
  BY <1>25 DEF CopyFromStage, checkout, scratch, destination, Fault
<1>26. QED
  BY <1>1, <1>2, <1>3, <1>4, <1>5, <1>6, <1>7, <1>8, <1>9,
     <1>10, <1>11, <1>12, <1>13, <1>14, <1>15, <1>16, <1>17, <1>18,
     <1>19, <1>20, <1>21, <1>22, <1>23, <1>24, <1>25 DEF Next, Run, Outside

LEMMA ResultPreserved == Inv /\ [Next]_vars => ResultInv'
<1> SUFFICES ASSUME Inv, [Next]_vars PROVE ResultInv'
  OBVIOUS
<1> USE ExactIsTree, NoFilesIsTree, Records, SentinelAssumption, HistoryGrows
    DEF Inv, TypeOK, RunInv, PublishInv, ResultInv, Matches
<1>1. CASE UNCHANGED vars
  BY <1>1 DEF vars, checkout, scratch, destination
<1>2. ASSUME ComputeIdentity PROVE ResultInv'
  BY <1>2 DEF ComputeIdentity, checkout, scratch, destination
<1>3. ASSUME ReusePublished PROVE ResultInv'
  BY <1>3 DEF ReusePublished, checkout, scratch, destination
<1>4. ASSUME VerifyFails PROVE ResultInv'
  BY <1>4 DEF VerifyFails, checkout, scratch, destination
<1>5. ASSUME ReuseScratch PROVE ResultInv'
  BY <1>5 DEF ReuseScratch, checkout, scratch, destination
<1>6. ASSUME DiscardScratch PROVE ResultInv'
  BY <1>6 DEF DiscardScratch, checkout, scratch, destination
<1>7. ASSUME NEW l \in Libs, RemoveLib(l) PROVE ResultInv'
  BY <1>7 DEF RemoveLib, checkout, scratch, destination
<1>8. ASSUME RemoveMarker PROVE ResultInv'
  BY <1>8 DEF RemoveMarker, checkout, scratch, destination
<1>9. ASSUME MakeScratch PROVE ResultInv'
  BY <1>9 DEF MakeScratch, checkout, scratch, destination
<1>10. ASSUME MarkIncomplete PROVE ResultInv'
  BY <1>10 DEF MarkIncomplete, checkout, scratch, destination
<1>11. ASSUME NEW l \in Libs, StartLib(l) PROVE ResultInv'
  BY <1>11 DEF StartLib, checkout, scratch, destination
<1>12. ASSUME NEW l \in Libs, FinishLib(l) PROVE ResultInv'
  BY <1>12 DEF FinishLib, checkout, scratch, destination
<1>13. ASSUME NEW l \in Libs, SkipLib(l) PROVE ResultInv'
  BY <1>13 DEF SkipLib, checkout, scratch, destination
<1>14. ASSUME Built PROVE ResultInv'
  BY <1>14 DEF Built, checkout, scratch, destination
<1>15. ASSUME Complete PROVE ResultInv'
  BY <1>15 DEF Complete, checkout, scratch, destination
<1>16. ASSUME StageLibraries PROVE ResultInv'
  BY <1>16 DEF StageLibraries, checkout, scratch, destination
<1>17. ASSUME WithdrawTree PROVE ResultInv'
  BY <1>17 DEF WithdrawTree, checkout, scratch, destination
<1>18. ASSUME NEW l \in Libs, WithdrawLib(l) PROVE ResultInv'
  BY <1>18 DEF WithdrawLib, checkout, scratch, destination
<1>19. ASSUME WithdrawManifest PROVE ResultInv'
  BY <1>19 DEF WithdrawManifest, checkout, scratch, destination
<1>20. ASSUME InstallTree PROVE ResultInv'
  BY <1>20 DEF InstallTree, checkout, scratch, destination
<1>21. ASSUME Describe PROVE ResultInv'
  BY <1>21 DEF Describe, checkout, scratch, destination
<1>22. ASSUME Fail PROVE ResultInv'
  BY <1>22 DEF Fail, checkout, scratch, destination, Fault
<1>23. ASSUME NEW i \in Inputs, NEW d \in Identities, EditInputs(i, d)
       PROVE  ResultInv'
  BY <1>23 DEF EditInputs, checkout, scratch, destination, Fault
<1>24. ASSUME NEW l \in Libs, NEW content \in {Absent, Torn}, Tamper(l, content)
       PROVE  ResultInv'
  BY <1>24 DEF Tamper, checkout, scratch, destination, Fault
<1>25. ASSUME NEW i \in Inputs, NEW d \in Identities, CopyFromStage(i, d)
       PROVE  ResultInv'
  BY <1>25 DEF CopyFromStage, checkout, scratch, destination, Fault
<1>26. QED
  BY <1>1, <1>2, <1>3, <1>4, <1>5, <1>6, <1>7, <1>8, <1>9,
     <1>10, <1>11, <1>12, <1>13, <1>14, <1>15, <1>16, <1>17, <1>18,
     <1>19, <1>20, <1>21, <1>22, <1>23, <1>24, <1>25 DEF Next, Run, Outside


THEOREM Invariance == Spec => []Inv
<1>1. Inv /\ [Next]_vars => Inv'
  BY TypesPreserved, RunPreserved, BuildPreserved, ScratchPreserved,
     PublishPreserved, ManifestPreserved, ResultPreserved DEF Inv
<1>2. QED
  BY InvInitial, <1>1, PTL DEF Spec

(* Type correctness.                                                       *)
THEOREM TypeCorrect == Spec => []TypeOK
<1>1. Inv => TypeOK
  BY DEF Inv
<1>2. QED
  BY <1>1, Invariance, PTL

(* A complete mark never covers a half-written archive, nor one of other   *)
(* inputs than those the builds of its identity read.                      *)
THEOREM ScratchIsClean == Spec => []CompleteScratchIsClean
<1>1. Inv => CompleteScratchIsClean
  BY DEF Inv, ScratchInv, Clean, CompleteScratchIsClean
<1>2. QED
  BY <1>1, Invariance, PTL

(* Whatever crashed or was edited before and whatever was done to the      *)
(* published tree, published_matches accepts no half-written archive; and  *)
(* the exact libraries only, if the builds of the identity read one set of *)
(* inputs.                                                                 *)
THEOREM AcceptedLibrariesAreExact == Spec => []AcceptedIsExact
<1>1. Inv => AcceptedIsExact
  <2> SUFFICES ASSUME Inv, NEW d \in Identities, Matches(d)
               PROVE  Whole(d, published)
    BY DEF AcceptedIsExact, Whole
  <2>1. manifest.identity = d /\ published = manifest.files
    BY DEF Matches
  <2>2. Whole(d, manifest.files)
    BY <2>1, SentinelAssumption DEF Inv, ManifestInv
  <2>3. QED
    BY <2>1, <2>2
<1>2. QED
  BY <1>1, Invariance, PTL

(* A run that says yes leaves an intact tree of its identity, and the      *)
(* libraries of the current inputs if its builds read no others.           *)
THEOREM SuccessMeansCurrent == Spec => []SuccessIsCurrent
<1>1. Inv /\ AcceptedIsExact => SuccessIsCurrent
  BY DEF Inv, TypeOK, ResultInv, AcceptedIsExact, SuccessIsCurrent
<1>2. QED
  BY <1>1, Invariance, AcceptedLibrariesAreExact, PTL
=============================================================================
