-------------------------- MODULE ReplaceTreeProofs --------------------------
(***************************************************************************)
(* Proofs about ReplaceTree, for every set of writers and of files, every  *)
(* bound on the publications and, where it is not said otherwise, with and *)
(* without an overlay layer.                                               *)
(***************************************************************************)
EXTENDS ReplaceTree, TLAPS

(* The phases in which a writer needs its stage, those in which the stage  *)
(* is full, and those before the writer has copied anything.               *)
Staging == {"populate", "check", "move", "shutil", "copy", "remove", "install"}
Staged == Staging \ {"populate"}
Early == {"populate", "check", "move", "shutil"}

(* A directory that holds files of publication n only.                     *)
Of(n) == [Files -> {n, NoFile}]

(* A stage in use holds files of its own publication, all of them when     *)
(* populate has returned, and is no directory that anybody else can reach. *)
StageInv ==
  \A w \in Writers : pc[w] \in Staging =>
    /\ stage[w] # NoDir
    /\ content[stage[w]] \in Of(stage[w])
    /\ pc[w] \in Staged => content[stage[w]] = Whole(stage[w])
    /\ dest # stage[w]
    /\ \A v \in Writers : /\ backup[v] # stage[w]
                          /\ opened[v] # stage[w]
                          /\ v # w /\ pc[v] \in Staging => stage[v] # stage[w]

(* Directories of publications to come are not in use and are empty.       *)
FreshInv ==
  /\ \A d \in Dirs : d > started \/ -d > started => content[d] = Empty
  /\ dest # NoDir => dest <= started
  /\ \A w \in Writers : /\ stage[w] # NoDir => stage[w] <= started
                        /\ backup[w] # NoDir => backup[w] <= started
                        /\ opened[w] <= started

(* backup_exists says the truth while it matters, and a copy goes to a     *)
(* directory of its own.                                                   *)
BackupInv ==
  \A w \in Writers :
    /\ pc[w] = "restore" => hasBackup[w]
    /\ pc[w] \in Early \cup {"copy", "remove"} => ~hasBackup[w]
    /\ pc[w] \in {"copy", "remove"} => backup[w] = -stage[w]
    /\ pc[w] \in {"install", "restore"} /\ hasBackup[w] => backup[w] # NoDir

(* The lower directory is left once and for all; as long as it is live,    *)
(* nobody has a tree ready to be installed.                                *)
LowerInv ==
  /\ content[0] \in Of(0)
  /\ layered => \A w \in Writers : backup[w] # 0
  /\ Lower => \A w \in Writers : pc[w] \notin {"install", "restore", "drop"}

(* While no two writers copy the lower directory at a time, a writer that  *)
(* copies or removes does it there, and so every directory holds files of  *)
(* one publication.                                                        *)
CopyInv ==
  ~overlapped =>
    /\ \A w \in Writers : pc[w] \in {"copy", "remove"} =>
         /\ Lower
         /\ \A v \in Writers \ {w} : pc[v] \notin {"copy", "remove"}
    /\ \A w \in Writers : pc[w] = "remove" => opened[w] = 0
    /\ \A w \in Writers : pc[w] \in Early => content[-stage[w]] = Empty
    /\ \A w \in Writers : pc[w] = "copy" => content[-stage[w]] \in Of(0)
    /\ \A d \in Dirs : \E n \in Publications : content[d] \in Of(n)

(* Without an overlay layer the trees that readers can meet, now or after  *)
(* a restore, are whole.                                                   *)
WholeInv ==
  ~layered =>
    /\ dest # NoDir => content[dest] \in CompleteTrees
    /\ \A w \in Writers : backup[w] # NoDir => content[backup[w]] \in CompleteTrees
    /\ \A w \in Writers : pc[w] \notin {"shutil", "copy", "remove"}

-----------------------------------------------------------------------------
(* What the directories of the model are numbered by, and what they hold.  *)
LEMMA Numbers ==
  /\ MaxPublications \in Nat /\ NoDir \notin Int /\ NoFile \notin Int
  /\ NoDir \notin Dirs /\ 0 \in Dirs /\ 0 \in Publications
  /\ \A n \in Publications : n \in Nat /\ n \in Dirs /\ -n \in Dirs
  /\ \A n \in 1 .. MaxPublications : n \in Publications /\ n > 0 /\ -n # n
  /\ \A d \in Dirs : d \in Int
BY WritersAssumption, SentinelAssumption DEF Dirs, Publications

LEMMA Trees ==
  /\ Empty \in Tree
  /\ \A n \in Publications : /\ Whole(n) \in Tree /\ Whole(n) \in Of(n)
                             /\ Empty \in Of(n) /\ Of(n) \subseteq Tree
  /\ \A n \in Publications : Whole(n) # Empty
<1>1. \A n \in Publications : Whole(n) # Empty
  <2>1. PICK f \in Files : TRUE
    BY WritersAssumption
  <2>2. ASSUME NEW n \in Publications PROVE Whole(n)[f] # Empty[f]
    BY <2>1, Numbers DEF Whole, Empty
  <2>3. QED
    BY <2>2
<1>2. QED
  BY <1>1 DEF Whole, Empty, Of, Tree

(* Removing a file leaves a directory with files of one publication.       *)
LEMMA Less ==
  ASSUME NEW n \in Publications, NEW t \in Of(n), NEW f \in Files
  PROVE  [t EXCEPT ![f] = NoFile] \in Of(n)
BY DEF Of

LEMMA More ==
  ASSUME NEW n \in Publications, NEW t \in Of(n), NEW f \in Files
  PROVE  [t EXCEPT ![f] = n] \in Of(n)
BY DEF Of

-----------------------------------------------------------------------------
(* What a writer knows about its own directories is preserved by every     *)
(* step, its own and the other writers'.                                   *)
Core == TypeOK /\ StageInv /\ FreshInv /\ BackupInv

LEMMA CoreInitial == Init => Core
<1> SUFFICES ASSUME Init PROVE Core
  OBVIOUS
<1> USE Numbers, Trees, WritersAssumption DEF Init
<1>1. PICK t \in {Empty, Whole(0)} : content = [d \in Dirs |-> IF d = 0 THEN t ELSE Empty]
  OBVIOUS
<1>2. TypeOK
  <2>1. content \in [Dirs -> Tree]
    BY <1>1
  <2>2. started \in Publications /\ layered \in BOOLEAN
    OBVIOUS
  <2>3. QED
    BY <2>1, <2>2 DEF TypeOK, Phases
<1>3. StageInv /\ BackupInv
  BY DEF StageInv, BackupInv, Staging, Staged, Early
<1>4. FreshInv
  BY <1>1 DEF FreshInv
<1>5. QED
  BY <1>2, <1>3, <1>4 DEF Core

LEMMA LayerStays == [Next]_vars => layered' = layered
BY DEF Next, Step, vars, paths, locals, history, Begin, Populate, Populated,
  CheckDestination, MoveAside, MoveAsideInterrupted, Renamed, MoveRefused,
  ListLive, CopyFile, OpenLive, RemoveFile, RemovedLive,
  RemovedLiveInterrupted, RemoveDirectory, RaiseEarly, Install, InstallFails,
  Restore, RestoreFails, DropBackup, Discard, Crash

LEMMA TypeInductive == Core /\ [Next]_vars => TypeOK'
<1> SUFFICES ASSUME Core, [Next]_vars PROVE TypeOK'
  OBVIOUS
<1>a. layered' = layered
  BY LayerStays
<1> USE <1>a, Numbers, Trees DEF Core, TypeOK, Goto, Phases
<1>1. CASE UNCHANGED vars
  BY <1>1 DEF vars, paths, locals, history
<1>2. ASSUME NEW w \in Writers, Begin(w) PROVE TypeOK'
  <2>1. started + 1 \in 1 .. MaxPublications
    BY <1>2 DEF Begin, Publications
  <2>2. QED
    BY <1>2, <2>1 DEF Begin, paths, locals, history
<1>3. ASSUME NEW w \in Writers, NEW f \in Files, Populate(w, f) PROVE TypeOK'
  <2>1. stage[w] \in 1 .. MaxPublications /\ content[stage[w]] \in Of(stage[w])
    BY <1>3 DEF Populate, StageInv, Staging
  <2>2. [content[stage[w]] EXCEPT ![f] = stage[w]] \in Tree
    BY <2>1, More
  <2>3. content' = [content EXCEPT ![stage[w]] = [content[stage[w]] EXCEPT ![f] = stage[w]]]
    BY <1>3 DEF Populate
  <2>4. content' \in [Dirs -> Tree]
    BY <2>1, <2>2, <2>3
  <2>5. QED
    BY <1>3, <2>4 DEF Populate, paths, locals, history
<1>4. ASSUME NEW w \in Writers, Populated(w) PROVE TypeOK'
  BY <1>4 DEF Populated, paths, locals, history
<1>5. ASSUME NEW w \in Writers, CheckDestination(w) PROVE TypeOK'
  <2>1. backup' \in {backup, [backup EXCEPT ![w] = NoDir]}
    BY <1>5 DEF CheckDestination
  <2>2. pc' \in {[pc EXCEPT ![w] = "install"], [pc EXCEPT ![w] = "move"]}
    BY <1>5 DEF CheckDestination
  <2>3. QED
    BY <1>5, <2>1, <2>2 DEF CheckDestination, paths, locals, history
<1>6. ASSUME NEW w \in Writers, MoveAside(w) PROVE TypeOK'
  BY <1>6 DEF MoveAside, Renamed, paths, locals, history
<1>7. ASSUME NEW w \in Writers, MoveAsideInterrupted(w) PROVE TypeOK'
  BY <1>7 DEF MoveAsideInterrupted, Renamed, paths, locals, history
<1>8. ASSUME NEW w \in Writers, MoveRefused(w) PROVE TypeOK'
  BY <1>8 DEF MoveRefused, paths, locals, history
<1>9. ASSUME NEW w \in Writers, ListLive(w) PROVE TypeOK'
  <2>1. -stage[w] \in Dirs
    BY <1>9 DEF ListLive, StageInv, Staging
  <2>2. Present(dest) \subseteq Files
    BY DEF Present
  <2>3. overlapped' \in BOOLEAN
    BY <1>9 DEF ListLive
  <2>4. QED
    BY <1>9, <2>1, <2>2, <2>3 DEF ListLive, paths, locals, history
<1>10. ASSUME NEW w \in Writers, NEW f \in Files, CopyFile(w, f) PROVE TypeOK'
  <2>1. content[dest][f] \in Publications \cup {NoFile}
    BY <1>10 DEF CopyFile, Present, Tree
  <2>2. content' = [content EXCEPT ![backup[w]] = [content[backup[w]] EXCEPT ![f] = content[dest][f]]]
    BY <1>10 DEF CopyFile
  <2>3. content' \in [Dirs -> Tree]
    BY <2>1, <2>2 DEF Tree
  <2>4. listed' \in [Writers -> SUBSET Files]
    BY <1>10 DEF CopyFile
  <2>5. QED
    BY <1>10, <2>3, <2>4 DEF CopyFile, paths, locals, history
<1>11. ASSUME NEW w \in Writers, OpenLive(w) PROVE TypeOK'
  BY <1>11 DEF OpenLive, paths, locals, history
<1>12. ASSUME NEW w \in Writers, NEW f \in Files, RemoveFile(w, f) PROVE TypeOK'
  <2>1. content' = [content EXCEPT ![opened[w]] = [content[opened[w]] EXCEPT ![f] = NoFile]]
    BY <1>12 DEF RemoveFile
  <2>2. content' \in [Dirs -> Tree]
    BY <2>1 DEF Tree
  <2>3. QED
    BY <1>12, <2>2 DEF RemoveFile, paths, locals, history
<1>13. ASSUME NEW w \in Writers, RemovedLive(w) PROVE TypeOK'
  BY <1>13 DEF RemovedLive, RemoveDirectory, paths, locals, history
<1>14. ASSUME NEW w \in Writers, RemovedLiveInterrupted(w) PROVE TypeOK'
  BY <1>14 DEF RemovedLiveInterrupted, RemoveDirectory, paths, locals, history
<1>15. ASSUME NEW w \in Writers, RaiseEarly(w) PROVE TypeOK'
  BY <1>15 DEF RaiseEarly, paths, locals, history
<1>16. ASSUME NEW w \in Writers, Install(w) PROVE TypeOK'
  <2>1. stage[w] \in Dirs
    BY <1>16 DEF Install, StageInv, Staging
  <2>2. QED
    BY <1>16, <2>1 DEF Install, paths, locals, history
<1>17. ASSUME NEW w \in Writers, InstallFails(w) PROVE TypeOK'
  BY <1>17 DEF InstallFails, paths, locals, history
<1>18. ASSUME NEW w \in Writers, Restore(w) PROVE TypeOK'
  BY <1>18 DEF Restore, paths, locals, history
<1>19. ASSUME NEW w \in Writers, RestoreFails(w) PROVE TypeOK'
  BY <1>19 DEF RestoreFails, paths, locals, history
<1>20. ASSUME NEW w \in Writers, DropBackup(w) PROVE TypeOK'
  <2>1. backup' \in {backup, [backup EXCEPT ![w] = NoDir]}
    BY <1>20 DEF DropBackup
  <2>2. QED
    BY <1>20, <2>1 DEF DropBackup, paths, locals, history
<1>21. ASSUME NEW w \in Writers, Discard(w) PROVE TypeOK'
  BY <1>21 DEF Discard, paths, locals, history
<1>22. ASSUME NEW w \in Writers, Crash(w) PROVE TypeOK'
  BY <1>22 DEF Crash, paths, locals, history
<1>23. QED
  BY <1>1, <1>2, <1>3, <1>4, <1>5, <1>6, <1>7, <1>8, <1>9, <1>10, <1>11,
     <1>12, <1>13, <1>14, <1>15, <1>16, <1>17, <1>18, <1>19, <1>20, <1>21, <1>22 DEF Next, Step

LEMMA StageInductive == Core /\ [Next]_vars => StageInv'
<1> SUFFICES ASSUME Core, TypeOK', [Next]_vars PROVE StageInv'
  BY TypeInductive
<1> USE Numbers, Trees DEF Core, TypeOK, StageInv, Staging, Staged, Goto
<1>1. CASE UNCHANGED vars
  BY <1>1 DEF vars, paths, locals, history
<1>2. ASSUME NEW w \in Writers, Begin(w) PROVE StageInv'
  <2>1. started + 1 \in 1 .. MaxPublications /\ started + 1 \in Dirs
    BY <1>2 DEF Begin, Publications
  <2>2. content[started + 1] \in Of(started + 1)
    BY <2>1 DEF FreshInv
  <2>3. /\ dest # started + 1
        /\ \A v \in Writers : /\ backup[v] # started + 1 /\ opened[v] # started + 1
                              /\ stage[v] # started + 1
    BY <2>1 DEF FreshInv, Publications
  <2>4. QED
    BY <1>2, <2>1, <2>2, <2>3 DEF Begin, paths, locals, history
<1>3. ASSUME NEW w \in Writers, NEW f \in Files, Populate(w, f) PROVE StageInv'
  <2>1. stage[w] \in 1 .. MaxPublications /\ content[stage[w]] \in Of(stage[w])
    BY <1>3 DEF Populate
  <2>2. content' = [content EXCEPT ![stage[w]] = [content[stage[w]] EXCEPT ![f] = stage[w]]]
    BY <1>3 DEF Populate
  <2>3. content'[stage[w]] \in Of(stage[w])
    BY <2>1, <2>2, More
  <2>4. QED
    BY <1>3, <2>1, <2>2, <2>3 DEF Populate, paths, locals, history
<1>4. ASSUME NEW w \in Writers, Populated(w) PROVE StageInv'
  <2>1. content[stage[w]] = Whole(stage[w])
    <3>1. content[stage[w]] \in Of(stage[w])
      BY <1>4 DEF Populated
    <3>2. \A f \in Files : content[stage[w]][f] = stage[w]
      BY <1>4, <3>1 DEF Populated, Present, Of
    <3>3. QED
      BY <3>1, <3>2 DEF Whole, Of
  <2>2. QED
    BY <1>4, <2>1 DEF Populated, paths, locals, history
<1>5. ASSUME NEW w \in Writers, CheckDestination(w) PROVE StageInv'
  <2>1. backup' \in {backup, [backup EXCEPT ![w] = NoDir]}
    BY <1>5 DEF CheckDestination
  <2>2. pc' \in {[pc EXCEPT ![w] = "install"], [pc EXCEPT ![w] = "move"]}
    BY <1>5 DEF CheckDestination
  <2>3. QED
    BY <1>5, <2>1, <2>2 DEF CheckDestination, paths, locals, history
<1>6. ASSUME NEW w \in Writers, MoveAside(w) PROVE StageInv'
  BY <1>6 DEF MoveAside, Renamed, paths, locals, history
<1>7. ASSUME NEW w \in Writers, MoveAsideInterrupted(w) PROVE StageInv'
  BY <1>7 DEF MoveAsideInterrupted, Renamed, paths, locals, history
<1>8. ASSUME NEW w \in Writers, MoveRefused(w) PROVE StageInv'
  BY <1>8 DEF MoveRefused, paths, locals, history
<1>9. ASSUME NEW w \in Writers, ListLive(w) PROVE StageInv'
  <2>1. stage[w] \in 1 .. MaxPublications
    BY <1>9 DEF ListLive
  <2>2. \A v \in Writers : pc[v] \in Staging => -stage[w] # stage[v]
    BY <2>1
  <2>3. QED
    BY <1>9, <2>2 DEF ListLive, paths, locals, history
<1>10. ASSUME NEW w \in Writers, NEW f \in Files, CopyFile(w, f) PROVE StageInv'
  <2>1. content' = [content EXCEPT ![backup[w]] = [content[backup[w]] EXCEPT ![f] = content[dest][f]]]
    BY <1>10 DEF CopyFile
  <2>2. \A v \in Writers : pc[v] \in Staging => content'[stage[v]] = content[stage[v]]
    BY <2>1
  <2>3. QED
    BY <1>10, <2>2 DEF CopyFile, paths, locals, history
<1>11. ASSUME NEW w \in Writers, OpenLive(w) PROVE StageInv'
  BY <1>11 DEF OpenLive, paths, locals, history
<1>12. ASSUME NEW w \in Writers, NEW f \in Files, RemoveFile(w, f) PROVE StageInv'
  <2>1. content' = [content EXCEPT ![opened[w]] = [content[opened[w]] EXCEPT ![f] = NoFile]]
    BY <1>12 DEF RemoveFile
  <2>2. \A v \in Writers : pc[v] \in Staging => content'[stage[v]] = content[stage[v]]
    BY <2>1
  <2>3. QED
    BY <1>12, <2>2 DEF RemoveFile, paths, locals, history
<1>13. ASSUME NEW w \in Writers, RemovedLive(w) PROVE StageInv'
  BY <1>13 DEF RemovedLive, RemoveDirectory, paths, locals, history
<1>14. ASSUME NEW w \in Writers, RemovedLiveInterrupted(w) PROVE StageInv'
  BY <1>14 DEF RemovedLiveInterrupted, RemoveDirectory, paths, locals, history
<1>15. ASSUME NEW w \in Writers, RaiseEarly(w) PROVE StageInv'
  BY <1>15 DEF RaiseEarly, paths, locals, history
<1>16. ASSUME NEW w \in Writers, Install(w) PROVE StageInv'
  BY <1>16 DEF Install, paths, locals, history
<1>17. ASSUME NEW w \in Writers, InstallFails(w) PROVE StageInv'
  BY <1>17 DEF InstallFails, paths, locals, history
<1>18. ASSUME NEW w \in Writers, Restore(w) PROVE StageInv'
  BY <1>18 DEF Restore, paths, locals, history
<1>19. ASSUME NEW w \in Writers, RestoreFails(w) PROVE StageInv'
  BY <1>19 DEF RestoreFails, paths, locals, history
<1>20. ASSUME NEW w \in Writers, DropBackup(w) PROVE StageInv'
  <2>1. backup' \in {backup, [backup EXCEPT ![w] = NoDir]}
    BY <1>20 DEF DropBackup
  <2>2. QED
    BY <1>20, <2>1 DEF DropBackup, paths, locals, history
<1>21. ASSUME NEW w \in Writers, Discard(w) PROVE StageInv'
  BY <1>21 DEF Discard, paths, locals, history
<1>22. ASSUME NEW w \in Writers, Crash(w) PROVE StageInv'
  BY <1>22 DEF Crash, paths, locals, history
<1>23. QED
  BY <1>1, <1>2, <1>3, <1>4, <1>5, <1>6, <1>7, <1>8, <1>9, <1>10, <1>11,
     <1>12, <1>13, <1>14, <1>15, <1>16, <1>17, <1>18, <1>19, <1>20, <1>21, <1>22 DEF Next, Step

LEMMA FreshInductive == Core /\ [Next]_vars => FreshInv'
<1> SUFFICES ASSUME Core, TypeOK', [Next]_vars PROVE FreshInv'
  BY TypeInductive
<1> USE Numbers DEF Core, TypeOK, FreshInv, Goto
<1>1. CASE UNCHANGED vars
  BY <1>1 DEF vars, paths, locals, history
<1>2. ASSUME NEW w \in Writers, Begin(w) PROVE FreshInv'
  <2>1. started \in Int /\ started' = started + 1
    BY <1>2 DEF Begin
  <2>2. QED
    BY <1>2, <2>1 DEF Begin, paths, locals, history
<1>3. ASSUME NEW w \in Writers, NEW f \in Files, Populate(w, f) PROVE FreshInv'
  <2>1. stage[w] \in 1 .. MaxPublications /\ stage[w] <= started
    BY <1>3 DEF Populate, StageInv, Staging
  <2>2. \A d \in Dirs : d # stage[w] => content'[d] = content[d]
    BY <1>3 DEF Populate
  <2>3. started \in Nat
    OBVIOUS
  <2>4. QED
    BY <1>3, <2>1, <2>2, <2>3 DEF Populate, paths, locals, history
<1>4. ASSUME NEW w \in Writers, Populated(w) PROVE FreshInv'
  BY <1>4 DEF Populated, paths, locals, history
<1>5. ASSUME NEW w \in Writers, CheckDestination(w) PROVE FreshInv'
  <2>1. backup' \in {backup, [backup EXCEPT ![w] = NoDir]}
    BY <1>5 DEF CheckDestination
  <2>2. QED
    BY <1>5, <2>1 DEF CheckDestination, paths, locals, history
<1>6. ASSUME NEW w \in Writers, MoveAside(w) PROVE FreshInv'
  BY <1>6 DEF MoveAside, Renamed, paths, locals, history
<1>7. ASSUME NEW w \in Writers, MoveAsideInterrupted(w) PROVE FreshInv'
  BY <1>7 DEF MoveAsideInterrupted, Renamed, paths, locals, history
<1>8. ASSUME NEW w \in Writers, MoveRefused(w) PROVE FreshInv'
  BY <1>8 DEF MoveRefused, paths, locals, history
<1>9. ASSUME NEW w \in Writers, ListLive(w) PROVE FreshInv'
  <2>1. stage[w] \in 1 .. MaxPublications
    BY <1>9 DEF ListLive, StageInv, Staging
  <2>2. -stage[w] <= started
    BY <2>1
  <2>3. QED
    BY <1>9, <2>2 DEF ListLive, paths, locals, history
<1>10. ASSUME NEW w \in Writers, NEW f \in Files, CopyFile(w, f) PROVE FreshInv'
  <2>1. stage[w] \in 1 .. MaxPublications /\ stage[w] <= started
    BY <1>10 DEF CopyFile, StageInv, Staging
  <2>2. backup[w] = -stage[w]
    BY <1>10 DEF CopyFile, BackupInv
  <2>3. \A d \in Dirs : d # backup[w] => content'[d] = content[d]
    BY <1>10 DEF CopyFile
  <2>4. started \in Nat
    OBVIOUS
  <2>5. QED
    BY <1>10, <2>1, <2>2, <2>3, <2>4 DEF CopyFile, paths, locals, history
<1>11. ASSUME NEW w \in Writers, OpenLive(w) PROVE FreshInv'
  BY <1>11 DEF OpenLive, paths, locals, history
<1>12. ASSUME NEW w \in Writers, NEW f \in Files, RemoveFile(w, f) PROVE FreshInv'
  <2>1. content' = [content EXCEPT ![opened[w]] = [content[opened[w]] EXCEPT ![f] = NoFile]]
    BY <1>12 DEF RemoveFile
  <2>2. \A d \in Dirs : content[d] = Empty => content'[d] = Empty
    <3>1. [Empty EXCEPT ![f] = NoFile] = Empty
      BY DEF Empty
    <3>2. QED
      BY <2>1, <3>1
  <2>3. QED
    BY <1>12, <2>2 DEF RemoveFile, paths, locals, history
<1>13. ASSUME NEW w \in Writers, RemovedLive(w) PROVE FreshInv'
  BY <1>13 DEF RemovedLive, RemoveDirectory, paths, locals, history
<1>14. ASSUME NEW w \in Writers, RemovedLiveInterrupted(w) PROVE FreshInv'
  BY <1>14 DEF RemovedLiveInterrupted, RemoveDirectory, paths, locals, history
<1>15. ASSUME NEW w \in Writers, RaiseEarly(w) PROVE FreshInv'
  BY <1>15 DEF RaiseEarly, paths, locals, history
<1>16. ASSUME NEW w \in Writers, Install(w) PROVE FreshInv'
  BY <1>16 DEF Install, paths, locals, history
<1>17. ASSUME NEW w \in Writers, InstallFails(w) PROVE FreshInv'
  BY <1>17 DEF InstallFails, paths, locals, history
<1>18. ASSUME NEW w \in Writers, Restore(w) PROVE FreshInv'
  BY <1>18 DEF Restore, paths, locals, history
<1>19. ASSUME NEW w \in Writers, RestoreFails(w) PROVE FreshInv'
  BY <1>19 DEF RestoreFails, paths, locals, history
<1>20. ASSUME NEW w \in Writers, DropBackup(w) PROVE FreshInv'
  <2>1. backup' \in {backup, [backup EXCEPT ![w] = NoDir]}
    BY <1>20 DEF DropBackup
  <2>2. QED
    BY <1>20, <2>1 DEF DropBackup, paths, locals, history
<1>21. ASSUME NEW w \in Writers, Discard(w) PROVE FreshInv'
  BY <1>21 DEF Discard, paths, locals, history
<1>22. ASSUME NEW w \in Writers, Crash(w) PROVE FreshInv'
  BY <1>22 DEF Crash, paths, locals, history
<1>23. QED
  BY <1>1, <1>2, <1>3, <1>4, <1>5, <1>6, <1>7, <1>8, <1>9, <1>10, <1>11,
     <1>12, <1>13, <1>14, <1>15, <1>16, <1>17, <1>18, <1>19, <1>20, <1>21, <1>22 DEF Next, Step

LEMMA BackupInductive == Core /\ [Next]_vars => BackupInv'
<1> SUFFICES ASSUME Core, TypeOK', [Next]_vars PROVE BackupInv'
  BY TypeInductive
<1> USE Numbers DEF Core, TypeOK, BackupInv, Early, Goto
<1>1. CASE UNCHANGED vars
  BY <1>1 DEF vars, paths, locals, history
<1>2. ASSUME NEW w \in Writers, Begin(w) PROVE BackupInv'
  BY <1>2 DEF Begin, paths, locals, history
<1>3. ASSUME NEW w \in Writers, NEW f \in Files, Populate(w, f) PROVE BackupInv'
  BY <1>3 DEF Populate, paths, locals, history
<1>4. ASSUME NEW w \in Writers, Populated(w) PROVE BackupInv'
  BY <1>4 DEF Populated, paths, locals, history
<1>5. ASSUME NEW w \in Writers, CheckDestination(w) PROVE BackupInv'
  <2>1. backup' \in {backup, [backup EXCEPT ![w] = NoDir]}
    BY <1>5 DEF CheckDestination
  <2>2. pc' \in {[pc EXCEPT ![w] = "install"], [pc EXCEPT ![w] = "move"]}
    BY <1>5 DEF CheckDestination
  <2>3. QED
    BY <1>5, <2>1, <2>2 DEF CheckDestination, paths, locals, history
<1>6. ASSUME NEW w \in Writers, MoveAside(w) PROVE BackupInv'
  BY <1>6 DEF MoveAside, Renamed, paths, locals, history
<1>7. ASSUME NEW w \in Writers, MoveAsideInterrupted(w) PROVE BackupInv'
  BY <1>7 DEF MoveAsideInterrupted, Renamed, paths, locals, history
<1>8. ASSUME NEW w \in Writers, MoveRefused(w) PROVE BackupInv'
  BY <1>8 DEF MoveRefused, paths, locals, history
<1>9. ASSUME NEW w \in Writers, ListLive(w) PROVE BackupInv'
  <2>1. stage[w] # NoDir
    BY <1>9 DEF ListLive, StageInv, Staging
  <2>2. QED
    BY <1>9, <2>1 DEF ListLive, paths, locals, history
<1>10. ASSUME NEW w \in Writers, NEW f \in Files, CopyFile(w, f) PROVE BackupInv'
  BY <1>10 DEF CopyFile, paths, locals, history
<1>11. ASSUME NEW w \in Writers, OpenLive(w) PROVE BackupInv'
  BY <1>11 DEF OpenLive, paths, locals, history
<1>12. ASSUME NEW w \in Writers, NEW f \in Files, RemoveFile(w, f) PROVE BackupInv'
  BY <1>12 DEF RemoveFile, paths, locals, history
<1>13. ASSUME NEW w \in Writers, RemovedLive(w) PROVE BackupInv'
  <2>1. stage[w] # NoDir /\ backup[w] = -stage[w]
    BY <1>13 DEF RemovedLive, RemoveDirectory, StageInv, Staging
  <2>2. backup[w] # NoDir
    BY <2>1
  <2>3. QED
    BY <1>13, <2>2 DEF RemovedLive, RemoveDirectory, paths, locals, history
<1>14. ASSUME NEW w \in Writers, RemovedLiveInterrupted(w) PROVE BackupInv'
  BY <1>14 DEF RemovedLiveInterrupted, RemoveDirectory, paths, locals, history
<1>15. ASSUME NEW w \in Writers, RaiseEarly(w) PROVE BackupInv'
  BY <1>15 DEF RaiseEarly, paths, locals, history
<1>16. ASSUME NEW w \in Writers, Install(w) PROVE BackupInv'
  BY <1>16 DEF Install, paths, locals, history
<1>17. ASSUME NEW w \in Writers, InstallFails(w) PROVE BackupInv'
  BY <1>17 DEF InstallFails, paths, locals, history
<1>18. ASSUME NEW w \in Writers, Restore(w) PROVE BackupInv'
  BY <1>18 DEF Restore, paths, locals, history
<1>19. ASSUME NEW w \in Writers, RestoreFails(w) PROVE BackupInv'
  BY <1>19 DEF RestoreFails, paths, locals, history
<1>20. ASSUME NEW w \in Writers, DropBackup(w) PROVE BackupInv'
  <2>1. backup' \in {backup, [backup EXCEPT ![w] = NoDir]}
    BY <1>20 DEF DropBackup
  <2>2. QED
    BY <1>20, <2>1 DEF DropBackup, paths, locals, history
<1>21. ASSUME NEW w \in Writers, Discard(w) PROVE BackupInv'
  BY <1>21 DEF Discard, paths, locals, history
<1>22. ASSUME NEW w \in Writers, Crash(w) PROVE BackupInv'
  BY <1>22 DEF Crash, paths, locals, history
<1>23. QED
  BY <1>1, <1>2, <1>3, <1>4, <1>5, <1>6, <1>7, <1>8, <1>9, <1>10, <1>11,
     <1>12, <1>13, <1>14, <1>15, <1>16, <1>17, <1>18, <1>19, <1>20, <1>21, <1>22 DEF Next, Step

LEMMA CoreInductive == Core /\ [Next]_vars => Core'
BY TypeInductive, StageInductive, FreshInductive, BackupInductive DEF Core

(* Core holds in every reachable state.                                    *)
THEOREM CoreInvariant == Spec => []Core
BY CoreInitial, CoreInductive, PTL DEF Spec

(* Type correctness: every variable keeps its type whatever fails.         *)
THEOREM TypeCorrect == Spec => []TypeOK
<1>1. Core => TypeOK
  BY DEF Core
<1>2. QED
  BY <1>1, CoreInvariant, PTL

-----------------------------------------------------------------------------
LEMMA LowerInductive == Core /\ LowerInv /\ [Next]_vars => LowerInv'
<1> SUFFICES ASSUME Core, LowerInv, [Next]_vars PROVE LowerInv'
  OBVIOUS
<1>a. layered' = layered
  BY LayerStays
<1> USE <1>a, Numbers DEF Core, TypeOK, LowerInv, Lower, Goto
<1>1. CASE UNCHANGED vars
  BY <1>1 DEF vars, paths, locals, history
<1>2. ASSUME NEW w \in Writers, Begin(w) PROVE LowerInv'
  BY <1>2 DEF Begin, paths, locals, history
<1>3. ASSUME NEW w \in Writers, NEW f \in Files, Populate(w, f) PROVE LowerInv'
  <2>1. stage[w] \in 1 .. MaxPublications
    BY <1>3 DEF Populate, StageInv, Staging
  <2>2. content'[0] = content[0]
    BY <1>3, <2>1 DEF Populate
  <2>3. QED
    BY <1>3, <2>2 DEF Populate, paths, locals, history
<1>4. ASSUME NEW w \in Writers, Populated(w) PROVE LowerInv'
  BY <1>4 DEF Populated, paths, locals, history
<1>5. ASSUME NEW w \in Writers, CheckDestination(w) PROVE LowerInv'
  <2>1. backup' \in {backup, [backup EXCEPT ![w] = NoDir]}
    BY <1>5 DEF CheckDestination
  <2>0. dest # NoDir => pc' = [pc EXCEPT ![w] = "move"]
    BY <1>5 DEF CheckDestination
  <2>2. pc' \in {[pc EXCEPT ![w] = "install"], [pc EXCEPT ![w] = "move"]}
    BY <1>5 DEF CheckDestination
  <2>3. QED
    BY <1>5, <2>0, <2>1, <2>2 DEF CheckDestination, paths, locals, history
<1>6. ASSUME NEW w \in Writers, MoveAside(w) PROVE LowerInv'
  BY <1>6 DEF MoveAside, Renamed, paths, locals, history
<1>7. ASSUME NEW w \in Writers, MoveAsideInterrupted(w) PROVE LowerInv'
  BY <1>7 DEF MoveAsideInterrupted, Renamed, paths, locals, history
<1>8. ASSUME NEW w \in Writers, MoveRefused(w) PROVE LowerInv'
  BY <1>8 DEF MoveRefused, paths, locals, history
<1>9. ASSUME NEW w \in Writers, ListLive(w) PROVE LowerInv'
  <2>1. stage[w] \in 1 .. MaxPublications
    BY <1>9 DEF ListLive, StageInv, Staging
  <2>2. -stage[w] # 0
    BY <2>1
  <2>3. QED
    BY <1>9, <2>2 DEF ListLive, paths, locals, history
<1>10. ASSUME NEW w \in Writers, NEW f \in Files, CopyFile(w, f) PROVE LowerInv'
  <2>1. stage[w] \in 1 .. MaxPublications /\ backup[w] = -stage[w]
    BY <1>10 DEF CopyFile, StageInv, BackupInv, Staging
  <2>2. backup[w] # 0
    BY <2>1
  <2>3. content'[0] = content[0]
    BY <1>10, <2>2 DEF CopyFile
  <2>4. QED
    BY <1>10, <2>3 DEF CopyFile, paths, locals, history
<1>11. ASSUME NEW w \in Writers, OpenLive(w) PROVE LowerInv'
  BY <1>11 DEF OpenLive, paths, locals, history
<1>12. ASSUME NEW w \in Writers, NEW f \in Files, RemoveFile(w, f) PROVE LowerInv'
  <2>1. content' = [content EXCEPT ![opened[w]] = [content[opened[w]] EXCEPT ![f] = NoFile]]
    BY <1>12 DEF RemoveFile
  <2>2. content'[0] \in Of(0)
    BY <2>1, Less
  <2>3. QED
    BY <1>12, <2>2 DEF RemoveFile, paths, locals, history
<1>13. ASSUME NEW w \in Writers, RemovedLive(w) PROVE LowerInv'
  BY <1>13 DEF RemovedLive, RemoveDirectory, paths, locals, history
<1>14. ASSUME NEW w \in Writers, RemovedLiveInterrupted(w) PROVE LowerInv'
  BY <1>14 DEF RemovedLiveInterrupted, RemoveDirectory, paths, locals, history
<1>15. ASSUME NEW w \in Writers, RaiseEarly(w) PROVE LowerInv'
  BY <1>15 DEF RaiseEarly, paths, locals, history
<1>16. ASSUME NEW w \in Writers, Install(w) PROVE LowerInv'
  <2>1. stage[w] \in 1 .. MaxPublications
    BY <1>16 DEF Install, StageInv, Staging
  <2>2. dest' # 0
    BY <1>16, <2>1 DEF Install
  <2>3. QED
    BY <1>16, <2>2 DEF Install, paths, locals, history
<1>17. ASSUME NEW w \in Writers, InstallFails(w) PROVE LowerInv'
  BY <1>17 DEF InstallFails, paths, locals, history
<1>18. ASSUME NEW w \in Writers, Restore(w) PROVE LowerInv'
  BY <1>18 DEF Restore, paths, locals, history
<1>19. ASSUME NEW w \in Writers, RestoreFails(w) PROVE LowerInv'
  BY <1>19 DEF RestoreFails, paths, locals, history
<1>20. ASSUME NEW w \in Writers, DropBackup(w) PROVE LowerInv'
  <2>1. backup' \in {backup, [backup EXCEPT ![w] = NoDir]}
    BY <1>20 DEF DropBackup
  <2>2. QED
    BY <1>20, <2>1 DEF DropBackup, paths, locals, history
<1>21. ASSUME NEW w \in Writers, Discard(w) PROVE LowerInv'
  BY <1>21 DEF Discard, paths, locals, history
<1>22. ASSUME NEW w \in Writers, Crash(w) PROVE LowerInv'
  BY <1>22 DEF Crash, paths, locals, history
<1>23. QED
  BY <1>1, <1>2, <1>3, <1>4, <1>5, <1>6, <1>7, <1>8, <1>9, <1>10, <1>11,
     <1>12, <1>13, <1>14, <1>15, <1>16, <1>17, <1>18, <1>19, <1>20, <1>21, <1>22 DEF Next, Step

LEMMA CopyInductive == Core /\ LowerInv /\ CopyInv /\ [Next]_vars => CopyInv'
<1> SUFFICES ASSUME Core, LowerInv, CopyInv, ~overlapped', TypeOK', [Next]_vars
             PROVE  CopyInv'
  BY TypeInductive DEF CopyInv
<1>a. layered' = layered
  BY LayerStays
<1>b. ~overlapped
  BY DEF Next, Step, vars, paths, locals, history, Begin, Populate, Populated,
    CheckDestination, MoveAside, MoveAsideInterrupted, Renamed, MoveRefused,
    ListLive, CopyFile, OpenLive, RemoveFile, RemovedLive,
    RemovedLiveInterrupted, RemoveDirectory, RaiseEarly, Install, InstallFails,
    Restore, RestoreFails, DropBackup, Discard, Crash
<1>c. \A w \in Writers : pc[w] \in Staging => stage[w] \in 1 .. MaxPublications
  BY Numbers DEF Core, TypeOK, StageInv
<1> USE <1>a, <1>b, <1>c, Numbers
    DEF Core, TypeOK, CopyInv, LowerInv, Lower, Staging, Early, Goto
<1>1. CASE UNCHANGED vars
  BY <1>1 DEF vars, paths, locals, history
<1>2. ASSUME NEW w \in Writers, Begin(w) PROVE CopyInv'
  <2>1. started + 1 \in 1 .. MaxPublications /\ -(started + 1) \in Dirs
    BY <1>2 DEF Begin, Publications
  <2>2. content[-(started + 1)] = Empty
    <3>1. -(-(started + 1)) > started
      BY <2>1
    <3>2. QED
      BY <2>1, <3>1 DEF FreshInv
  <2>3. QED
    BY <1>2, <2>1, <2>2 DEF Begin, paths, locals, history
<1>3. ASSUME NEW w \in Writers, NEW f \in Files, Populate(w, f) PROVE CopyInv'
  <2>1. stage[w] \in 1 .. MaxPublications /\ content[stage[w]] \in Of(stage[w])
    BY <1>3 DEF Populate, StageInv
  <2>2. content' = [content EXCEPT ![stage[w]] = [content[stage[w]] EXCEPT ![f] = stage[w]]]
    BY <1>3 DEF Populate
  <2>3. content'[stage[w]] \in Of(stage[w])
    BY <2>1, <2>2, More
  <2>4. \A d \in Dirs : d # stage[w] => content'[d] = content[d]
    BY <2>2
  <2>5. \A v \in Writers : pc[v] \in Staging => content'[-stage[v]] = content[-stage[v]]
    BY <2>1, <2>4
  <2>6. \A d \in Dirs : \E n \in Publications : content'[d] \in Of(n)
    BY <2>1, <2>3, <2>4
  <2>7. UNCHANGED <<paths, pc, opened, overlapped>>
    BY <1>3 DEF Populate, paths, locals, history
  <2>8. \A v \in Writers : pc[v] \in Early => content'[-stage[v]] = Empty
    BY <2>5
  <2>9. \A v \in Writers : pc[v] = "copy" => content'[-stage[v]] \in Of(0)
    BY <2>5
  <2>10. QED
    BY <2>7, <2>8, <2>9, <2>6 DEF paths
<1>4. ASSUME NEW w \in Writers, Populated(w) PROVE CopyInv'
  BY <1>4 DEF Populated, paths, locals, history
<1>5. ASSUME NEW w \in Writers, CheckDestination(w) PROVE CopyInv'
  <2>1. backup' \in {backup, [backup EXCEPT ![w] = NoDir]}
    BY <1>5 DEF CheckDestination
  <2>2. pc' \in {[pc EXCEPT ![w] = "install"], [pc EXCEPT ![w] = "move"]}
    BY <1>5 DEF CheckDestination
  <2>3. QED
    BY <1>5, <2>1, <2>2 DEF CheckDestination, paths, locals, history
<1>6. ASSUME NEW w \in Writers, MoveAside(w) PROVE CopyInv'
  BY <1>6 DEF MoveAside, Renamed, paths, locals, history
<1>7. ASSUME NEW w \in Writers, MoveAsideInterrupted(w) PROVE CopyInv'
  BY <1>7 DEF MoveAsideInterrupted, Renamed, paths, locals, history
<1>8. ASSUME NEW w \in Writers, MoveRefused(w) PROVE CopyInv'
  BY <1>8 DEF MoveRefused, paths, locals, history
<1>9. ASSUME NEW w \in Writers, ListLive(w) PROVE CopyInv'
  <2>1. \A v \in Writers \ {w} : pc[v] \notin {"copy", "remove"}
    BY <1>9 DEF ListLive
  <2>2. content[-stage[w]] \in Of(0)
    BY <1>9, Trees DEF ListLive
  <2>3. QED
    BY <1>9, <2>1, <2>2 DEF ListLive, paths, locals, history
<1>10. ASSUME NEW w \in Writers, NEW f \in Files, CopyFile(w, f) PROVE CopyInv'
  <2>1. dest = 0 /\ backup[w] = -stage[w] /\ stage[w] \in 1 .. MaxPublications
    BY <1>10 DEF CopyFile, BackupInv
  <2>2. content' = [content EXCEPT ![-stage[w]] = [content[-stage[w]] EXCEPT ![f] = content[0][f]]]
    BY <1>10, <2>1 DEF CopyFile
  <2>3. content[0][f] = 0 /\ content[-stage[w]] \in Of(0) /\ -stage[w] \in Dirs
    BY <1>10, <2>1 DEF CopyFile, Present, Of
  <2>4. content'[-stage[w]] \in Of(0)
    BY <2>2, <2>3, More
  <2>5. \A d \in Dirs : d # -stage[w] => content'[d] = content[d]
    BY <2>2
  <2>6. \A v \in Writers : v # w /\ pc[v] \in Staging => stage[v] # stage[w]
    BY <1>10 DEF CopyFile, StageInv
  <2>7. \A v \in Writers : v # w /\ pc[v] \in Staging => content'[-stage[v]] = content[-stage[v]]
    BY <2>1, <2>5, <2>6
  <2>8. \A d \in Dirs : \E n \in Publications : content'[d] \in Of(n)
    BY <2>4, <2>5
  <2>9. UNCHANGED <<paths, pc, opened, overlapped>>
    BY <1>10 DEF CopyFile, paths, locals, history
  <2>10. \A v \in Writers : pc[v] \in Early => content'[-stage[v]] = Empty
    BY <1>10, <2>7 DEF CopyFile
  <2>11. \A v \in Writers : pc[v] = "copy" => content'[-stage[v]] \in Of(0)
    BY <2>4, <2>7
  <2>12. QED
    BY <2>9, <2>10, <2>11, <2>8 DEF paths
<1>11. ASSUME NEW w \in Writers, OpenLive(w) PROVE CopyInv'
  BY <1>11 DEF OpenLive, paths, locals, history
<1>12. ASSUME NEW w \in Writers, NEW f \in Files, RemoveFile(w, f) PROVE CopyInv'
  <2>1. content' = [content EXCEPT ![opened[w]] = [content[opened[w]] EXCEPT ![f] = NoFile]]
    BY <1>12 DEF RemoveFile
  <2>2. opened[w] = 0
    BY <1>12 DEF RemoveFile
  <2>3. \A d \in Dirs : d # 0 => content'[d] = content[d]
    BY <2>1, <2>2
  <2>4. content'[0] \in Of(0)
    BY <2>1, <2>2, Less
  <2>5. \A v \in Writers : pc[v] \in Staging => content'[-stage[v]] = content[-stage[v]]
    BY <2>3
  <2>6. \A d \in Dirs : \E n \in Publications : content'[d] \in Of(n)
    BY <2>3, <2>4
  <2>7. UNCHANGED <<paths, pc, opened, overlapped>>
    BY <1>12 DEF RemoveFile, paths, locals, history
  <2>8. \A v \in Writers : pc[v] \in Early => content'[-stage[v]] = Empty
    BY <2>5
  <2>9. \A v \in Writers : pc[v] = "copy" => content'[-stage[v]] \in Of(0)
    BY <2>5
  <2>10. QED
    BY <2>7, <2>8, <2>9, <2>6 DEF paths
<1>13. ASSUME NEW w \in Writers, RemovedLive(w) PROVE CopyInv'
  BY <1>13 DEF RemovedLive, RemoveDirectory, paths, locals, history
<1>14. ASSUME NEW w \in Writers, RemovedLiveInterrupted(w) PROVE CopyInv'
  BY <1>14 DEF RemovedLiveInterrupted, RemoveDirectory, paths, locals, history
<1>15. ASSUME NEW w \in Writers, RaiseEarly(w) PROVE CopyInv'
  BY <1>15 DEF RaiseEarly, paths, locals, history
<1>16. ASSUME NEW w \in Writers, Install(w) PROVE CopyInv'
  BY <1>16 DEF Install, paths, locals, history
<1>17. ASSUME NEW w \in Writers, InstallFails(w) PROVE CopyInv'
  BY <1>17 DEF InstallFails, paths, locals, history
<1>18. ASSUME NEW w \in Writers, Restore(w) PROVE CopyInv'
  BY <1>18 DEF Restore, paths, locals, history
<1>19. ASSUME NEW w \in Writers, RestoreFails(w) PROVE CopyInv'
  BY <1>19 DEF RestoreFails, paths, locals, history
<1>20. ASSUME NEW w \in Writers, DropBackup(w) PROVE CopyInv'
  <2>1. backup' \in {backup, [backup EXCEPT ![w] = NoDir]}
    BY <1>20 DEF DropBackup
  <2>2. QED
    BY <1>20, <2>1 DEF DropBackup, paths, locals, history
<1>21. ASSUME NEW w \in Writers, Discard(w) PROVE CopyInv'
  BY <1>21 DEF Discard, paths, locals, history
<1>22. ASSUME NEW w \in Writers, Crash(w) PROVE CopyInv'
  BY <1>22 DEF Crash, paths, locals, history
<1>23. QED
  BY <1>1, <1>2, <1>3, <1>4, <1>5, <1>6, <1>7, <1>8, <1>9, <1>10, <1>11,
     <1>12, <1>13, <1>14, <1>15, <1>16, <1>17, <1>18, <1>19, <1>20, <1>21, <1>22 DEF Next, Step

(* With or without an overlay layer, whoever fails and dies: the files a   *)
(* reader finds are those of one publication, unless two writers copied    *)
(* the lower directory at the same time.                                   *)
THEOREM NoMixedTree == Spec => []OneVintage
<1>1. Init => LowerInv /\ CopyInv
  <2> SUFFICES ASSUME Init PROVE LowerInv /\ CopyInv
    OBVIOUS
  <2>1. PICK t \in {Empty, Whole(0)} : content = [d \in Dirs |-> IF d = 0 THEN t ELSE Empty]
    BY DEF Init
  <2>2. content[0] \in Of(0) /\ \A d \in Dirs : content[d] \in Of(0)
    BY <2>1, Trees, Numbers
  <2>3. QED
    BY <2>2, Numbers DEF Init, LowerInv, CopyInv, Early, Lower
<1>2. Core /\ CopyInv => OneVintage
  <2> SUFFICES ASSUME Core, CopyInv, ~overlapped, NEW f \in Present(dest),
                      NEW g \in Present(dest)
               PROVE  content[dest][f] = content[dest][g]
    BY DEF OneVintage
  <2>1. dest \in Dirs
    BY DEF Core, TypeOK, Present
  <2>2. PICK n \in Publications : content[dest] \in Of(n)
    BY <2>1 DEF CopyInv
  <2>3. QED
    BY <2>2 DEF Present, Of
<1>3. QED
  BY <1>1, <1>2, LowerInductive, CopyInductive, CoreInvariant, PTL DEF Spec

-----------------------------------------------------------------------------
LEMMA NeverLeftAsideInductive ==
  Core /\ NeverLeftAside /\ [Next]_vars => NeverLeftAside'
<1> SUFFICES ASSUME Core, NeverLeftAside, [Next]_vars PROVE NeverLeftAside'
  OBVIOUS
<1> USE Numbers
    DEF Core, TypeOK, BackupInv, NeverLeftAside, SomebodyHoldsBackup,
        SomebodyWillReplace, Present, Goto, Early
<1>1. CASE UNCHANGED vars
  BY <1>1 DEF vars, paths, locals, history
<1>2. ASSUME NEW w \in Writers, Begin(w) PROVE NeverLeftAside'
  BY <1>2 DEF Begin, paths, locals, history
<1>3. ASSUME NEW w \in Writers, NEW f \in Files, Populate(w, f) PROVE NeverLeftAside'
  <2>1. stage[w] \in Dirs /\ \A v \in Writers : backup[v] # stage[w]
    BY <1>3 DEF Populate, StageInv, Staging
  <2>2. \A v \in Writers : backup[v] # NoDir => content'[backup[v]] = content[backup[v]]
    BY <1>3, <2>1 DEF Populate
  <2>3. QED
    BY <1>3, <2>2 DEF Populate, paths, locals, history
<1>4. ASSUME NEW w \in Writers, Populated(w) PROVE NeverLeftAside'
  BY <1>4 DEF Populated, paths, locals, history
<1>5. ASSUME NEW w \in Writers, CheckDestination(w) PROVE NeverLeftAside'
  <2>1. backup' \in {backup, [backup EXCEPT ![w] = NoDir]}
    BY <1>5 DEF CheckDestination
  <2>0. UNCHANGED <<content, dest, stranded, hasBackup>>
    BY <1>5 DEF CheckDestination, paths, locals, history
  <2>2. pc' \in {[pc EXCEPT ![w] = "install"], [pc EXCEPT ![w] = "move"]}
    BY <1>5 DEF CheckDestination
  <2>3. QED
    BY <1>5, <2>0, <2>1, <2>2 DEF CheckDestination
<1>6. ASSUME NEW w \in Writers, MoveAside(w) PROVE NeverLeftAside'
  BY <1>6 DEF MoveAside, Renamed, paths, locals, history
<1>7. ASSUME NEW w \in Writers, MoveAsideInterrupted(w) PROVE NeverLeftAside'
  BY <1>7 DEF MoveAsideInterrupted, Renamed, paths, locals, history
<1>8. ASSUME NEW w \in Writers, MoveRefused(w) PROVE NeverLeftAside'
  BY <1>8 DEF MoveRefused, paths, locals, history
<1>9. ASSUME NEW w \in Writers, ListLive(w) PROVE NeverLeftAside'
  <2>1. dest' # NoDir
    BY <1>9 DEF ListLive, paths, locals, history, Lower
  <2>2. QED
    BY <2>1
<1>10. ASSUME NEW w \in Writers, NEW f \in Files, CopyFile(w, f) PROVE NeverLeftAside'
  <2>1. dest' # NoDir
    BY <1>10 DEF CopyFile, paths, locals, history
  <2>2. QED
    BY <2>1
<1>11. ASSUME NEW w \in Writers, OpenLive(w) PROVE NeverLeftAside'
  BY <1>11 DEF OpenLive, paths, locals, history
<1>12. ASSUME NEW w \in Writers, NEW f \in Files, RemoveFile(w, f) PROVE NeverLeftAside'
  <2>1. content' = [content EXCEPT ![opened[w]] = [content[opened[w]] EXCEPT ![f] = NoFile]]
    BY <1>12 DEF RemoveFile
  <2>2. \A d \in Dirs, g \in Files : content'[d][g] # NoFile => content[d][g] # NoFile
    BY <2>1 DEF Tree
  <2>3. QED
    BY <1>12, <2>2 DEF RemoveFile, paths, locals, history
<1>13. ASSUME NEW w \in Writers, RemovedLive(w) PROVE NeverLeftAside'
  BY <1>13 DEF RemovedLive, RemoveDirectory, paths, locals, history
<1>14. ASSUME NEW w \in Writers, RemovedLiveInterrupted(w) PROVE NeverLeftAside'
  BY <1>14 DEF RemovedLiveInterrupted, RemoveDirectory, paths, locals, history
<1>15. ASSUME NEW w \in Writers, RaiseEarly(w) PROVE NeverLeftAside'
  BY <1>15 DEF RaiseEarly, paths, locals, history
<1>16. ASSUME NEW w \in Writers, Install(w) PROVE NeverLeftAside'
  <2>1. dest' # NoDir
    BY <1>16 DEF Install, StageInv, Staging
  <2>2. QED
    BY <2>1
<1>17. ASSUME NEW w \in Writers, InstallFails(w) PROVE NeverLeftAside'
  BY <1>17 DEF InstallFails, paths, locals, history
<1>18. ASSUME NEW w \in Writers, Restore(w) PROVE NeverLeftAside'
  BY <1>18 DEF Restore, paths, locals, history
<1>19. ASSUME NEW w \in Writers, RestoreFails(w) PROVE NeverLeftAside'
  <2>1. dest = NoDir => stranded'
    BY <1>19 DEF RestoreFails, Vacant
  <2>2. QED
    BY <1>19, <2>1 DEF RestoreFails, paths, locals, history
<1>20. ASSUME NEW w \in Writers, DropBackup(w) PROVE NeverLeftAside'
  <2>1. backup' \in {backup, [backup EXCEPT ![w] = NoDir]}
    BY <1>20 DEF DropBackup
  <2>2. QED
    BY <1>20, <2>1 DEF DropBackup, paths, locals, history
<1>21. ASSUME NEW w \in Writers, Discard(w) PROVE NeverLeftAside'
  BY <1>21 DEF Discard, paths, locals, history
<1>22. ASSUME NEW w \in Writers, Crash(w) PROVE NeverLeftAside'
  BY <1>22 DEF Crash, paths, locals, history
<1>23. QED
  BY <1>1, <1>2, <1>3, <1>4, <1>5, <1>6, <1>7, <1>8, <1>9, <1>10, <1>11,
     <1>12, <1>13, <1>14, <1>15, <1>16, <1>17, <1>18, <1>19, <1>20, <1>21, <1>22 DEF Next, Step

(* A tree moved aside is coming back or being replaced, unless a writer    *)
(* was killed or could not rename its backup back to a vacant place: all   *)
(* other error paths of replace_tree put it back.                          *)
THEOREM TreeComesBack == Spec => []NeverLeftAside
<1>1. Init => NeverLeftAside
  BY DEF Init, NeverLeftAside, SomebodyHoldsBackup, Present
<1>2. QED
  BY <1>1, NeverLeftAsideInductive, CoreInvariant, PTL DEF Spec

-----------------------------------------------------------------------------
LEMMA WholeInductive == Core /\ WholeInv /\ [Next]_vars => WholeInv'
<1> SUFFICES ASSUME Core, WholeInv, ~layered, [Next]_vars
             PROVE  WholeInv'
  BY LayerStays DEF WholeInv
<1>a. layered' = layered
  BY LayerStays
<1> USE <1>a, Numbers DEF Core, TypeOK, WholeInv, Lower, Goto
<1>1. CASE UNCHANGED vars
  BY <1>1 DEF vars, paths, locals, history
<1>2. ASSUME NEW w \in Writers, Begin(w) PROVE WholeInv'
  BY <1>2 DEF Begin, paths, locals, history
<1>3. ASSUME NEW w \in Writers, NEW f \in Files, Populate(w, f) PROVE WholeInv'
  <2>1. stage[w] \in Dirs /\ dest # stage[w] /\ \A v \in Writers : backup[v] # stage[w]
    BY <1>3 DEF Populate, StageInv, Staging
  <2>2. /\ dest # NoDir => content'[dest] = content[dest]
        /\ \A v \in Writers : backup[v] # NoDir => content'[backup[v]] = content[backup[v]]
    BY <1>3, <2>1 DEF Populate
  <2>3. QED
    BY <1>3, <2>2 DEF Populate, paths, locals, history
<1>4. ASSUME NEW w \in Writers, Populated(w) PROVE WholeInv'
  BY <1>4 DEF Populated, paths, locals, history
<1>5. ASSUME NEW w \in Writers, CheckDestination(w) PROVE WholeInv'
  <2>1. backup' \in {backup, [backup EXCEPT ![w] = NoDir]}
    BY <1>5 DEF CheckDestination
  <2>2. pc' \in {[pc EXCEPT ![w] = "install"], [pc EXCEPT ![w] = "move"]}
    BY <1>5 DEF CheckDestination
  <2>3. QED
    BY <1>5, <2>1, <2>2 DEF CheckDestination, paths, locals, history
<1>6. ASSUME NEW w \in Writers, MoveAside(w) PROVE WholeInv'
  BY <1>6 DEF MoveAside, Renamed, paths, locals, history
<1>7. ASSUME NEW w \in Writers, MoveAsideInterrupted(w) PROVE WholeInv'
  BY <1>7 DEF MoveAsideInterrupted, Renamed, paths, locals, history
<1>8. ASSUME NEW w \in Writers, MoveRefused(w) PROVE WholeInv'
  BY <1>8 DEF MoveRefused, paths, locals, history
<1>9. ASSUME NEW w \in Writers, ListLive(w) PROVE WholeInv'
  BY <1>9 DEF ListLive, paths, locals, history
<1>10. ASSUME NEW w \in Writers, NEW f \in Files, CopyFile(w, f) PROVE WholeInv'
  BY <1>10 DEF CopyFile, paths, locals, history
<1>11. ASSUME NEW w \in Writers, OpenLive(w) PROVE WholeInv'
  BY <1>11 DEF OpenLive, paths, locals, history
<1>12. ASSUME NEW w \in Writers, NEW f \in Files, RemoveFile(w, f) PROVE WholeInv'
  BY <1>12 DEF RemoveFile, paths, locals, history
<1>13. ASSUME NEW w \in Writers, RemovedLive(w) PROVE WholeInv'
  BY <1>13 DEF RemovedLive, RemoveDirectory, paths, locals, history
<1>14. ASSUME NEW w \in Writers, RemovedLiveInterrupted(w) PROVE WholeInv'
  BY <1>14 DEF RemovedLiveInterrupted, RemoveDirectory, paths, locals, history
<1>15. ASSUME NEW w \in Writers, RaiseEarly(w) PROVE WholeInv'
  BY <1>15 DEF RaiseEarly, paths, locals, history
<1>16. ASSUME NEW w \in Writers, Install(w) PROVE WholeInv'
  <2>1. content[stage[w]] \in CompleteTrees
    BY <1>16 DEF Install, StageInv, Staging, Staged, CompleteTrees
  <2>2. QED
    BY <1>16, <2>1 DEF Install, paths, locals, history
<1>17. ASSUME NEW w \in Writers, InstallFails(w) PROVE WholeInv'
  BY <1>17 DEF InstallFails, paths, locals, history
<1>18. ASSUME NEW w \in Writers, Restore(w) PROVE WholeInv'
  BY <1>18 DEF Restore, paths, locals, history
<1>19. ASSUME NEW w \in Writers, RestoreFails(w) PROVE WholeInv'
  BY <1>19 DEF RestoreFails, paths, locals, history
<1>20. ASSUME NEW w \in Writers, DropBackup(w) PROVE WholeInv'
  <2>1. backup' \in {backup, [backup EXCEPT ![w] = NoDir]}
    BY <1>20 DEF DropBackup
  <2>2. QED
    BY <1>20, <2>1 DEF DropBackup, paths, locals, history
<1>21. ASSUME NEW w \in Writers, Discard(w) PROVE WholeInv'
  BY <1>21 DEF Discard, paths, locals, history
<1>22. ASSUME NEW w \in Writers, Crash(w) PROVE WholeInv'
  BY <1>22 DEF Crash, paths, locals, history
<1>23. QED
  BY <1>1, <1>2, <1>3, <1>4, <1>5, <1>6, <1>7, <1>8, <1>9, <1>10, <1>11,
     <1>12, <1>13, <1>14, <1>15, <1>16, <1>17, <1>18, <1>19, <1>20, <1>21, <1>22 DEF Next, Step

(* What a reader of the directory finds.                                   *)
Found == IF layered \/ dest = NoDir THEN Empty ELSE content[dest]

(* Without an overlay layer, every step of the writers is, for a reader, a *)
(* withdrawal of the tree, the appearance of a whole one, or nothing.      *)
LEMMA PublishedStep ==
  ASSUME ~layered, ~layered', Core, WholeInv, [Next]_vars
  PROVE  [Published!Next]_Found
<1> DEFINE Mapped == Published!Next \/ Found' = Found
<1> SUFFICES Mapped
  OBVIOUS
<1>a. dest' = dest /\ content' = content => Mapped
  BY DEF Found
<1>b. ASSUME dest' = NoDir PROVE Mapped
  <2>1. Found' = Empty
    BY <1>b DEF Found
  <2>2. QED
    BY <2>1 DEF Published!Next, Published!Withdraw, Found
<1>c. ASSUME Vacant, dest' \in Dirs, content'[dest'] \in CompleteTrees PROVE Mapped
  <2>1. Found = Empty
    <3>1. CASE dest = NoDir
      BY <3>1 DEF Found
    <3>2. CASE dest # NoDir
      <4>1. content[dest] \in Tree /\ \A f \in Files : content[dest][f] = NoFile
        BY <1>c, <3>2 DEF Vacant, Present, Core, TypeOK
      <4>2. content[dest] = Empty
        BY <4>1 DEF Empty, Tree
      <4>3. QED
        BY <4>2 DEF Found
    <3>3. QED
      BY <3>1, <3>2
  <2>2. Found' = content'[dest']
    BY <1>c, Numbers DEF Found
  <2>3. QED
    BY <1>c, <2>1, <2>2 DEF CompleteTrees, Published!Next, Published!Install, Found
<1> HIDE DEF Mapped
<1> USE Numbers
<1>1. CASE UNCHANGED vars
  BY <1>1, <1>a DEF vars, paths, locals, history
<1>2. ASSUME NEW w \in Writers, Begin(w) PROVE Mapped
  BY <1>2, <1>a DEF Begin, paths, locals, history
<1>3. ASSUME NEW w \in Writers, NEW f \in Files, Populate(w, f) PROVE Mapped
  <2>1. dest # stage[w] /\ stage[w] \in Dirs
    BY <1>3 DEF Populate, Core, TypeOK, StageInv, Staging
  <2>2. dest # NoDir => content'[dest] = content[dest]
    BY <1>3, <2>1 DEF Populate, Core, TypeOK
  <2>3. Found' = Found
    BY <1>3, <2>2 DEF Found, Populate, paths, locals, history
  <2>4. QED
    BY <2>3 DEF Mapped
<1>4. ASSUME NEW w \in Writers, Populated(w) PROVE Mapped
  BY <1>4, <1>a DEF Populated, paths, locals, history
<1>5. ASSUME NEW w \in Writers, CheckDestination(w) PROVE Mapped
  BY <1>5, <1>a DEF CheckDestination, paths, locals, history
<1>6. ASSUME NEW w \in Writers, MoveAside(w) PROVE Mapped
  BY <1>6, <1>b DEF MoveAside, Renamed, paths, locals, history
<1>7. ASSUME NEW w \in Writers, MoveAsideInterrupted(w) PROVE Mapped
  BY <1>7, <1>b DEF MoveAsideInterrupted, Renamed, paths, locals, history
<1>8. ASSUME NEW w \in Writers, MoveRefused(w) PROVE Mapped
  BY <1>8, <1>a DEF MoveRefused, paths, locals, history
<1>9. ASSUME NEW w \in Writers, ListLive(w) PROVE Mapped
  BY <1>9, <1>a DEF ListLive, paths, locals, history
<1>10. ASSUME NEW w \in Writers, NEW f \in Files, CopyFile(w, f) PROVE Mapped
  BY <1>10 DEF CopyFile, WholeInv
<1>11. ASSUME NEW w \in Writers, OpenLive(w) PROVE Mapped
  BY <1>11, <1>a DEF OpenLive, paths, locals, history
<1>12. ASSUME NEW w \in Writers, NEW f \in Files, RemoveFile(w, f) PROVE Mapped
  BY <1>12 DEF RemoveFile, WholeInv
<1>13. ASSUME NEW w \in Writers, RemovedLive(w) PROVE Mapped
  BY <1>13, <1>b DEF RemovedLive, RemoveDirectory, paths, locals, history
<1>14. ASSUME NEW w \in Writers, RemovedLiveInterrupted(w) PROVE Mapped
  BY <1>14, <1>b DEF RemovedLiveInterrupted, RemoveDirectory, paths, locals, history
<1>15. ASSUME NEW w \in Writers, RaiseEarly(w) PROVE Mapped
  BY <1>15, <1>a DEF RaiseEarly, paths, locals, history
<1>16. ASSUME NEW w \in Writers, Install(w) PROVE Mapped
  <2>1. stage[w] \in Dirs /\ content[stage[w]] = Whole(stage[w]) /\ stage[w] \in Publications
    BY <1>16 DEF Install, Core, TypeOK, StageInv, Staged, Staging
  <2>2. QED
    BY <1>16, <1>c, <2>1 DEF Install, CompleteTrees
<1>17. ASSUME NEW w \in Writers, InstallFails(w) PROVE Mapped
  BY <1>17, <1>a DEF InstallFails, paths, locals, history
<1>18. ASSUME NEW w \in Writers, Restore(w) PROVE Mapped
  <2>1. backup[w] # NoDir
    BY <1>18 DEF Restore, Core, BackupInv
  <2>2. QED
    BY <1>18, <1>c, <2>1 DEF Restore, WholeInv, Core, TypeOK
<1>19. ASSUME NEW w \in Writers, RestoreFails(w) PROVE Mapped
  BY <1>19, <1>a DEF RestoreFails, paths, locals, history
<1>20. ASSUME NEW w \in Writers, DropBackup(w) PROVE Mapped
  BY <1>20, <1>a DEF DropBackup, paths, locals, history
<1>21. ASSUME NEW w \in Writers, Discard(w) PROVE Mapped
  BY <1>21, <1>a DEF Discard, paths, locals, history
<1>22. ASSUME NEW w \in Writers, Crash(w) PROVE Mapped
  BY <1>22, <1>a DEF Crash, paths, locals, history
<1>23. QED
  BY <1>1, <1>2, <1>3, <1>4, <1>5, <1>6, <1>7, <1>8, <1>9, <1>10, <1>11,
     <1>12, <1>13, <1>14, <1>15, <1>16, <1>17, <1>18, <1>19, <1>20, <1>21, <1>22 DEF Next, Step

(* Where a rename is possible, replace_tree implements PublishedTree: a    *)
(* reader finds a whole tree or none, at every moment.                     *)
THEOREM PublicationIsWhole == Spec => PublishesWholeTrees
<1>1. Init => WholeInv /\ Published!Init
  <2> SUFFICES ASSUME Init PROVE WholeInv /\ Published!Init
    OBVIOUS
  <2>1. PICK t \in {Empty, Whole(0)} : content = [d \in Dirs |-> IF d = 0 THEN t ELSE Empty]
    BY DEF Init
  <2>2. content[0] = t /\ t \in CompleteTrees
    BY <2>1, Numbers DEF CompleteTrees
  <2>3. QED
    BY <2>2, Numbers DEF Init, WholeInv, Published!Init, CompleteTrees
<1>2. Core /\ WholeInv /\ [Next]_vars => [Published!Next]_Found
  <2>1. CASE layered
    BY <2>1, LayerStays DEF Found
  <2>2. QED
    BY <2>1, LayerStays, PublishedStep
<1>3. QED
  BY <1>1, <1>2, WholeInductive, CoreInvariant, PTL
     DEF Spec, PublishesWholeTrees, Published!Spec, Found
=============================================================================
