----------------------------- MODULE ReplaceTree -----------------------------
(***************************************************************************)
(* replace_tree (src/src/ocjs_bindgen/build_state.py:79-108), the staged   *)
(* publication every generated directory of the build goes through: the    *)
(* flat OCCT includes, the generated bindings and the static libraries.    *)
(*                                                                         *)
(* Each writer is a process (named by its pid).  It fills a private stage, *)
(* moves the live directory aside to a backup that carries its pid, and    *)
(* renames the stage into place.  A path (dest, stage, backup) holds a     *)
(* directory; a rename moves the directory, a copy fills a new one, and a  *)
(* removal goes on in the directory it has opened.  One action is one call *)
(* that another process, or a crash, can come between.  A crash forgets    *)
(* the writer's position and leaves all directories as they are: no code   *)
(* of the repository looks for them again, except that a later process     *)
(* with the same pid clears the backup of that name.                       *)
(***************************************************************************)
EXTENDS Integers

CONSTANTS Writers,          \* the processes that publish, by pid
          Files,            \* the files of a published tree
          NoDir,            \* what a path holds that does not exist
          NoFile,           \* a file missing from a tree
          MaxPublications   \* bound on the publications started in a behaviour

ASSUME WritersAssumption == Files # {} /\ MaxPublications \in Nat
ASSUME SentinelAssumption == NoFile \notin Int /\ NoDir \notin Int

VARIABLES content,    \* the files of each directory
          dest,       \* the directory that is published
          stage,      \* each writer's staging directory
          backup,     \* .<name>.backup-<pid>
          pc,         \* where each writer is
          hasBackup,  \* each writer's local variable backup_exists
          listed,     \* what shutil.move of a writer has listed and not copied
          opened,     \* the directory whose files shutil.move is removing
          started,    \* how many publications have been started
          layered,    \* TRUE when the first live directory is on a lower
                      \* overlay layer, where rename says EXDEV
          overlapped, \* TRUE once two writers copied that directory at a time
          stranded    \* TRUE once a writer was killed, was interrupted between
                      \* a move and the assignment that records it, or could
                      \* not rename the backup back

paths == <<dest, stage, backup>>
locals == <<hasBackup, listed, opened, started>>
history == <<layered, overlapped, stranded>>
vars == <<content, paths, pc, locals, history>>

-----------------------------------------------------------------------------
(* Directory 0 is the one an earlier build left behind, n > 0 the stage of *)
(* publication n, and -n the copy that it made of the live directory.      *)
Publications == 0 .. MaxPublications
Dirs == -MaxPublications .. MaxPublications
Tree == [Files -> Publications \cup {NoFile}]

(* The tree that populate() writes when nothing interrupts it.             *)
Whole(n) == [f \in Files |-> n]

(* build-wasm.sh creates the bindings directory empty when it is missing.  *)
Empty == [f \in Files |-> NoFile]

(* The trees a reader may find: one publication, complete, or a directory  *)
(* nobody has published to yet.                                            *)
CompleteTrees == {Whole(n) : n \in Publications} \cup {Empty}

(* The files of the directory at a path.                                   *)
Present(d) == {f \in Files : d # NoDir /\ content[d][f] # NoFile}

(* The live directory is the one on the lower layer.                       *)
Lower == layered /\ dest = 0

Phases == {"idle", "populate", "check", "move", "shutil", "copy", "remove",
           "install", "restore", "drop", "discard"}

TypeOK == /\ content \in [Dirs -> Tree]
          /\ dest \in Dirs \cup {NoDir}
          /\ stage \in [Writers -> (1 .. MaxPublications) \cup {NoDir}]
          /\ backup \in [Writers -> Dirs \cup {NoDir}]
          /\ pc \in [Writers -> Phases]
          /\ hasBackup \in [Writers -> BOOLEAN]
          /\ listed \in [Writers -> SUBSET Files]
          /\ opened \in [Writers -> Dirs]
          /\ started \in Publications
          /\ layered \in BOOLEAN
          /\ overlapped \in BOOLEAN
          /\ stranded \in BOOLEAN

Init == /\ content \in {[d \in Dirs |-> IF d = 0 THEN t ELSE Empty] :
                           t \in {Empty, Whole(0)}}
        /\ dest \in {0, NoDir}
        /\ stage = [w \in Writers |-> NoDir]
        /\ backup = [w \in Writers |-> NoDir]
        /\ pc = [w \in Writers |-> "idle"]
        /\ hasBackup = [w \in Writers |-> FALSE]
        /\ listed = [w \in Writers |-> {}]
        /\ opened = [w \in Writers |-> 0]
        /\ started = 0
        /\ layered \in {FALSE, dest # NoDir}
        /\ overlapped = FALSE
        /\ stranded = FALSE

Goto(w, phase) == pc' = [pc EXCEPT ![w] = phase]

-----------------------------------------------------------------------------
(* mkdtemp: a fresh empty stage; a stage that a crash left is another one. *)
Begin(w) ==
  /\ pc[w] = "idle"
  /\ started < MaxPublications
  /\ started' = started + 1
  /\ stage' = [stage EXCEPT ![w] = started + 1]
  /\ hasBackup' = [hasBackup EXCEPT ![w] = FALSE]
  /\ Goto(w, "populate")
  /\ UNCHANGED <<content, dest, backup, listed, opened, history>>

(* populate(stage) writes the files one after the other.                   *)
Populate(w, f) ==
  /\ pc[w] = "populate"
  /\ f \notin Present(stage[w])
  /\ content' = [content EXCEPT ![stage[w]][f] = stage[w]]
  /\ UNCHANGED <<paths, pc, locals, history>>

(* A mutant: the stage is published although a file was not written.       *)
PopulatedUnchecked(w) ==
  /\ pc[w] = "populate"
  /\ Goto(w, "check")
  /\ UNCHANGED <<content, paths, locals, history>>

(* populate returns.                                                       *)
Populated(w) ==
  /\ pc[w] = "populate"
  /\ Present(stage[w]) = Files
  /\ Goto(w, "check")
  /\ UNCHANGED <<content, paths, locals, history>>

(* destination.exists(), and the removal of an old backup of that name.    *)
CheckDestination(w) ==
  /\ pc[w] = "check"
  /\ \/ /\ dest = NoDir
        /\ Goto(w, "install")
        /\ UNCHANGED backup
     \/ /\ dest # NoDir
        /\ backup' = [backup EXCEPT ![w] = NoDir]
        /\ Goto(w, "move")
  /\ UNCHANGED <<content, dest, stage, locals, history>>

(* The rename of os.replace(destination, backup), or of shutil.move, which *)
(* tries one before it copies.                                             *)
Renamed(w) ==
  /\ pc[w] \in {"move", "shutil"}
  /\ ~Lower
  /\ dest # NoDir
  /\ backup' = [backup EXCEPT ![w] = dest]
  /\ dest' = NoDir
  /\ UNCHANGED <<content, stage, listed, opened, started>>

MoveAside(w) ==
  /\ Renamed(w)
  /\ hasBackup' = [hasBackup EXCEPT ![w] = TRUE]
  /\ Goto(w, "install")
  /\ UNCHANGED history

(* KeyboardInterrupt after the rename and before backup_exists is set: the *)
(* finally clause runs, the restore does not.                              *)
MoveAsideInterrupted(w) ==
  /\ Renamed(w)
  /\ stranded' = TRUE
  /\ Goto(w, "discard")
  /\ UNCHANGED <<hasBackup, layered, overlapped>>

(* EXDEV: shutil.move is called instead.                                   *)
MoveRefused(w) ==
  /\ pc[w] = "move"
  /\ Lower
  /\ Goto(w, "shutil")
  /\ UNCHANGED <<content, paths, locals, history>>

(* Its own rename is refused too; copytree makes the backup and lists what *)
(* is to be copied.                                                        *)
ListLive(w) ==
  /\ pc[w] = "shutil"
  /\ Lower
  /\ backup' = [backup EXCEPT ![w] = -stage[w]]
  /\ listed' = [listed EXCEPT ![w] = Present(dest)]
  /\ overlapped' = (overlapped \/ \E v \in Writers \ {w} : pc[v] \in {"copy", "remove"})
  /\ Goto(w, "copy")
  /\ UNCHANGED <<content, dest, stage, hasBackup, opened, started, layered,
                 stranded>>

(* Each file is copied from whatever directory is at the path by then.     *)
CopyFile(w, f) ==
  /\ pc[w] = "copy"
  /\ f \in listed[w]
  /\ f \in Present(dest)
  /\ content' = [content EXCEPT ![backup[w]][f] = content[dest][f]]
  /\ listed' = [listed EXCEPT ![w] = @ \ {f}]
  /\ UNCHANGED <<paths, pc, hasBackup, opened, started, history>>

(* All is copied: rmtree opens the directory that is at the path.          *)
OpenLive(w) ==
  /\ pc[w] = "copy"
  /\ listed[w] = {}
  /\ dest # NoDir
  /\ opened' = [opened EXCEPT ![w] = dest]
  /\ Goto(w, "remove")
  /\ UNCHANGED <<content, paths, hasBackup, listed, started, history>>

(* It removes the files one by one, also when the directory was renamed    *)
(* after it was opened ...                                                 *)
RemoveFile(w, f) ==
  /\ pc[w] = "remove"
  /\ f \in Present(opened[w])
  /\ content' = [content EXCEPT ![opened[w]][f] = NoFile]
  /\ UNCHANGED <<paths, pc, locals, history>>

(* ... and then the directory that is at the path, if that is empty.       *)
RemoveDirectory(w) ==
  /\ pc[w] = "remove"
  /\ Present(opened[w]) = {}
  /\ dest # NoDir
  /\ Present(dest) = {}
  /\ dest' = NoDir
  /\ UNCHANGED <<content, stage, backup, listed, opened, started>>

RemovedLive(w) ==
  /\ RemoveDirectory(w)
  /\ hasBackup' = [hasBackup EXCEPT ![w] = TRUE]
  /\ Goto(w, "install")
  /\ UNCHANGED history

(* The interrupt before backup_exists is set, after a copy.                *)
RemovedLiveInterrupted(w) ==
  /\ RemoveDirectory(w)
  /\ stranded' = TRUE
  /\ Goto(w, "discard")
  /\ UNCHANGED <<hasBackup, layered, overlapped>>

(* populate raises; or the first rename, because another process moved the *)
(* directory or the file system refuses; or the copy or the removal of the *)
(* live files, half-way or because another writer removed one of them.     *)
(* With backup_exists still False nothing puts them back.                  *)
RaiseEarly(w) ==
  /\ pc[w] \in {"populate", "move", "shutil", "copy", "remove"}
  /\ Goto(w, "discard")
  /\ UNCHANGED <<content, paths, locals, history>>

(* os.replace renames a directory over a missing or an empty one only.     *)
Vacant == Present(dest) = {}

(* A mutant: the files of the stage are copied over what is there.         *)
InstallByCopy(w) ==
  /\ pc[w] = "install"
  /\ dest # NoDir
  /\ \E copied \in SUBSET Files :
       content' = [content EXCEPT ![dest] =
                     [f \in Files |-> IF f \in copied THEN stage[w] ELSE @[f]]]
  /\ Goto(w, "drop")
  /\ UNCHANGED <<paths, locals, history>>

(* os.replace(stage, destination).                                         *)
Install(w) ==
  /\ pc[w] = "install"
  /\ Vacant
  /\ dest' = stage[w]
  /\ stage' = [stage EXCEPT ![w] = NoDir]
  /\ Goto(w, "drop")
  /\ UNCHANGED <<content, backup, locals, history>>

(* A mutant: no handler around the second rename.                          *)
InstallFailsUnhandled(w) ==
  /\ pc[w] = "install"
  /\ Goto(w, "discard")
  /\ UNCHANGED <<content, paths, locals, history>>

(* It raises, because another writer has installed a tree meanwhile or     *)
(* because the file system refuses or a signal arrives.                    *)
InstallFails(w) ==
  /\ pc[w] = "install"
  /\ Goto(w, IF hasBackup[w] THEN "restore" ELSE "discard")
  /\ UNCHANGED <<content, paths, locals, history>>

(* os.replace(backup, destination), the handler of the failed rename.      *)
Restore(w) ==
  /\ pc[w] = "restore"
  /\ Vacant
  /\ dest' = backup[w]
  /\ backup' = [backup EXCEPT ![w] = NoDir]
  /\ Goto(w, "discard")
  /\ UNCHANGED <<content, stage, locals, history>>

(* The restore raises and the backup stays where it is: another writer's   *)
(* tree is in the way, or the file system refuses this rename too.         *)
RestoreFails(w) ==
  /\ pc[w] = "restore"
  /\ stranded' = (stranded \/ Vacant)
  /\ Goto(w, "discard")
  /\ UNCHANGED <<content, paths, locals, layered, overlapped>>

(* shutil.rmtree(backup), which may raise and leave it.                    *)
DropBackup(w) ==
  /\ pc[w] = "drop"
  /\ backup' \in {backup} \cup
       (IF hasBackup[w] THEN {[backup EXCEPT ![w] = NoDir]} ELSE {})
  /\ Goto(w, "discard")
  /\ UNCHANGED <<content, dest, stage, locals, history>>

(* The finally clause: the stage goes, whatever happened.                  *)
Discard(w) ==
  /\ pc[w] = "discard"
  /\ stage' = [stage EXCEPT ![w] = NoDir]
  /\ Goto(w, "idle")
  /\ UNCHANGED <<content, dest, backup, locals, history>>

(* SIGKILL, or the machine stops: no handler runs.                         *)
Crash(w) ==
  /\ pc[w] # "idle"
  /\ stranded' = TRUE
  /\ Goto(w, "idle")
  /\ UNCHANGED <<content, paths, locals, layered, overlapped>>

Step(w) == \/ Begin(w)
           \/ \E f \in Files : Populate(w, f)
           \/ Populated(w)
           \/ CheckDestination(w)
           \/ MoveAside(w)
           \/ MoveAsideInterrupted(w)
           \/ MoveRefused(w)
           \/ ListLive(w)
           \/ \E f \in Files : CopyFile(w, f)
           \/ OpenLive(w)
           \/ \E f \in Files : RemoveFile(w, f)
           \/ RemovedLive(w)
           \/ RemovedLiveInterrupted(w)
           \/ RaiseEarly(w)
           \/ Install(w)
           \/ InstallFails(w)
           \/ Restore(w)
           \/ RestoreFails(w)
           \/ DropBackup(w)
           \/ Discard(w)
           \/ Crash(w)

Next == \E w \in Writers : Step(w)

Spec == Init /\ [][Next]_vars

-----------------------------------------------------------------------------
(* Properties.                                                             *)

(* Where a rename is possible, a reader of the directory finds whole trees *)
(* only, whatever the writers do to each other and wherever they die: the  *)
(* code implements PublishedTree (an empty directory counts as none).  It  *)
(* is not claimed of a directory on a lower layer, which maps to nothing.  *)
Published == INSTANCE PublishedTree
               WITH Trees <- {Whole(n) : n \in Publications},
                    Nothing <- Empty,
                    live <- IF layered \/ dest = NoDir THEN Empty ELSE content[dest]

PublishesWholeTrees == Published!Spec

(* Even on an overlay layer, where shutil.move copies the live files and   *)
(* removes them one by one, the files a reader finds never come from two   *)
(* publications, unless two writers were copying that directory at a time: *)
(* then one of them can copy from, remove from and restore over what the   *)
(* other has published.                                                    *)
OneVintage ==
  ~overlapped =>
    \A f, g \in Present(dest) : content[dest][f] = content[dest][g]

(* A tree that was moved aside is coming back, or is being replaced: the   *)
(* directory is missing only while a writer that holds a backup is about   *)
(* to install or to restore.  Errors of populate, of the move, of the      *)
(* install and of the other writers do not change that; a kill does, and   *)
(* a file system that refuses the restore itself (stranded).               *)
SomebodyHoldsBackup ==
  \E w \in Writers : Present(backup[w]) # {}
SomebodyWillReplace ==
  \E w \in Writers : pc[w] \in {"install", "restore"} /\ hasBackup[w]

NeverLeftAside ==
  dest = NoDir /\ SomebodyHoldsBackup /\ ~stranded => SomebodyWillReplace
=============================================================================
