---------------------------- MODULE BindingObjects ----------------------------
(***************************************************************************)
(* src/src/compileBindings.py: the incremental compilation of the generated*)
(* binding sources.  Each object file has an .identity file beside it, a   *)
(* digest of everything the object was made from (source, command, PCH,    *)
(* dependency, compiler); an object is reused when the digest is the one   *)
(* wanted now.  A pool of workers compiles the files; the main process     *)
(* first removes what no source asks for any more, and reports last.       *)
(*                                                                         *)
(* The digest is collision free here: input[f] is the version of all that  *)
(* goes into the object of f, which may go back to what it was before.     *)
(* Sources and flags change between runs only.                             *)
(***************************************************************************)
EXTENDS Naturals

CONSTANTS Files,       \* the binding sources that may be generated
          Workers,     \* the processes of the pool
          Absent,      \* no file
          Free,        \* no file taken
          MaxVersion,  \* bound on the versions of an input
          MaxEvents    \* bound on the kills and the changes between runs

ASSUME SentinelAssumption == Absent \notin Nat /\ Free \notin Files
ASSUME BoundAssumption == MaxVersion \in Nat /\ MaxEvents \in Nat

VARIABLES input,   \* the version of what goes into each object
          present, \* the sources in build/bindings
          object,  \* the version each object file was made from
          stamp,   \* the version each .identity file names
          orphans, \* history: objects put in place by a run that was ended
                   \* before it wrote their identity, and that no identity
                   \* was written or removed for since
          pc,      \* where the main process is
          listed,  \* identity files of dropped sources the walk has listed
          todo,    \* the files the pool has not handed out
          job,     \* the file each worker is at
          step,    \* and how far it has got
          report,  \* the objects of binding-report.json
          ended,   \* how the last run ended, if nothing changed since
          events   \* how many kills and changes so far

files == <<object, stamp, orphans>>
pool == <<todo, job, step>>
vars == <<input, present, files, pc, listed, pool, report, ended, events>>

-----------------------------------------------------------------------------
Versions == 0 .. MaxVersion

TypeOK ==
  /\ input \in [Files -> Versions]
  /\ present \subseteq Files
  /\ object \in [Files -> Versions \cup {Absent}]
  /\ stamp \in [Files -> Versions \cup {Absent}]
  /\ orphans \subseteq Files
  /\ pc \in {"idle", "prune", "compile"}
  /\ listed \subseteq Files
  /\ todo \subseteq Files
  /\ job \in [Workers -> Files \cup {Free}]
  /\ step \in [Workers -> {"check", "stamp", "unlink"}]
  /\ report \subseteq Files
  /\ ended \in {"no", "reported", "raised", "killed"}
  /\ events \in 0 .. MaxEvents

Init ==
  /\ input = [f \in Files |-> 0]
  /\ present \in SUBSET Files
  /\ object = [f \in Files |-> Absent]
  /\ stamp = [f \in Files |-> Absent]
  /\ orphans = {}
  /\ pc = "idle"
  /\ listed = {}
  /\ todo = {}
  /\ job = [w \in Workers |-> Free]
  /\ step = [w \in Workers |-> "check"]
  /\ report = {}
  /\ ended = "no"
  /\ events = 0

(* object_needs_build                                                      *)
NeedsBuild(f) == object[f] = Absent \/ stamp[f] # input[f]

Dropped == Files \ present

-----------------------------------------------------------------------------
(* The main process lists the sources and walks the compiled objects.      *)
Start ==
  /\ pc = "idle"
  /\ pc' = "prune"
  /\ todo' = present
  /\ listed' = {f \in Dropped : stamp[f] # Absent}
  /\ ended' = "no"
  /\ UNCHANGED <<input, present, files, job, step, report, events>>

(* The object of a dropped source goes, and its identity file with it; a   *)
(* kill can come between the two.                                          *)
PruneObject(f) ==
  /\ pc = "prune"
  /\ f \in Dropped
  /\ object[f] # Absent
  /\ object' = [object EXCEPT ![f] = Absent]
  /\ stamp' = [stamp EXCEPT ![f] = Absent]
  /\ orphans' = orphans \ {f}
  /\ UNCHANGED <<input, present, pc, listed, pool, report, ended, events>>

(* The walk comes to an identity file it has listed, whose name sorts just *)
(* after its object's.  os.remove raises when the file is gone.            *)
PruneStamp(f) ==
  /\ pc = "prune"
  /\ f \in listed
  /\ object[f] = Absent
  /\ listed' = listed \ {f}
  /\ stamp' = [stamp EXCEPT ![f] = Absent]
  /\ orphans' = orphans \ {f}
  /\ IF stamp[f] # Absent
     THEN UNCHANGED <<pc, ended>>
     ELSE pc' = "idle" /\ ended' = "raised"
  /\ UNCHANGED <<input, present, object, pool, report, events>>

Pruned ==
  /\ pc = "prune"
  /\ listed = {}
  /\ \A f \in Dropped : object[f] = Absent
  /\ job' = [w \in Workers |-> Free]
  /\ pc' = "compile"
  /\ UNCHANGED <<input, present, files, listed, todo, step, report, ended,
                 events>>

-----------------------------------------------------------------------------

(* buildOneFile, in a worker of the pool.                                  *)
Take(w, f) ==
  /\ pc = "compile"
  /\ job[w] = Free
  /\ f \in todo
  /\ todo' = todo \ {f}
  /\ job' = [job EXCEPT ![w] = f]
  /\ step' = [step EXCEPT ![w] = "check"]
  /\ UNCHANGED <<input, present, files, pc, listed, report, ended, events>>

At(w, s) == pc = "compile" /\ job[w] # Free /\ step[w] = s

Release(w) == job' = [job EXCEPT ![w] = Free]

Cached(w) ==
  /\ At(w, "check")
  /\ ~NeedsBuild(job[w])
  /\ Release(w)
  /\ UNCHANGED <<input, present, files, pc, listed, todo, step, report, ended,
                 events>>

(* compile_atomic: the compiler writes a temporary file, which takes the   *)
(* place of the object when it has succeeded ...                           *)
Compile(w) ==
  /\ At(w, "check")
  /\ NeedsBuild(job[w])
  /\ object' = [object EXCEPT ![job[w]] = input[job[w]]]
  /\ step' = [step EXCEPT ![w] = "stamp"]
  /\ UNCHANGED <<input, present, stamp, orphans, pc, listed, todo, job, report,
                 ended, events>>

(* ... and only then _write_identity says what it was made from.           *)
WriteIdentity(w) ==
  /\ At(w, "stamp")
  /\ stamp' = [stamp EXCEPT ![job[w]] = input[job[w]]]
  /\ orphans' = orphans \ {job[w]}
  /\ Release(w)
  /\ UNCHANGED <<input, present, object, pc, listed, todo, step, report, ended,
                 events>>

(* Mutant: a failed compilation leaves the previous object.                *)
CompileFailsKeeping(w) ==
  /\ At(w, "check")
  /\ NeedsBuild(job[w])
  /\ Release(w)
  /\ UNCHANGED <<input, present, files, pc, listed, todo, step, report, ended,
                 events>>

(* Not all classes compile: the object of an earlier input goes, then its  *)
(* identity file.                                                          *)
CompileFails(w) ==
  /\ At(w, "check")
  /\ NeedsBuild(job[w])
  /\ object' = [object EXCEPT ![job[w]] = Absent]
  /\ step' = [step EXCEPT ![w] = "unlink"]
  /\ UNCHANGED <<input, present, stamp, orphans, pc, listed, todo, job, report,
                 ended, events>>

(* Mutant: the unlink raises when there is no identity file to remove.      *)
UnlinkIdentityStrictly(w) ==
  /\ At(w, "unlink")
  /\ stamp' = [stamp EXCEPT ![job[w]] = Absent]
  /\ orphans' = orphans \ {job[w]}
  /\ Release(w)
  /\ IF stamp[job[w]] = Absent
     THEN pc' = "idle" /\ ended' = "raised"
     ELSE UNCHANGED <<pc, ended>>
  /\ UNCHANGED <<input, present, object, listed, todo, step, report, events>>

UnlinkIdentity(w) ==
  /\ At(w, "unlink")
  /\ stamp' = [stamp EXCEPT ![job[w]] = Absent]
  /\ orphans' = orphans \ {job[w]}
  /\ Release(w)
  /\ UNCHANGED <<input, present, object, pc, listed, todo, step, report, ended,
                 events>>

(* The pool is done: the report lists the objects there are.               *)
Report ==
  /\ pc = "compile"
  /\ todo = {}
  /\ \A w \in Workers : job[w] = Free
  /\ report' = {f \in present : object[f] # Absent}
  /\ pc' = "idle"
  /\ ended' = "reported"
  /\ UNCHANGED <<input, present, files, listed, pool, events>>

-----------------------------------------------------------------------------
Event == events < MaxEvents /\ events' = events + 1

(* The run is killed, or a file operation of a worker raises, which ends   *)
(* the pool: in the middle of any of the above.                            *)
Kill ==
  /\ Event
  /\ pc # "idle"
  /\ pc' = "idle"
  /\ ended' = "killed"
  /\ orphans' = orphans \cup {job[w] : w \in {v \in Workers : At(v, "stamp")}}
  /\ \/ UNCHANGED <<object, stamp>>
     \/ \E f \in Dropped :
          /\ pc = "prune"
          /\ object' = [object EXCEPT ![f] = Absent]
          /\ UNCHANGED stamp
  /\ UNCHANGED <<input, present, listed, pool, report>>

(* Between runs the generator adds and drops sources, and sources, flags,  *)
(* headers and tools change, or go back to what they were.                 *)
Regenerate(sources) ==
  /\ Event
  /\ pc = "idle"
  /\ present' = sources
  /\ ended' = "no"
  /\ UNCHANGED <<input, files, pc, listed, pool, report>>

Change(f, version) ==
  /\ Event
  /\ pc = "idle"
  /\ version # input[f]
  /\ input' = [input EXCEPT ![f] = version]
  /\ ended' = "no"
  /\ UNCHANGED <<present, files, pc, listed, pool, report>>

Run ==
  \/ Start
  \/ \E f \in Files : PruneObject(f)
  \/ \E f \in Files : PruneStamp(f)
  \/ Pruned
  \/ \E w \in Workers, f \in Files : Take(w, f)
  \/ \E w \in Workers : Cached(w)
  \/ \E w \in Workers : Compile(w)
  \/ \E w \in Workers : WriteIdentity(w)
  \/ \E w \in Workers : CompileFails(w)
  \/ \E w \in Workers : UnlinkIdentity(w)
  \/ Report

Outside ==
  \/ Kill
  \/ \E sources \in SUBSET Files : Regenerate(sources)
  \/ \E f \in Files, version \in Versions : Change(f, version)

Next == Run \/ Outside

Spec == Init /\ [][Next]_vars

(* Whoever needs the objects starts the run again until it has reported;   *)
(* the workers are processes that the system schedules.                    *)
FairSpec == Spec /\ WF_vars(Run)

-----------------------------------------------------------------------------
(* Properties.                                                             *)

(* After a run that got to its report, the objects on disk are those of    *)
(* the sources there are, made from what is there now, and the report      *)
(* lists exactly them: neither a dropped source, nor a compilation that    *)
(* failed, nor a run that was killed leaves an old object for the linker.  *)
(* The one exception: an orphan whose inputs went back to those that its   *)
(* identity file still names (see StaleObjectsAreRebuilt).                 *)
ReportedObjectsAreCurrent ==
  ended = "reported" =>
    /\ report = {f \in Files : object[f] # Absent}
    /\ report \subseteq present
    /\ \A f \in report : object[f] = input[f] \/ f \in orphans

(* Not so: what compileBindings.py:68-70 says of the cache, "any .o file   *)
(* [...] compiled with different flags (e.g. EXC=0 vs EXC=1) [...] must be *)
(* rebuilt". When the flags go back to those that the identity file of an  *)
(* orphan names, the object of the other flags is taken for cached, and    *)
(* TLC finds this violated.                                                *)
StaleObjectsAreRebuilt ==
  ended = "reported" => \A f \in report : object[f] = input[f]

(* Two workers never write the same object.                                *)
OneWorkerPerFile ==
  pc = "compile" =>
    \A v, w \in Workers :
      v # w /\ job[v] # Free => job[v] # job[w] /\ job[v] \notin todo

(* When the changes and the kills stop, some run reports: each run that    *)
(* PruneStamp stops has removed an object that the next one will not find. *)
EventuallyReported == []<>(ended = "reported")
=============================================================================
