--------------------------- MODULE CompilationProofs ---------------------------
(***************************************************************************)
(* Proofs about the compilation of the bindings, in two parts.             *)
(*                                                                         *)
(* BindingObjects, for every set of sources and of workers and any number  *)
(* of kills: the objects of a run that reported are current, but for an    *)
(* orphan of a killed run whose inputs went back.                          *)
(*                                                                         *)
(* BuildFlags, for every set of flag configurations, sources and command   *)
(* lines: what a record of the flags keeps apart.                          *)
(***************************************************************************)
EXTENDS BindingObjects, BuildFlags, TLAPS

-----------------------------------------------------------------------------
(* BindingObjects.                                                         *)

(* The pool hands a file to one worker, and only files that are present.   *)
PoolInv ==
  /\ pc = "prune" => todo = present
  /\ pc = "compile" =>
    /\ todo \subseteq present
    /\ \A w \in Workers : job[w] # Free => job[w] \in present \ todo
    /\ \A v, w \in Workers : v # w /\ job[v] # Free => job[v] # job[w]

(* What an identity file names, the object beside it was made from; except *)
(* while a worker is between the two, and of what a killed worker left.    *)
Unsigned(f) == \E w \in Workers : At(w, "stamp") /\ job[w] = f

StampInv ==
  \A f \in Files \ orphans :
    ~ Unsigned(f) /\ stamp[f] # Absent => object[f] \in {Absent, stamp[f]}

(* What each worker has done so far is on disk.                            *)
StepInv ==
  pc = "compile" =>
    \A w \in Workers :
      job[w] # Free =>
        /\ step[w] = "stamp" => object[job[w]] = input[job[w]]
        /\ step[w] = "unlink" => object[job[w]] = Absent

(* Objects that no worker will look at any more are right.                 *)
Handled(f) == f \notin todo /\ \A w \in Workers : job[w] # f

DoneInv ==
  /\ pc # "idle" => ended # "reported"
  /\ pc = "compile" =>
       /\ \A f \in Dropped : object[f] = Absent
       /\ \A f \in present \ orphans :
            Handled(f) => object[f] \in {Absent, input[f]}

Base == TypeOK /\ PoolInv

Inv == Base /\ StampInv /\ StepInv /\ DoneInv
       /\ ReportedObjectsAreCurrent

-----------------------------------------------------------------------------
LEMMA InvInitial == Init => Inv
BY SentinelAssumption, BoundAssumption
   DEF Init, Inv, Base, TypeOK, PoolInv, StampInv, StepInv, DoneInv, Versions,
       ReportedObjectsAreCurrent

LEMMA TypesPreserved ==
  ASSUME Base, [Next]_vars
  PROVE  TypeOK'
<1> USE SentinelAssumption, BoundAssumption
    DEF Base, TypeOK, PoolInv, Versions, Dropped
<1>1. CASE UNCHANGED vars
  BY <1>1 DEF vars, files, pool
<1>2. ASSUME Start PROVE TypeOK'
  BY <1>2 DEF Start, files, pool
<1>3. ASSUME NEW f \in Files, PruneObject(f) PROVE TypeOK'
  BY <1>3 DEF PruneObject, files, pool
<1>4. ASSUME NEW f \in Files, PruneStamp(f) PROVE TypeOK'
  BY <1>4 DEF PruneStamp, files, pool
<1>5. ASSUME Pruned PROVE TypeOK'
  BY <1>5 DEF Pruned, files, pool
<1>6. ASSUME NEW w \in Workers, NEW f \in Files, Take(w, f) PROVE TypeOK'
  BY <1>6 DEF Take, files, pool
<1>7. ASSUME NEW w \in Workers, Cached(w) PROVE TypeOK'
  BY <1>7 DEF Cached, files, pool, At, Release
<1>8. ASSUME NEW w \in Workers, Compile(w) PROVE TypeOK'
  BY <1>8 DEF Compile, files, pool, At, Release
<1>9. ASSUME NEW w \in Workers, WriteIdentity(w) PROVE TypeOK'
  BY <1>9 DEF WriteIdentity, files, pool, At, Release
<1>10. ASSUME NEW w \in Workers, CompileFails(w) PROVE TypeOK'
  BY <1>10 DEF CompileFails, files, pool, At, Release
<1>11. ASSUME NEW w \in Workers, UnlinkIdentity(w) PROVE TypeOK'
  BY <1>11 DEF UnlinkIdentity, files, pool, At, Release
<1>12. ASSUME Report PROVE TypeOK'
  BY <1>12 DEF Report, files, pool
<1>13. ASSUME Kill PROVE TypeOK'
  BY <1>13 DEF Kill, At, files, pool, Event
<1>14. ASSUME NEW sources \in SUBSET Files, Regenerate(sources) PROVE TypeOK'
  BY <1>14 DEF Regenerate, files, pool, Event
<1>15. ASSUME NEW f \in Files, NEW version \in Versions, Change(f, version)
       PROVE  TypeOK'
  BY <1>15 DEF Change, files, pool, Event
<1>16. QED
  BY <1>1, <1>2, <1>3, <1>4, <1>5, <1>6, <1>7, <1>8, <1>9,
     <1>10, <1>11, <1>12, <1>13, <1>14, <1>15 DEF Next, Run, Outside

LEMMA PoolPreserved ==
  ASSUME Base, [Next]_vars
  PROVE  PoolInv'
<1> USE SentinelAssumption, BoundAssumption
    DEF Base, TypeOK, PoolInv
<1>1. CASE UNCHANGED vars
  BY <1>1 DEF vars, files, pool
<1>2. ASSUME Start PROVE PoolInv'
  BY <1>2 DEF Start, files, pool
<1>3. ASSUME NEW f \in Files, PruneObject(f) PROVE PoolInv'
  BY <1>3 DEF PruneObject, files, pool
<1>4. ASSUME NEW f \in Files, PruneStamp(f) PROVE PoolInv'
  BY <1>4 DEF PruneStamp, files, pool
<1>5. ASSUME Pruned PROVE PoolInv'
  BY <1>5 DEF Pruned, files, pool
<1>6. ASSUME NEW w \in Workers, NEW f \in Files, Take(w, f) PROVE PoolInv'
  BY <1>6 DEF Take, files, pool
<1>7. ASSUME NEW w \in Workers, Cached(w) PROVE PoolInv'
  BY <1>7 DEF Cached, files, pool, At, Release
<1>8. ASSUME NEW w \in Workers, Compile(w) PROVE PoolInv'
  BY <1>8 DEF Compile, files, pool, At, Release
<1>9. ASSUME NEW w \in Workers, WriteIdentity(w) PROVE PoolInv'
  BY <1>9 DEF WriteIdentity, files, pool, At, Release
<1>10. ASSUME NEW w \in Workers, CompileFails(w) PROVE PoolInv'
  BY <1>10 DEF CompileFails, files, pool, At, Release
<1>11. ASSUME NEW w \in Workers, UnlinkIdentity(w) PROVE PoolInv'
  BY <1>11 DEF UnlinkIdentity, files, pool, At, Release
<1>12. ASSUME Report PROVE PoolInv'
  BY <1>12 DEF Report, files, pool
<1>13. ASSUME Kill PROVE PoolInv'
  BY <1>13 DEF Kill, At, files, pool, Event
<1>14. ASSUME NEW sources \in SUBSET Files, Regenerate(sources) PROVE PoolInv'
  BY <1>14 DEF Regenerate, files, pool, Event
<1>15. ASSUME NEW f \in Files, NEW version \in Versions, Change(f, version)
       PROVE  PoolInv'
  BY <1>15 DEF Change, files, pool, Event
<1>16. QED
  BY <1>1, <1>2, <1>3, <1>4, <1>5, <1>6, <1>7, <1>8, <1>9,
     <1>10, <1>11, <1>12, <1>13, <1>14, <1>15 DEF Next, Run, Outside

LEMMA StampPreserved ==
  ASSUME Inv, [Next]_vars
  PROVE  StampInv'
<1> USE SentinelAssumption, BoundAssumption
    DEF Inv, Base, TypeOK, PoolInv, StampInv, StepInv, Unsigned, At, Versions,
        NeedsBuild, Dropped
<1>1. CASE UNCHANGED vars
  BY <1>1 DEF vars, files, pool
<1>2. ASSUME Start PROVE StampInv'
  BY <1>2 DEF Start, files, pool
<1>3. ASSUME NEW f \in Files, PruneObject(f) PROVE StampInv'
  BY <1>3 DEF PruneObject, files, pool
<1>4. ASSUME NEW f \in Files, PruneStamp(f) PROVE StampInv'
  BY <1>4 DEF PruneStamp, files, pool
<1>5. ASSUME Pruned PROVE StampInv'
  BY <1>5 DEF Pruned, files, pool
<1>6. ASSUME NEW w \in Workers, NEW f \in Files, Take(w, f) PROVE StampInv'
  BY <1>6 DEF Take, files, pool
<1>7. ASSUME NEW w \in Workers, Cached(w) PROVE StampInv'
  BY <1>7 DEF Cached, files, pool, At, Release
<1>8. ASSUME NEW w \in Workers, Compile(w) PROVE StampInv'
  BY <1>8 DEF Compile, files, pool, At, Release
<1>9. ASSUME NEW w \in Workers, WriteIdentity(w) PROVE StampInv'
  BY <1>9 DEF WriteIdentity, files, pool, At, Release
<1>10. ASSUME NEW w \in Workers, CompileFails(w) PROVE StampInv'
  BY <1>10 DEF CompileFails, files, pool, At, Release
<1>11. ASSUME NEW w \in Workers, UnlinkIdentity(w) PROVE StampInv'
  BY <1>11 DEF UnlinkIdentity, files, pool, At, Release
<1>12. ASSUME Report PROVE StampInv'
  BY <1>12 DEF Report, files, pool
<1>13. ASSUME Kill PROVE StampInv'
  BY <1>13 DEF Kill, At, files, pool, Event
<1>14. ASSUME NEW sources \in SUBSET Files, Regenerate(sources)
       PROVE  StampInv'
  BY <1>14 DEF Regenerate, files, pool, Event
<1>15. ASSUME NEW f \in Files, NEW version \in Versions, Change(f, version)
       PROVE  StampInv'
  BY <1>15 DEF Change, files, pool, Event
<1>16. QED
  BY <1>1, <1>2, <1>3, <1>4, <1>5, <1>6, <1>7, <1>8, <1>9,
     <1>10, <1>11, <1>12, <1>13, <1>14, <1>15 DEF Next, Run, Outside

LEMMA StepPreserved ==
  ASSUME Inv, [Next]_vars
  PROVE  StepInv'
<1> USE SentinelAssumption, BoundAssumption
    DEF Inv, Base, TypeOK, PoolInv, StepInv
<1>1. CASE UNCHANGED vars
  BY <1>1 DEF vars, files, pool
<1>2. ASSUME Start PROVE StepInv'
  BY <1>2 DEF Start, files, pool
<1>3. ASSUME NEW f \in Files, PruneObject(f) PROVE StepInv'
  BY <1>3 DEF PruneObject, files, pool
<1>4. ASSUME NEW f \in Files, PruneStamp(f) PROVE StepInv'
  BY <1>4 DEF PruneStamp, files, pool
<1>5. ASSUME Pruned PROVE StepInv'
  BY <1>5 DEF Pruned, files, pool
<1>6. ASSUME NEW w \in Workers, NEW f \in Files, Take(w, f) PROVE StepInv'
  BY <1>6 DEF Take, files, pool
<1>7. ASSUME NEW w \in Workers, Cached(w) PROVE StepInv'
  BY <1>7 DEF Cached, files, pool, At, Release
<1>8. ASSUME NEW w \in Workers, Compile(w) PROVE StepInv'
  BY <1>8 DEF Compile, files, pool, At, Release
<1>9. ASSUME NEW w \in Workers, WriteIdentity(w) PROVE StepInv'
  BY <1>9 DEF WriteIdentity, files, pool, At, Release
<1>10. ASSUME NEW w \in Workers, CompileFails(w) PROVE StepInv'
  BY <1>10 DEF CompileFails, files, pool, At, Release
<1>11. ASSUME NEW w \in Workers, UnlinkIdentity(w) PROVE StepInv'
  BY <1>11 DEF UnlinkIdentity, files, pool, At, Release
<1>12. ASSUME Report PROVE StepInv'
  BY <1>12 DEF Report, files, pool
<1>13. ASSUME Kill PROVE StepInv'
  BY <1>13 DEF Kill, At, files, pool, Event
<1>14. ASSUME NEW sources \in SUBSET Files, Regenerate(sources) PROVE StepInv'
  BY <1>14 DEF Regenerate, files, pool, Event
<1>15. ASSUME NEW f \in Files, NEW version \in Versions, Change(f, version)
       PROVE  StepInv'
  BY <1>15 DEF Change, files, pool, Event
<1>16. QED
  BY <1>1, <1>2, <1>3, <1>4, <1>5, <1>6, <1>7, <1>8, <1>9,
     <1>10, <1>11, <1>12, <1>13, <1>14, <1>15 DEF Next, Run, Outside

LEMMA DonePreserved ==
  ASSUME Inv, [Next]_vars
  PROVE  DoneInv'
<1> USE SentinelAssumption, BoundAssumption
    DEF Inv, Base, TypeOK, PoolInv, StampInv, StepInv, DoneInv, Handled,
        Dropped, NeedsBuild, Versions
<1>1. CASE UNCHANGED vars
  BY <1>1 DEF vars, files, pool
<1>2. ASSUME Start PROVE DoneInv'
  BY <1>2 DEF Start, files, pool
<1>3. ASSUME NEW f \in Files, PruneObject(f) PROVE DoneInv'
  BY <1>3 DEF PruneObject, files, pool
<1>4. ASSUME NEW f \in Files, PruneStamp(f) PROVE DoneInv'
  BY <1>4 DEF PruneStamp, files, pool
<1>5. ASSUME Pruned PROVE DoneInv'
  BY <1>5 DEF Pruned, files, pool
<1>6. ASSUME NEW w \in Workers, NEW f \in Files, Take(w, f) PROVE DoneInv'
  BY <1>6 DEF Take, files, pool
<1>7. ASSUME NEW w \in Workers, Cached(w) PROVE DoneInv'
  <2>1. job[w] \in Files /\ ~ Unsigned(job[w])
    BY <1>7 DEF Cached, At, Unsigned
  <2>2. stamp[job[w]] = input[job[w]] /\ stamp[job[w]] # Absent
    BY <1>7, <2>1 DEF Cached
  <2>3. job[w] \notin orphans => object[job[w]] \in {Absent, input[job[w]]}
    BY <2>1, <2>2
  <2>4. QED
    BY <1>7, <2>3 DEF Cached, files, pool, At, Release
<1>8. ASSUME NEW w \in Workers, Compile(w) PROVE DoneInv'
  BY <1>8 DEF Compile, files, pool, At, Release
<1>9. ASSUME NEW w \in Workers, WriteIdentity(w) PROVE DoneInv'
  BY <1>9 DEF WriteIdentity, files, pool, At, Release
<1>10. ASSUME NEW w \in Workers, CompileFails(w) PROVE DoneInv'
  BY <1>10 DEF CompileFails, files, pool, At, Release
<1>11. ASSUME NEW w \in Workers, UnlinkIdentity(w) PROVE DoneInv'
  BY <1>11 DEF UnlinkIdentity, files, pool, At, Release
<1>12. ASSUME Report PROVE DoneInv'
  BY <1>12 DEF Report, files, pool
<1>13. ASSUME Kill PROVE DoneInv'
  BY <1>13 DEF Kill, At, files, pool, Event
<1>14. ASSUME NEW sources \in SUBSET Files, Regenerate(sources) PROVE DoneInv'
  BY <1>14 DEF Regenerate, files, pool, Event
<1>15. ASSUME NEW f \in Files, NEW version \in Versions, Change(f, version)
       PROVE  DoneInv'
  BY <1>15 DEF Change, files, pool, Event
<1>16. QED
  BY <1>1, <1>2, <1>3, <1>4, <1>5, <1>6, <1>7, <1>8, <1>9,
     <1>10, <1>11, <1>12, <1>13, <1>14, <1>15 DEF Next, Run, Outside

LEMMA ReportPreserved ==
  ASSUME Inv, [Next]_vars
  PROVE  ReportedObjectsAreCurrent'
<1> USE SentinelAssumption, BoundAssumption
    DEF Inv, Base, TypeOK, PoolInv, DoneInv, Handled, Dropped, Versions,
        ReportedObjectsAreCurrent
<1>1. CASE UNCHANGED vars
  BY <1>1 DEF vars, files, pool
<1>2. ASSUME Start PROVE ReportedObjectsAreCurrent'
  BY <1>2 DEF Start, files, pool
<1>3. ASSUME NEW f \in Files, PruneObject(f) PROVE ReportedObjectsAreCurrent'
  BY <1>3 DEF PruneObject, files, pool
<1>4. ASSUME NEW f \in Files, PruneStamp(f) PROVE ReportedObjectsAreCurrent'
  BY <1>4 DEF PruneStamp, files, pool
<1>5. ASSUME Pruned PROVE ReportedObjectsAreCurrent'
  BY <1>5 DEF Pruned, files, pool
<1>6. ASSUME NEW w \in Workers, NEW f \in Files, Take(w, f)
       PROVE  ReportedObjectsAreCurrent'
  BY <1>6 DEF Take, files, pool
<1>7. ASSUME NEW w \in Workers, Cached(w) PROVE ReportedObjectsAreCurrent'
  BY <1>7 DEF Cached, files, pool, At, Release
<1>8. ASSUME NEW w \in Workers, Compile(w) PROVE ReportedObjectsAreCurrent'
  BY <1>8 DEF Compile, files, pool, At, Release
<1>9. ASSUME NEW w \in Workers, WriteIdentity(w)
       PROVE  ReportedObjectsAreCurrent'
  BY <1>9 DEF WriteIdentity, files, pool, At, Release
<1>10. ASSUME NEW w \in Workers, CompileFails(w)
       PROVE  ReportedObjectsAreCurrent'
  BY <1>10 DEF CompileFails, files, pool, At, Release
<1>11. ASSUME NEW w \in Workers, UnlinkIdentity(w)
       PROVE  ReportedObjectsAreCurrent'
  BY <1>11 DEF UnlinkIdentity, files, pool, At, Release
<1>12. ASSUME Report PROVE ReportedObjectsAreCurrent'
  BY <1>12 DEF Report, files, pool
<1>13. ASSUME Kill PROVE ReportedObjectsAreCurrent'
  BY <1>13 DEF Kill, At, files, pool, Event
<1>14. ASSUME NEW sources \in SUBSET Files, Regenerate(sources)
       PROVE  ReportedObjectsAreCurrent'
  BY <1>14 DEF Regenerate, files, pool, Event
<1>15. ASSUME NEW f \in Files, NEW version \in Versions, Change(f, version)
       PROVE  ReportedObjectsAreCurrent'
  BY <1>15 DEF Change, files, pool, Event
<1>16. QED
  BY <1>1, <1>2, <1>3, <1>4, <1>5, <1>6, <1>7, <1>8, <1>9,
     <1>10, <1>11, <1>12, <1>13, <1>14, <1>15 DEF Next, Run, Outside


(* Type correctness, and the bookkeeping of the pool.                      *)
THEOREM BaseInvariance == Spec => []Base
<1>1. Init => Base
  BY InvInitial DEF Inv
<1>2. Base /\ [Next]_vars => Base'
  BY TypesPreserved, PoolPreserved DEF Base
<1>3. QED
  BY <1>1, <1>2, PTL DEF Spec

THEOREM Invariance == Spec => []Inv
<1>1. Inv /\ [Next]_vars => Inv'
  <2> SUFFICES ASSUME Inv, [Next]_vars PROVE Inv'
    OBVIOUS
  <2>1. Base'
    BY TypesPreserved, PoolPreserved DEF Base, Inv
  <2>2. StampInv' /\ StepInv' /\ DoneInv' /\ ReportedObjectsAreCurrent'
    BY StampPreserved, StepPreserved, DonePreserved, ReportPreserved
  <2>3. QED
    BY <2>1, <2>2 DEF Inv
<1>2. QED
  BY InvInitial, <1>1, PTL DEF Spec

(* Whatever was killed or changed before, back and forth, a run that got   *)
(* to its report leaves the objects of the present sources only, reports   *)
(* those, and they are of the present inputs; but for the orphans that     *)
(* their old identity files had it take for cached.                        *)
THEOREM ReportedAreCurrent == Spec => []ReportedObjectsAreCurrent
<1>1. Inv => ReportedObjectsAreCurrent
  BY DEF Inv
<1>2. QED
  BY <1>1, Invariance, PTL

(* No two workers of the pool are ever at the same file.                   *)
THEOREM WorkersAreDisjoint == Spec => []OneWorkerPerFile
<1>1. Base => OneWorkerPerFile
  BY DEF Base, PoolInv, OneWorkerPerFile
<1>2. QED
  BY <1>1, BaseInvariance, PTL

(* Every variable keeps its type.                                          *)
THEOREM TypeCorrect == Spec => []TypeOK
<1>1. Base => TypeOK
  BY DEF Base
<1>2. QED
  BY <1>1, BaseInvariance, PTL

-----------------------------------------------------------------------------
(* BuildFlags.                                                             *)

(* While the pool or the linker works the flags agree; each phase belongs  *)
(* to its command.                                                         *)
PhaseInv ==
  /\ phase \in {"pool", "emcc"} => Agrees
  /\ phase # "idle" => line \in Lines
  /\ phase \in {"build", "record", "pool", "emcc"} => at \in DOMAIN line
  /\ phase \in {"build", "record"} => line[at] = "pch"
  /\ phase = "pool" => line[at] \in Compiles
  /\ phase = "emcc" => line[at] = "link"

(* After a pch of this invocation the record and the header are its own.   *)
HeaderInv ==
  phase # "idle" =>
    /\ Earlier(line, at, {"pch"}) # {} =>
         recorded = env /\ pch \in {env, NoFlags}
    /\ phase = "record" => pch = env

(* What the pool has not signed yet is of its own flags; and what an       *)
(* identity file names, the object beside it was compiled with, but for    *)
(* the strays.                                                             *)
SignInv ==
  /\ unsigned # {} => phase = "pool"
  /\ unsigned \cap pending = {}
  /\ \A s \in unsigned : objects[s] \in {{}, Compiled}
  /\ \A s \in Sources \ (strays \cup unsigned) :
       identities[s] # NoIdentity =>
         objects[s] \in {{}, FlagsIn(identities[s])}

(* After a pch and a compilation, so are the objects.                      *)
Recompiled(s) ==
  \/ \E j \in Earlier(line, at, Compiles) :
             Earlier(line, j, {"pch"}) # {}
  \/ /\ phase = "pool" /\ s \notin pending
     /\ Earlier(line, at, {"pch"}) # {}

ObjectsInv ==
  phase # "idle" =>
    \A s \in Sources \ strays : Recompiled(s) => objects[s] \subseteq {env}

(* After a pch and a build of the libraries, so are the libraries.         *)
LibrariesInv ==
  phase # "idle" =>
    ((\E j \in Earlier(line, at, Archives) :
        Earlier(line, j, {"pch"}) # {})
       => libraries = env)

LineBase == LineTypeOK /\ PhaseInv

LineInv == LineBase /\ HeaderInv /\ SignInv /\ ObjectsInv /\ LibrariesInv

-----------------------------------------------------------------------------
LEMMA LineInvInitial == LineInit => LineInv
<1>1. <<>> \in Seq(Commands)
  OBVIOUS
<1>2. LineInit => LineTypeOK
  <2>1. LineInit => line \in Seq(Commands)
    BY <1>1, Zenon DEF LineInit
  <2>2. LineInit => objects \in [Sources -> SUBSET Flags] /\ at \in Nat
    BY DEF LineInit
  <2>3. LineInit => /\ identities \in [Sources -> (Flags \cup {NoFlags})
                                                    \X (Flags \cup {NoFlags})]
                    /\ unsigned \in SUBSET Sources
                    /\ strays \in SUBSET Sources
    BY DEF LineInit, NoIdentity
  <2>4. LineInit => pending \in SUBSET Sources /\ linked \in SUBSET Flags
    BY DEF LineInit
  <2>5. QED
    BY <2>1, <2>2, <2>3, <2>4 DEF LineInit, LineTypeOK
<1>3. LineInit => PhaseInv /\ HeaderInv /\ ObjectsInv /\ LibrariesInv
  BY DEF LineInit, PhaseInv, HeaderInv, ObjectsInv, LibrariesInv
<1>4. LineInit => SignInv
  BY DEF LineInit, SignInv
<1>5. QED
  BY <1>2, <1>3, <1>4 DEF LineInv, LineBase

LEMMA LineTypesPreserved ==
  ASSUME LineTypeOK, [LineNext]_lineVars
  PROVE  LineTypeOK'
<1> USE FlagsAssumption, LinesAssumption
    DEF LineTypeOK, Compiled, FlagsIn, Identity, NoIdentity
<1>1. CASE UNCHANGED lineVars
  BY <1>1 DEF lineVars, artifacts, cache
<1>2. ASSUME NEW f \in Flags, NEW l \in Lines, Invoke(f, l)
      PROVE  LineTypeOK'
  BY <1>2 DEF Invoke, artifacts, cache
<1>3. ASSUME Other PROVE LineTypeOK'
  BY <1>3 DEF Other, artifacts, cache, Doing, NextCommand
<1>4. ASSUME RemovePch PROVE LineTypeOK'
  BY <1>4 DEF RemovePch, artifacts, cache, Doing
<1>5. ASSUME BuildPch PROVE LineTypeOK'
  BY <1>5 DEF BuildPch, artifacts, cache
<1>6. ASSUME RecordFlags PROVE LineTypeOK'
  BY <1>6 DEF RecordFlags, artifacts, cache, NextCommand
<1>7. ASSUME PassOver PROVE LineTypeOK'
  BY <1>7 DEF PassOver, artifacts, cache, Doing, NextCommand
<1>8. ASSUME StartPool PROVE LineTypeOK'
  BY <1>8 DEF StartPool, artifacts, cache, Doing
<1>9. ASSUME NEW s \in Sources, CompileOne(s) PROVE LineTypeOK'
  BY <1>9 DEF CompileOne, artifacts, cache
<1>10. ASSUME NEW s \in Sources, TakeCached(s) PROVE LineTypeOK'
  BY <1>10 DEF TakeCached, artifacts, cache
<1>11. ASSUME NEW s \in Sources, SignOne(s) PROVE LineTypeOK'
  BY <1>11 DEF SignOne, artifacts, cache
<1>12. ASSUME PoolDone PROVE LineTypeOK'
  BY <1>12 DEF PoolDone, artifacts, cache, NextCommand
<1>13. ASSUME BuildLibraries PROVE LineTypeOK'
  BY <1>13 DEF BuildLibraries, artifacts, cache, Doing,
               NextCommand
<1>14. ASSUME Refuse PROVE LineTypeOK'
  BY <1>14 DEF Refuse, artifacts, cache, Doing, Stop
<1>15. ASSUME ClearOutputs PROVE LineTypeOK'
  BY <1>15 DEF ClearOutputs, artifacts, cache, Doing
<1>16. ASSUME Link PROVE LineTypeOK'
  BY <1>16 DEF Link, artifacts, cache, NextCommand
<1>17. ASSUME Complete PROVE LineTypeOK'
  BY <1>17 DEF Complete, artifacts, cache, Stop
<1>18. ASSUME Fail PROVE LineTypeOK'
  BY <1>18 DEF Fail, artifacts, cache, Stop
<1>19. QED
  BY <1>1, <1>2, <1>3, <1>4, <1>5, <1>6, <1>7, <1>8, <1>9,
     <1>10, <1>11, <1>12, <1>13, <1>14, <1>15, <1>16, <1>17, <1>18 DEF LineNext

LEMMA PhasePreserved ==
  ASSUME LineBase, [LineNext]_lineVars
  PROVE  PhaseInv'
<1> USE FlagsAssumption, LinesAssumption
    DEF LineBase, LineTypeOK, PhaseInv, Agrees, Compiles
<1>1. CASE UNCHANGED lineVars
  BY <1>1 DEF lineVars, artifacts, cache
<1>2. ASSUME NEW f \in Flags, NEW l \in Lines, Invoke(f, l)
      PROVE  PhaseInv'
  BY <1>2 DEF Invoke, artifacts, cache
<1>3. ASSUME Other PROVE PhaseInv'
  BY <1>3 DEF Other, artifacts, cache, Doing, NextCommand
<1>4. ASSUME RemovePch PROVE PhaseInv'
  BY <1>4 DEF RemovePch, artifacts, cache, Doing
<1>5. ASSUME BuildPch PROVE PhaseInv'
  BY <1>5 DEF BuildPch, artifacts, cache
<1>6. ASSUME RecordFlags PROVE PhaseInv'
  BY <1>6 DEF RecordFlags, artifacts, cache, NextCommand
<1>7. ASSUME PassOver PROVE PhaseInv'
  BY <1>7 DEF PassOver, artifacts, cache, Doing, NextCommand
<1>8. ASSUME StartPool PROVE PhaseInv'
  BY <1>8 DEF StartPool, artifacts, cache, Doing
<1>9. ASSUME NEW s \in Sources, CompileOne(s) PROVE PhaseInv'
  BY <1>9 DEF CompileOne, artifacts, cache
<1>10. ASSUME NEW s \in Sources, TakeCached(s) PROVE PhaseInv'
  BY <1>10 DEF TakeCached, artifacts, cache
<1>11. ASSUME NEW s \in Sources, SignOne(s) PROVE PhaseInv'
  BY <1>11 DEF SignOne, artifacts, cache
<1>12. ASSUME PoolDone PROVE PhaseInv'
  BY <1>12 DEF PoolDone, artifacts, cache, NextCommand
<1>13. ASSUME BuildLibraries PROVE PhaseInv'
  BY <1>13 DEF BuildLibraries, artifacts, cache, Doing,
               NextCommand
<1>14. ASSUME Refuse PROVE PhaseInv'
  BY <1>14 DEF Refuse, artifacts, cache, Doing, Stop
<1>15. ASSUME ClearOutputs PROVE PhaseInv'
  BY <1>15 DEF ClearOutputs, artifacts, cache, Doing
<1>16. ASSUME Link PROVE PhaseInv'
  BY <1>16 DEF Link, artifacts, cache, NextCommand
<1>17. ASSUME Complete PROVE PhaseInv'
  BY <1>17 DEF Complete, artifacts, cache, Stop
<1>18. ASSUME Fail PROVE PhaseInv'
  BY <1>18 DEF Fail, artifacts, cache, Stop
<1>19. QED
  BY <1>1, <1>2, <1>3, <1>4, <1>5, <1>6, <1>7, <1>8, <1>9,
     <1>10, <1>11, <1>12, <1>13, <1>14, <1>15, <1>16, <1>17, <1>18 DEF LineNext

LEMMA HeaderPreserved ==
  ASSUME LineInv, [LineNext]_lineVars
  PROVE  HeaderInv'
<1> USE FlagsAssumption, LinesAssumption
    DEF LineInv, LineBase, LineTypeOK, PhaseInv, HeaderInv, Agrees,
            Earlier
<1>1. CASE UNCHANGED lineVars
  BY <1>1 DEF lineVars, artifacts, cache
<1>2. ASSUME NEW f \in Flags, NEW l \in Lines, Invoke(f, l)
      PROVE  HeaderInv'
  BY <1>2 DEF Invoke, artifacts, cache
<1>3. ASSUME Other PROVE HeaderInv'
  BY <1>3 DEF Other, artifacts, cache, Doing, NextCommand
<1>4. ASSUME RemovePch PROVE HeaderInv'
  BY <1>4 DEF RemovePch, artifacts, cache, Doing
<1>5. ASSUME BuildPch PROVE HeaderInv'
  BY <1>5 DEF BuildPch, artifacts, cache
<1>6. ASSUME RecordFlags PROVE HeaderInv'
  BY <1>6 DEF RecordFlags, artifacts, cache, NextCommand
<1>7. ASSUME PassOver PROVE HeaderInv'
  BY <1>7 DEF PassOver, artifacts, cache, Doing, NextCommand
<1>8. ASSUME StartPool PROVE HeaderInv'
  BY <1>8 DEF StartPool, artifacts, cache, Doing
<1>9. ASSUME NEW s \in Sources, CompileOne(s) PROVE HeaderInv'
  BY <1>9 DEF CompileOne, artifacts, cache
<1>10. ASSUME NEW s \in Sources, TakeCached(s) PROVE HeaderInv'
  BY <1>10 DEF TakeCached, artifacts, cache
<1>11. ASSUME NEW s \in Sources, SignOne(s) PROVE HeaderInv'
  BY <1>11 DEF SignOne, artifacts, cache
<1>12. ASSUME PoolDone PROVE HeaderInv'
  BY <1>12 DEF PoolDone, artifacts, cache, NextCommand,
               Compiles
<1>13. ASSUME BuildLibraries PROVE HeaderInv'
  BY <1>13 DEF BuildLibraries, artifacts, cache, Doing,
               NextCommand
<1>14. ASSUME Refuse PROVE HeaderInv'
  BY <1>14 DEF Refuse, artifacts, cache, Doing, Stop
<1>15. ASSUME ClearOutputs PROVE HeaderInv'
  BY <1>15 DEF ClearOutputs, artifacts, cache, Doing
<1>16. ASSUME Link PROVE HeaderInv'
  BY <1>16 DEF Link, artifacts, cache, NextCommand
<1>17. ASSUME Complete PROVE HeaderInv'
  BY <1>17 DEF Complete, artifacts, cache, Stop
<1>18. ASSUME Fail PROVE HeaderInv'
  BY <1>18 DEF Fail, artifacts, cache, Stop
<1>19. QED
  BY <1>1, <1>2, <1>3, <1>4, <1>5, <1>6, <1>7, <1>8, <1>9,
     <1>10, <1>11, <1>12, <1>13, <1>14, <1>15, <1>16, <1>17, <1>18 DEF LineNext

LEMMA SignPreserved ==
  ASSUME LineInv, [LineNext]_lineVars
  PROVE  SignInv'
<1> USE FlagsAssumption, LinesAssumption
    DEF LineInv, LineBase, LineTypeOK, PhaseInv, HeaderInv, Agrees,
            SignInv, Compiled, FlagsIn, Identity, NoIdentity
<1>1. CASE UNCHANGED lineVars
  BY <1>1 DEF lineVars, artifacts, cache
<1>2. ASSUME NEW f \in Flags, NEW l \in Lines, Invoke(f, l)
      PROVE  SignInv'
  BY <1>2 DEF Invoke, artifacts, cache
<1>3. ASSUME Other PROVE SignInv'
  BY <1>3 DEF Other, artifacts, cache, Doing, NextCommand
<1>4. ASSUME RemovePch PROVE SignInv'
  BY <1>4 DEF RemovePch, artifacts, cache, Doing
<1>5. ASSUME BuildPch PROVE SignInv'
  BY <1>5 DEF BuildPch, artifacts, cache
<1>6. ASSUME RecordFlags PROVE SignInv'
  BY <1>6 DEF RecordFlags, artifacts, cache, NextCommand
<1>7. ASSUME PassOver PROVE SignInv'
  BY <1>7 DEF PassOver, artifacts, cache, Doing, NextCommand
<1>8. ASSUME StartPool PROVE SignInv'
  BY <1>8 DEF StartPool, artifacts, cache, Doing
<1>9. ASSUME NEW s \in Sources, CompileOne(s) PROVE SignInv'
  BY <1>9 DEF CompileOne, artifacts, cache
<1>10. ASSUME NEW s \in Sources, TakeCached(s) PROVE SignInv'
  BY <1>10 DEF TakeCached, artifacts, cache
<1>11. ASSUME NEW s \in Sources, SignOne(s) PROVE SignInv'
  BY <1>11 DEF SignOne, artifacts, cache
<1>12. ASSUME PoolDone PROVE SignInv'
  BY <1>12 DEF PoolDone, artifacts, cache, NextCommand
<1>13. ASSUME BuildLibraries PROVE SignInv'
  BY <1>13 DEF BuildLibraries, artifacts, cache, Doing,
               NextCommand
<1>14. ASSUME Refuse PROVE SignInv'
  BY <1>14 DEF Refuse, artifacts, cache, Doing, Stop
<1>15. ASSUME ClearOutputs PROVE SignInv'
  BY <1>15 DEF ClearOutputs, artifacts, cache, Doing
<1>16. ASSUME Link PROVE SignInv'
  BY <1>16 DEF Link, artifacts, cache, NextCommand
<1>17. ASSUME Complete PROVE SignInv'
  BY <1>17 DEF Complete, artifacts, cache, Stop
<1>18. ASSUME Fail PROVE SignInv'
  BY <1>18 DEF Fail, artifacts, cache, Stop
<1>19. QED
  BY <1>1, <1>2, <1>3, <1>4, <1>5, <1>6, <1>7, <1>8, <1>9,
     <1>10, <1>11, <1>12, <1>13, <1>14, <1>15, <1>16, <1>17, <1>18 DEF LineNext

LEMMA ObjectsPreserved ==
  ASSUME LineInv, [LineNext]_lineVars
  PROVE  ObjectsInv'
<1> USE FlagsAssumption, LinesAssumption
    DEF LineInv, LineBase, LineTypeOK, PhaseInv, HeaderInv, Agrees,
            ObjectsInv,
        SignInv, Recompiled, Earlier, Compiled, FlagsIn, Identity,
        NoIdentity, Compiles
<1>1. CASE UNCHANGED lineVars
  BY <1>1 DEF lineVars, artifacts, cache
<1>2. ASSUME NEW f \in Flags, NEW l \in Lines, Invoke(f, l)
      PROVE  ObjectsInv'
  BY <1>2 DEF Invoke, artifacts, cache
<1>3. ASSUME Other PROVE ObjectsInv'
  BY <1>3 DEF Other, artifacts, cache, Doing, NextCommand
<1>4. ASSUME RemovePch PROVE ObjectsInv'
  BY <1>4 DEF RemovePch, artifacts, cache, Doing
<1>5. ASSUME BuildPch PROVE ObjectsInv'
  BY <1>5 DEF BuildPch, artifacts, cache
<1>6. ASSUME RecordFlags PROVE ObjectsInv'
  BY <1>6 DEF RecordFlags, artifacts, cache, NextCommand
<1>7. ASSUME PassOver PROVE ObjectsInv'
  BY <1>7 DEF PassOver, artifacts, cache, Doing, NextCommand
<1>8. ASSUME StartPool PROVE ObjectsInv'
  BY <1>8 DEF StartPool, artifacts, cache, Doing
<1>9. ASSUME NEW s \in Sources, CompileOne(s) PROVE ObjectsInv'
  BY <1>9 DEF CompileOne, artifacts, cache
<1>10. ASSUME NEW s \in Sources, TakeCached(s) PROVE ObjectsInv'
  BY <1>10 DEF TakeCached, artifacts, cache
<1>11. ASSUME NEW s \in Sources, SignOne(s) PROVE ObjectsInv'
  BY <1>11 DEF SignOne, artifacts, cache
<1>12. ASSUME PoolDone PROVE ObjectsInv'
  BY <1>12 DEF PoolDone, artifacts, cache, NextCommand
<1>13. ASSUME BuildLibraries PROVE ObjectsInv'
  BY <1>13 DEF BuildLibraries, artifacts, cache, Doing,
               NextCommand
<1>14. ASSUME Refuse PROVE ObjectsInv'
  BY <1>14 DEF Refuse, artifacts, cache, Doing, Stop
<1>15. ASSUME ClearOutputs PROVE ObjectsInv'
  BY <1>15 DEF ClearOutputs, artifacts, cache, Doing
<1>16. ASSUME Link PROVE ObjectsInv'
  <2>1. /\ line[at] \notin Compiles /\ at' = at + 1 /\ phase' = "command"
        /\ UNCHANGED <<env, line, objects, strays, pending>>
    BY <1>16 DEF Link, cache, NextCommand
  <2>2. Earlier(line, at + 1, Compiles) \subseteq Earlier(line, at, Compiles)
    BY <2>1
  <2>3. \A s \in Sources : Recompiled(s)' => Recompiled(s)
    BY <2>1, <2>2
  <2>4. phase # "idle"
    BY <1>16 DEF Link
  <2>5. QED
    BY <2>1, <2>3, <2>4 DEF ObjectsInv
<1>17. ASSUME Complete PROVE ObjectsInv'
  BY <1>17 DEF Complete, artifacts, cache, Stop
<1>18. ASSUME Fail PROVE ObjectsInv'
  BY <1>18 DEF Fail, artifacts, cache, Stop
<1>19. QED
  BY <1>1, <1>2, <1>3, <1>4, <1>5, <1>6, <1>7, <1>8, <1>9,
     <1>10, <1>11, <1>12, <1>13, <1>14, <1>15, <1>16, <1>17, <1>18 DEF LineNext

LEMMA LibrariesPreserved ==
  ASSUME LineInv, [LineNext]_lineVars
  PROVE  LibrariesInv'
<1> USE FlagsAssumption, LinesAssumption
    DEF LineInv, LineBase, LineTypeOK, PhaseInv, HeaderInv, Agrees,
            LibrariesInv,
        Earlier, Archives
<1>1. CASE UNCHANGED lineVars
  BY <1>1 DEF lineVars, artifacts, cache
<1>2. ASSUME NEW f \in Flags, NEW l \in Lines, Invoke(f, l)
       PROVE  LibrariesInv'
  BY <1>2 DEF Invoke, artifacts, cache
<1>3. ASSUME Other PROVE LibrariesInv'
  BY <1>3 DEF Other, artifacts, cache, Doing, NextCommand
<1>4. ASSUME RemovePch PROVE LibrariesInv'
  BY <1>4 DEF RemovePch, artifacts, cache, Doing
<1>5. ASSUME BuildPch PROVE LibrariesInv'
  BY <1>5 DEF BuildPch, artifacts, cache
<1>6. ASSUME RecordFlags PROVE LibrariesInv'
  BY <1>6 DEF RecordFlags, artifacts, cache, NextCommand
<1>7. ASSUME PassOver PROVE LibrariesInv'
  BY <1>7 DEF PassOver, artifacts, cache, Doing, NextCommand
<1>8. ASSUME StartPool PROVE LibrariesInv'
  BY <1>8 DEF StartPool, artifacts, cache, Doing
<1>9. ASSUME NEW s \in Sources, CompileOne(s) PROVE LibrariesInv'
  BY <1>9 DEF CompileOne, artifacts, cache
<1>10. ASSUME NEW s \in Sources, TakeCached(s) PROVE LibrariesInv'
  BY <1>10 DEF TakeCached, artifacts, cache
<1>11. ASSUME NEW s \in Sources, SignOne(s) PROVE LibrariesInv'
  BY <1>11 DEF SignOne, artifacts, cache
<1>12. ASSUME PoolDone PROVE LibrariesInv'
  BY <1>12 DEF PoolDone, artifacts, cache, NextCommand,
               Compiles
<1>13. ASSUME BuildLibraries PROVE LibrariesInv'
  BY <1>13 DEF BuildLibraries, artifacts, cache, Doing,
               NextCommand
<1>14. ASSUME Refuse PROVE LibrariesInv'
  BY <1>14 DEF Refuse, artifacts, cache, Doing, Stop
<1>15. ASSUME ClearOutputs PROVE LibrariesInv'
  BY <1>15 DEF ClearOutputs, artifacts, cache, Doing
<1>16. ASSUME Link PROVE LibrariesInv'
  BY <1>16 DEF Link, artifacts, cache, NextCommand
<1>17. ASSUME Complete PROVE LibrariesInv'
  BY <1>17 DEF Complete, artifacts, cache, Stop
<1>18. ASSUME Fail PROVE LibrariesInv'
  BY <1>18 DEF Fail, artifacts, cache, Stop
<1>19. QED
  BY <1>1, <1>2, <1>3, <1>4, <1>5, <1>6, <1>7, <1>8, <1>9,
     <1>10, <1>11, <1>12, <1>13, <1>14, <1>15, <1>16, <1>17, <1>18 DEF LineNext

(* Only a link writes an output, and what it links after a rebuild is of   *)
(* one configuration.                                                      *)
LEMMA RebuiltLink ==
  ASSUME LineInv, Link, RebuildsAll(line), strays = {}
  PROVE  linked' \subseteq {env}
<1>1. /\ Earlier(line, at, {"pch"}) # {}
      /\ \E j \in Earlier(line, at, Compiles) :
           Earlier(line, j, {"pch"}) # {}
      /\ \E j \in Earlier(line, at, Archives) :
           Earlier(line, j, {"pch"}) # {}
  <2>1. at \in DOMAIN line /\ line[at] = "link"
    BY DEF Link, LineInv, LineBase, PhaseInv
  <2>2. /\ \E j \in Earlier(line, at, Compiles) :
             Earlier(line, j, {"pch"}) # {}
        /\ \E j \in Earlier(line, at, Archives) :
             Earlier(line, j, {"pch"}) # {}
    BY <2>1 DEF RebuildsAll
  <2>3. line \in Seq(Commands) /\ at \in Nat
    BY DEF LineInv, LineBase, LineTypeOK
  <2>4. Earlier(line, at, {"pch"}) # {}
    BY <2>2, <2>3 DEF Earlier
  <2>5. QED
    BY <2>2, <2>4
<1>2. Compiled = {env}
  BY <1>1, FlagsAssumption DEF Link, LineInv, LineBase, LineTypeOK, HeaderInv,
              Compiled, FlagsIn, Identity
<1>3. \A s \in Sources : objects[s] \subseteq {env}
  BY <1>1 DEF Link, LineInv, ObjectsInv, Recompiled
<1>4. libraries = env
  BY <1>1 DEF Link, LineInv, LibrariesInv
<1>5. QED
  BY <1>2, <1>3, <1>4 DEF Link

-----------------------------------------------------------------------------
(* Every variable keeps its type.                                          *)
THEOREM FlagsTypeCorrect == LineSpec => []LineTypeOK
<1>1. LineInit => LineTypeOK
  BY LineInvInitial DEF LineInv, LineBase
<1>2. LineTypeOK /\ [LineNext]_lineVars => LineTypeOK'
  BY LineTypesPreserved
<1>3. QED
  BY <1>1, <1>2, PTL DEF LineSpec

THEOREM PhasesAgree == LineSpec => []LineBase
<1>1. LineInit => LineBase
  BY LineInvInitial DEF LineInv
<1>2. LineBase /\ [LineNext]_lineVars => LineBase'
  BY LineTypesPreserved, PhasePreserved DEF LineBase
<1>3. QED
  BY <1>1, <1>2, PTL DEF LineSpec

(* For every set of command lines, whatever fails or is killed: neither an *)
(* object nor an output is written while record and environment disagree.  *)
THEOREM MismatchBlocks == LineSpec => NothingAcrossAMismatch
<1>1. LineBase /\ [LineNext]_lineVars
        => [recorded \notin {NoFlags, env} =>
              UNCHANGED <<objects, linked>>]_lineVars
  <2> SUFFICES ASSUME LineBase, LineNext, recorded \notin {NoFlags, env}
               PROVE  UNCHANGED <<objects, linked>>
    OBVIOUS
  <2>1. ~Agrees /\ phase \notin {"pool", "emcc"}
    BY DEF Agrees, LineBase, PhaseInv
  <2>2. QED
    BY <2>1 DEF LineNext, artifacts, cache, Invoke, Other,
                RemovePch, BuildPch,
       RecordFlags, PassOver, StartPool, TakeCached, CompileOne,
       SignOne, PoolDone, BuildLibraries,
       Refuse, ClearOutputs, Link, Complete, Fail
<1>2. QED
  BY <1>1, PhasesAgree, PTL DEF LineSpec, NothingAcrossAMismatch

(* A command line that rebuilds what it links gives an output of one       *)
(* configuration, whatever other lines ran, failed or were killed before,  *)
(* unless a stray object of a pool that was ended is among them.           *)
THEOREM RebuildsAreUniform == LineSpec => RebuildsLinkOneConfiguration
<1> DEFINE Uniform == RebuildsAll(line) /\ strays = {} /\ linked' # linked
                        => \A f, g \in linked' : f = g
<1>1. LineInit => LineInv
  BY LineInvInitial
<1>2. LineInv /\ [LineNext]_lineVars => LineInv'
  BY LineTypesPreserved, PhasePreserved, HeaderPreserved, SignPreserved,
     ObjectsPreserved, LibrariesPreserved DEF LineInv, LineBase
<1>3. LineInv /\ [LineNext]_lineVars => [Uniform]_lineVars
  <2> SUFFICES ASSUME LineInv, LineNext PROVE Uniform
    OBVIOUS
  <2>1. CASE Link
    BY <2>1, RebuiltLink
  <2>2. CASE ClearOutputs
    BY <2>2 DEF ClearOutputs
  <2>3. CASE ~Link /\ ~ClearOutputs
    BY <2>3 DEF LineNext, artifacts, cache, Invoke, Other,
                RemovePch, BuildPch,
       RecordFlags, PassOver, StartPool, TakeCached, CompileOne,
       SignOne, PoolDone, BuildLibraries,
       Refuse, Complete, Fail
  <2>4. QED
    BY <2>1, <2>2, <2>3
<1>4. QED
  BY <1>1, <1>2, <1>3, PTL DEF LineSpec, RebuildsLinkOneConfiguration

(* The script's own full command, and the four steps in one line, do.      *)
THEOREM FullRebuilds ==
  RebuildsAll(Full) /\ RebuildsAll(FromPch)
<1>1. RebuildsAll(Full)
  <2>1. \A k \in DOMAIN Full : Full[k] = "link" => k = 7
    BY DEF Full
  <2>2. /\ 4 \in Earlier(Full, 7, Compiles)
        /\ 5 \in Earlier(Full, 7, Archives)
        /\ 2 \in Earlier(Full, 4, {"pch"})
        /\ 2 \in Earlier(Full, 5, {"pch"})
    BY DEF Full, Earlier, Compiles, Archives
  <2>3. QED
    BY <2>1, <2>2 DEF RebuildsAll
<1>2. RebuildsAll(FromPch)
  <2>1. \A k \in DOMAIN FromPch : FromPch[k] = "link" => k = 4
    BY DEF FromPch
  <2>2. /\ 2 \in Earlier(FromPch, 4, Compiles)
        /\ 3 \in Earlier(FromPch, 4, Archives)
        /\ 1 \in Earlier(FromPch, 2, {"pch"})
        /\ 1 \in Earlier(FromPch, 3, {"pch"})
    BY DEF FromPch, Earlier, Compiles, Archives
  <2>3. QED
    BY <2>1, <2>2 DEF RebuildsAll
<1>3. QED
  BY <1>1, <1>2
================================================================================
