---------------------------- MODULE CMakeLibraries ----------------------------
(***************************************************************************)
(* step_sources_cmake of build-wasm.sh with CMakeState                     *)
(* (src/src/ocjs_bindgen/cmake_state.py) and scripts/cmake-state.py: how   *)
(* the OCCT static libraries are compiled in the one incremental CMake     *)
(* scratch tree and published for the link step.                           *)
(*                                                                         *)
(* The identity of a build is a digest of the OCCT files as apply-patches  *)
(* recorded them, the commits of the header dependencies, ten variables    *)
(* and the versions of cmake and emcc.  It is computed once, at the start  *)
(* of a run, and it is not all that goes into a build: an edit of OCCT     *)
(* after apply-patches, of a header dependency, or of the flags written    *)
(* into build-wasm.sh itself does not change it, and CMake reads the       *)
(* sources for minutes after it was computed.  So inputs and identities    *)
(* are two sets here, an edit takes either anywhere at any time, and the   *)
(* history variable sources keeps which inputs builds of an identity read. *)
(*                                                                         *)
(* CMake itself is external: it builds the libraries of the inputs it      *)
(* finds in parallel, leaves a half-written archive behind when it is      *)
(* killed, and may take any archive it finds for up to date, because it    *)
(* goes by time stamps.  The marker file of the scratch tree and the       *)
(* manifest of the published one stand between that and the link step.     *)
(***************************************************************************)
EXTENDS Naturals

CONSTANTS Inputs,      \* all that goes into a build of OCCT
          Identities,  \* what cmake-state.py identity can print
          Libs,        \* the names of static libraries
          LibsOf,      \* the libraries that a build of some inputs produces
          NoIdentity,  \* no identity: the file that would hold it is missing
          Absent,      \* no file of that name
          Torn,        \* a file with content that no finished build produced
          MaxFaults    \* bound on the crashes, failures and outside changes

ASSUME LibsOfAssumption == LibsOf \in [Inputs -> (SUBSET Libs) \ {{}}]
ASSUME SentinelAssumption ==
  /\ NoIdentity \notin Identities
  /\ Absent \notin Inputs /\ Torn \notin Inputs /\ Absent # Torn
ASSUME FaultsAssumption == MaxFaults \in Nat

VARIABLES inputs,     \* what is in the checkout now
          seen,       \* the identity the script would compute now
          sources,    \* history: the inputs that builds of an identity read
          identity,   \* the identity this run has computed
          pc,         \* where the run is
          marker,     \* .ocjs-cmake-state.json of the scratch tree
          libs,       \* the archives in the scratch tree
          job,        \* what CMake has done about each archive in this run
          staged,     \* the copies in the staging tree of replace_tree
          published,  \* build/occt-libraries: the archives
          manifest,   \* build/occt-libraries/manifest.json
          result,     \* how the run ended, if nothing changed since
          faults      \* how many faults and outside changes so far

checkout == <<inputs, seen, sources>>
scratch == <<marker, libs>>
destination == <<published, manifest>>
vars == <<checkout, identity, pc, scratch, job, staged, destination, result,
          faults>>

-----------------------------------------------------------------------------
Contents == Inputs \cup {Absent, Torn}
Tree == [Libs -> Contents]
NoFiles == [l \in Libs |-> Absent]

(* The archives of a finished build of the inputs i, and nothing else.     *)
Exact(i) == [l \in Libs |-> IF l \in LibsOf[i] THEN i ELSE Absent]

Marker(i, state) == [identity |-> i, state |-> state]
Manifest(i, files) == [identity |-> i, files |-> files]

(* published_matches: the manifest names the identity, there is an archive *)
(* and the archives are those the ledger of the manifest lists.            *)
Matches(i) == /\ manifest.identity = i
              /\ published # NoFiles
              /\ published = manifest.files

Phases == {"idle", "verify", "prepare", "remove", "mark", "build",
           "complete", "publish", "withdraw", "install", "describe"}

(* The run has an identity, and CMake is not through with the sources.     *)
Reading == {"verify", "prepare", "remove", "mark", "build"}

TypeOK ==
  /\ inputs \in Inputs
  /\ seen \in Identities
  /\ sources \in [Identities -> SUBSET Inputs]
  /\ identity \in Identities
  /\ pc \in Phases
  /\ marker \in [identity : Identities \cup {NoIdentity},
                 state : {"complete", "incomplete"}]
  /\ libs \in Tree
  /\ job \in [Libs -> {"todo", "running", "done"}]
  /\ staged \in Tree
  /\ published \in Tree
  /\ manifest \in [identity : Identities \cup {NoIdentity}, files : Tree]
  /\ result \in {"none", "ok", "failed"}
  /\ faults \in 0 .. MaxFaults

Init ==
  /\ inputs \in Inputs
  /\ seen \in Identities
  /\ sources = [d \in Identities |-> {}]
  /\ identity = seen
  /\ pc = "idle"
  /\ marker = Marker(NoIdentity, "incomplete")
  /\ libs = NoFiles
  /\ job = [l \in Libs |-> "todo"]
  /\ staged = NoFiles
  /\ published = NoFiles
  /\ manifest = Manifest(NoIdentity, NoFiles)
  /\ result = "none"
  /\ faults = 0

-----------------------------------------------------------------------------

(* cmake_identity="$(scripts/cmake-state.py identity)"                     *)
ComputeIdentity ==
  /\ pc = "idle"
  /\ identity' = seen
  /\ sources' = [sources EXCEPT ![seen] = @ \cup {inputs}]
  /\ pc' = "verify"
  /\ result' = "none"
  /\ UNCHANGED <<inputs, seen, scratch, job, staged, destination, faults>>

(* Mutant: any intact published tree will do, whatever its identity.       *)
ReuseAnyPublished ==
  /\ pc = "verify"
  /\ Matches(manifest.identity)
  /\ pc' = "idle"
  /\ result' = "ok"
  /\ UNCHANGED <<checkout, identity, scratch, job, staged, destination,
                 faults>>

(* verify-published succeeds: the step returns.                            *)
ReusePublished ==
  /\ pc = "verify"
  /\ Matches(identity)
  /\ pc' = "idle"
  /\ result' = "ok"
  /\ UNCHANGED <<checkout, identity, scratch, job, staged, destination,
                 faults>>

VerifyFails ==
  /\ pc = "verify"
  /\ ~Matches(identity)
  /\ pc' = "prepare"
  /\ UNCHANGED <<checkout, identity, scratch, job, staged, destination,
                 result, faults>>

(* Mutant: an interrupted build of the same identity counts as complete.   *)
ReuseInterruptedScratch ==
  /\ pc = "prepare"
  /\ marker.identity = identity
  /\ marker' = Marker(identity, "incomplete")
  /\ job' = [l \in Libs |-> "todo"]
  /\ pc' = "build"
  /\ UNCHANGED <<checkout, identity, libs, staged, destination, result,
                 faults>>

(* CMakeState.prepare keeps a scratch tree of a complete build of the same *)
(* identity, and takes the mark off it before CMake writes to it.          *)
ReuseScratch ==
  /\ pc = "prepare"
  /\ marker = Marker(identity, "complete")
  /\ marker' = Marker(identity, "incomplete")
  /\ job' = [l \in Libs |-> "todo"]
  /\ pc' = "build"
  /\ UNCHANGED <<checkout, identity, libs, staged, destination, result,
                 faults>>

DiscardScratch ==
  /\ pc = "prepare"
  /\ marker # Marker(identity, "complete")
  /\ pc' = "remove"
  /\ UNCHANGED <<checkout, identity, scratch, job, staged, destination,
                 result, faults>>

(* shutil.rmtree(scratch): file by file, in no particular order.           *)
RemoveLib(l) ==
  /\ pc = "remove"
  /\ libs[l] # Absent
  /\ libs' = [libs EXCEPT ![l] = Absent]
  /\ UNCHANGED <<checkout, identity, pc, marker, job, staged, destination,
                 result, faults>>

RemoveMarker ==
  /\ pc = "remove"
  /\ marker.identity # NoIdentity
  /\ marker' = Marker(NoIdentity, "incomplete")
  /\ UNCHANGED <<checkout, identity, pc, libs, job, staged, destination,
                 result, faults>>

(* scratch.mkdir: it raises when rmtree, which ignores errors, has left    *)
(* something; see Fail.                                                    *)
MakeScratch ==
  /\ pc = "remove"
  /\ libs = NoFiles
  /\ marker.identity = NoIdentity
  /\ pc' = "mark"
  /\ UNCHANGED <<checkout, identity, scratch, job, staged, destination,
                 result, faults>>

(* Mutant: the fresh scratch tree gets no marker.                          *)
LeaveUnmarked ==
  /\ pc = "mark"
  /\ job' = [l \in Libs |-> "todo"]
  /\ pc' = "build"
  /\ UNCHANGED <<checkout, identity, scratch, staged, destination, result,
                 faults>>

MarkIncomplete ==
  /\ pc = "mark"
  /\ marker' = Marker(identity, "incomplete")
  /\ job' = [l \in Libs |-> "todo"]
  /\ pc' = "build"
  /\ UNCHANGED <<checkout, identity, libs, staged, destination, result,
                 faults>>

-----------------------------------------------------------------------------
(* cmake --build, external: the jobs work in parallel on the archives of   *)
(* the inputs they find.                                                   *)
StartLib(l) ==
  /\ pc = "build"
  /\ l \in LibsOf[inputs]
  /\ job[l] = "todo"
  /\ job' = [job EXCEPT ![l] = "running"]
  /\ libs' = [libs EXCEPT ![l] = Torn]
  /\ UNCHANGED <<checkout, identity, pc, marker, staged, destination, result,
                 faults>>

FinishLib(l) ==
  /\ pc = "build"
  /\ job[l] = "running"
  /\ job' = [job EXCEPT ![l] = "done"]
  /\ libs' = [libs EXCEPT ![l] = inputs]
  /\ UNCHANGED <<checkout, identity, pc, marker, staged, destination, result,
                 faults>>

(* The archive is there and its time stamp is new enough.                  *)
SkipLib(l) ==
  /\ pc = "build"
  /\ l \in LibsOf[inputs]
  /\ job[l] = "todo"
  /\ libs[l] # Absent
  /\ job' = [job EXCEPT ![l] = "done"]
  /\ UNCHANGED <<checkout, identity, pc, scratch, staged, destination, result,
                 faults>>

Built ==
  /\ pc = "build"
  /\ \A l \in Libs : job[l] # "running"
  /\ \A l \in LibsOf[inputs] : job[l] = "done"
  /\ pc' = "complete"
  /\ UNCHANGED <<checkout, identity, scratch, job, staged, destination,
                 result, faults>>

-----------------------------------------------------------------------------
(* CMakeState.complete: it raises when the marker is not of this identity, *)
(* which in one run after another does not happen.                         *)
Complete ==
  /\ pc = "complete"
  /\ IF marker.identity = identity
     THEN /\ marker' = Marker(identity, "complete")
          /\ pc' = "publish"
          /\ UNCHANGED result
     ELSE /\ pc' = "idle"
          /\ result' = "failed"
          /\ UNCHANGED marker
  /\ UNCHANGED <<checkout, identity, libs, job, staged, destination, faults>>

(* publish_libraries: whatever *.a the scratch tree holds is copied to the *)
(* stage, with a ledger of the copies.                                     *)
StageLibraries ==
  /\ pc = "publish"
  /\ libs # NoFiles
  /\ staged' = libs
  /\ pc' = "withdraw"
  /\ UNCHANGED <<checkout, identity, scratch, job, destination, result,
                 faults>>

(* replace_tree (ReplaceTree has its steps): the old tree disappears at    *)
(* once, or file by file on an overlay layer; with an old tree there or    *)
(* not, the new one appears at once.                                       *)
WithdrawTree ==
  /\ pc = "withdraw"
  /\ published' = NoFiles
  /\ manifest' = Manifest(NoIdentity, NoFiles)
  /\ pc' = "install"
  /\ UNCHANGED <<checkout, identity, scratch, job, staged, result, faults>>

WithdrawLib(l) ==
  /\ pc = "withdraw"
  /\ published[l] # Absent
  /\ published' = [published EXCEPT ![l] = Absent]
  /\ UNCHANGED <<checkout, identity, pc, scratch, job, staged, manifest,
                 result, faults>>

WithdrawManifest ==
  /\ pc = "withdraw"
  /\ manifest.identity # NoIdentity
  /\ manifest' = Manifest(NoIdentity, NoFiles)
  /\ UNCHANGED <<checkout, identity, pc, scratch, job, staged, published,
                 result, faults>>

InstallTree ==
  /\ pc = "install"
  /\ published' = staged
  /\ manifest' = Manifest(identity, staged)
  /\ pc' = "describe"
  /\ UNCHANGED <<checkout, identity, scratch, job, staged, result, faults>>

(* main writes identity-inputs.json, which no check reads, and the step    *)
(* ends.                                                                   *)
Describe ==
  /\ pc = "describe"
  /\ pc' = "idle"
  /\ result' = "ok"
  /\ UNCHANGED <<checkout, identity, scratch, job, staged, destination,
                 faults>>

-----------------------------------------------------------------------------
Fault == faults < MaxFaults /\ faults' = faults + 1

(* A command of the step fails (cmake, an I/O error, mkdir over what rmtree *)
(* left) and set -e ends the run, or the run is killed.  What is on disk    *)
(* stays.                                                                   *)
Fail ==
  /\ Fault
  /\ pc # "idle"
  /\ pc' = "idle"
  /\ result' = "failed"
  /\ UNCHANGED <<checkout, identity, scratch, job, staged, destination>>

(* At any time patches, sources, headers, the script, flags or tools       *)
(* change, or apply-patches records what has changed before: the inputs    *)
(* are others, the identity is another, or both.  What changes under a run *)
(* that still compiles goes into the build of the identity of that run.    *)
EditInputs(i, d) ==
  /\ Fault
  /\ i # inputs \/ d # seen
  /\ inputs' = i
  /\ seen' = d
  /\ sources' = IF pc \in Reading
                THEN [sources EXCEPT ![identity] = @ \cup {i}]
                ELSE sources
  /\ result' = "none"
  /\ UNCHANGED <<identity, pc, scratch, job, staged, destination>>

(* Between two runs a published archive is lost, added or overwritten ...  *)
Tamper(l, content) ==
  /\ Fault
  /\ pc = "idle"
  /\ content \in {Absent, Torn}
  /\ published' = [published EXCEPT ![l] = content]
  /\ result' = "none"
  /\ UNCHANGED <<checkout, identity, pc, scratch, job, staged, manifest>>

(* ... or the libraries that a Docker occt-libs stage published are copied *)
(* in, for the identity that stage had.                                    *)
CopyFromStage(i, d) ==
  /\ Fault
  /\ pc = "idle"
  /\ published' = Exact(i)
  /\ manifest' = Manifest(d, Exact(i))
  /\ sources' = [sources EXCEPT ![d] = @ \cup {i}]
  /\ result' = "none"
  /\ UNCHANGED <<inputs, seen, identity, pc, scratch, job, staged>>

Run ==
  \/ ComputeIdentity
  \/ ReusePublished
  \/ VerifyFails
  \/ ReuseScratch
  \/ DiscardScratch
  \/ \E l \in Libs : RemoveLib(l)
  \/ RemoveMarker
  \/ MakeScratch
  \/ MarkIncomplete
  \/ \E l \in Libs : StartLib(l)
  \/ \E l \in Libs : FinishLib(l)
  \/ \E l \in Libs : SkipLib(l)
  \/ Built
  \/ Complete
  \/ StageLibraries
  \/ WithdrawTree
  \/ \E l \in Libs : WithdrawLib(l)
  \/ WithdrawManifest
  \/ InstallTree
  \/ Describe

Outside ==
  \/ Fail
  \/ \E i \in Inputs, d \in Identities : EditInputs(i, d)
  \/ \E l \in Libs, content \in {Absent, Torn} : Tamper(l, content)
  \/ \E i \in Inputs, d \in Identities : CopyFromStage(i, d)

Next == Run \/ Outside

Spec == Init /\ [][Next]_vars

(* The step is sequential code that CMake's jobs return to, and a build    *)
(* that failed is started again.                                           *)
FairSpec == Spec /\ WF_vars(Run)

-----------------------------------------------------------------------------
(* Properties.                                                             *)


(* The mark on the scratch tree tells the truth, whatever build was        *)
(* interrupted or discarded half-way before (BUILD_SYSTEM.md:101:          *)
(* "mismatched or interrupted state is discarded before compilation"):     *)
(* under a complete mark no archive is half-written, and if the builds of  *)
(* its identity read one set of inputs only, every archive is of those.    *)
CompleteScratchIsClean ==
  marker.state = "complete" =>
    /\ \A l \in Libs : libs[l] # Torn
    /\ \A i \in Inputs : sources[marker.identity] = {i} =>
         \A l \in Libs : libs[l] \in {Absent, Exact(i)[l]}

(* What published_matches accepts has no half-written archive in it; and   *)
(* if the builds of the identity read one set of inputs only, it is all    *)
(* the libraries of those inputs, and no other.  Neither a crash nor a     *)
(* lost, added or overwritten archive nor a half-removed tree gets past    *)
(* the ledger.  An identity of two sets of inputs is the limit that        *)
(* identity_inputs has: of its libraries the code says nothing more.       *)
AcceptedIsExact ==
  \A d \in Identities : Matches(d) =>
    /\ \A l \in Libs : published[l] # Torn
    /\ \A i \in Inputs : sources[d] = {i} => published = Exact(i)

(* When the step says yes, the published tree is intact and of the         *)
(* identity of the run; and if no build of that identity read other inputs *)
(* than those in the checkout now, it is the libraries of these.           *)
SuccessIsCurrent ==
  result = "ok" =>
    /\ Matches(identity)
    /\ sources[identity] = {inputs} => published = Exact(inputs)

(* Once faults and changes stop, some run gets the libraries published and *)
(* they stay: no interrupted state blocks the step for good.  They are of  *)
(* the identity of now, and of the inputs of now if no build of that       *)
(* identity read others.                                                   *)
EventuallyPublished ==
  <>[](/\ Matches(seen)
       /\ sources[seen] = {inputs} => published = Exact(inputs))
=============================================================================
