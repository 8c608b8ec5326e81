------------------------------ MODULE BuildFlags ------------------------------
(***************************************************************************)
(* How build-wasm.sh keeps the artifacts of different compile flags apart: *)
(* build-flags.json, written with the precompiled header (paths.py) and    *)
(* compared with the environment by validate_build_flags (flags.py) before *)
(* the steps that consume artifacts.                                       *)
(*                                                                         *)
(* One invocation at a time runs a command line.  Each artifact is reduced *)
(* to the flags that went into it: an object compiled through a header of  *)
(* other flags, when the compiler lets it pass, holds both.  An object and *)
(* its identity file are two files, as in BindingObjects: a worker takes   *)
(* the object for cached when the identity file names the present flags    *)
(* and header, whatever flags the object is of.                            *)
(***************************************************************************)
EXTENDS Integers, Sequences

CONSTANTS Flags,     \* the compile-flag configurations
          NoFlags,   \* no artifact, no build-flags.json
          Sources,   \* the generated binding sources
          Lines      \* the command lines that are run

(* The commands.  "compile" and "libraries" are step_bindings and          *)
(* step_sources_cmake as `full` calls them, "bindings" and "sources" the   *)
(* commands of those names; "other" is a command that leaves all these     *)
(* artifacts alone (apply-patches, docs, generate, bind-symbols, ...).     *)
Commands == {"pch", "other", "bindings", "compile", "sources", "libraries",
             "link"}

(* build-wasm.sh full <yaml>, and `pch bindings sources link <yaml>`.      *)
Full == <<"other", "pch", "other", "compile", "libraries", "other", "link">>
FromPch == <<"pch", "bindings", "sources", "link">>

ASSUME FlagsAssumption == NoFlags \notin Flags
ASSUME LinesAssumption == Lines \subseteq Seq(Commands)

VARIABLES env,        \* the flags of the present invocation
          line,       \* its command line
          at,         \* which of the commands it is at
          phase,      \* where it is in that command
          pending,    \* the sources the pool has not reached
          unsigned,   \* those whose object it has replaced or removed, and
                      \* whose identity file it has not
          recorded,   \* build/build-flags.json
          pch,        \* the flags of build/pch.h.pch
          objects,    \* the flags in each object of build/compiled-bindings
          identities, \* the flags and header each .identity file names
          strays,     \* history: objects of a pool that was ended before it
                      \* wrote their identity, and none was written since
          libraries,  \* the flags of build/occt-libraries
          linked,     \* the flags in the linked output, {} when there is none
          result      \* how the last invocation ended

cache == <<objects, identities, strays>>
lineVars == <<env, line, at, phase, pending, unsigned, recorded, pch, cache,
              libraries, linked, result>>

artifacts == <<recorded, pch, cache, libraries, linked>>

-----------------------------------------------------------------------------
(* What a compilation depends on here: the environment and the header.     *)
Identity == <<env, pch>>
NoIdentity == <<NoFlags, NoFlags>>

(* The flags that a compilation of an identity picks up.                   *)
FlagsIn(i) == {i[1], i[2]} \ {NoFlags}
Compiled == FlagsIn(Identity)

LineTypeOK == /\ env \in Flags
              /\ line \in Seq(Commands)
              /\ at \in Nat
              /\ phase \in {"idle", "command", "build", "record", "pool",
                            "emcc"}
              /\ pending \in SUBSET Sources
              /\ unsigned \in SUBSET Sources
              /\ recorded \in Flags \cup {NoFlags}
              /\ pch \in Flags \cup {NoFlags}
              /\ objects \in [Sources -> SUBSET Flags]
              /\ identities \in [Sources -> (Flags \cup {NoFlags})
                                              \X (Flags \cup {NoFlags})]
              /\ strays \in SUBSET Sources
              /\ libraries \in Flags \cup {NoFlags}
              /\ linked \in SUBSET Flags
              /\ result \in {"none", "complete", "failed"}

LineInit == /\ env \in Flags
            /\ line = <<>>
            /\ at = 1
            /\ phase = "idle"
            /\ pending = {}
            /\ unsigned = {}
            /\ recorded = NoFlags
            /\ pch = NoFlags
            /\ objects = [s \in Sources |-> {}]
            /\ identities = [s \in Sources |-> NoIdentity]
            /\ strays = {}
            /\ libraries = NoFlags
            /\ linked = {}
            /\ result = "none"

(* validate_build_flags: without a record there is nothing to compare.     *)
Agrees == recorded \in {NoFlags, env}

Doing(command) == phase = "command" /\ at \in DOMAIN line /\ line[at] = command

NextCommand == at' = at + 1 /\ phase' = "command" /\ UNCHANGED line

(* The script ends, and with it what it and the pool had in memory.        *)
Stop(outcome) == /\ phase' = "idle"
                 /\ result' = outcome
                 /\ line' = <<>>
                 /\ at' = 1
                 /\ pending' = {}
                 /\ unsigned' = {}

-----------------------------------------------------------------------------
(* The script starts: a configuration is loaded, the flags get defaults,   *)
(* the arguments become the list of commands.                              *)
Invoke(f, l) ==
  /\ phase = "idle"
  /\ env' = f
  /\ line' = l
  /\ at' = 1
  /\ phase' = "command"
  /\ result' = "none"
  /\ UNCHANGED <<pending, unsigned, artifacts>>

Other ==
  /\ Doing("other")
  /\ NextCommand
  /\ UNCHANGED <<env, pending, unsigned, result, artifacts>>

(* step_pch removes the header; buildPch compiles it and renames it in.    *)
RemovePch ==
  /\ Doing("pch")
  /\ pch' = NoFlags
  /\ phase' = "build"
  /\ UNCHANGED <<env, line, at, pending, unsigned, result, recorded, cache,
                 libraries, linked>>

BuildPch ==
  /\ phase = "build"
  /\ pch' = env
  /\ phase' = "record"
  /\ UNCHANGED <<env, line, at, pending, unsigned, result, recorded, cache,
                 libraries, linked>>

(* write_build_flags, after the check of the header's time stamp.          *)
RecordFlags ==
  /\ phase = "record"
  /\ recorded' = env
  /\ NextCommand
  /\ UNCHANGED <<env, pending, unsigned, result, pch, cache, libraries,
                 linked>>

(* `validate_build_flags && step_...`: the failure of the left side of &&  *)
(* does not end a `set -e` script, so the command is passed over.          *)
PassOver ==
  /\ Doing("bindings") \/ Doing("sources")
  /\ ~Agrees
  /\ NextCommand
  /\ UNCHANGED <<env, pending, unsigned, result, artifacts>>

(* A mutant: the pool starts without a comparison.                         *)
StartPoolUnchecked ==
  /\ Doing("bindings") \/ Doing("compile")
  /\ pending' = Sources
  /\ phase' = "pool"
  /\ UNCHANGED <<env, line, at, unsigned, result, artifacts>>

(* compileBindings.py compares once more, and starts its pool.             *)
StartPool ==
  /\ Doing("bindings") \/ Doing("compile")
  /\ Agrees
  /\ pending' = Sources
  /\ phase' = "pool"
  /\ UNCHANGED <<env, line, at, unsigned, result, artifacts>>

(* A worker finds the object cached ...                                    *)
TakeCached(s) ==
  /\ phase = "pool"
  /\ s \in pending
  /\ objects[s] # {}
  /\ identities[s] = Identity
  /\ pending' = pending \ {s}
  /\ UNCHANGED <<env, line, at, phase, unsigned, result, artifacts>>

(* ... or compiles, because one of these has changed or something else     *)
(* that is not in the model, and the object is replaced or, when it does   *)
(* not compile, removed.                                                   *)
CompileOne(s) ==
  /\ phase = "pool"
  /\ s \in pending
  /\ \E flags \in {{}, Compiled} : objects' = [objects EXCEPT ![s] = flags]
  /\ pending' = pending \ {s}
  /\ unsigned' = unsigned \cup {s}
  /\ UNCHANGED <<env, line, at, phase, result, recorded, pch, identities,
                 strays, libraries, linked>>

(* Then its identity file is, too.                                         *)
SignOne(s) ==
  /\ phase = "pool"
  /\ s \in unsigned
  /\ identities' = [identities EXCEPT ![s] =
                      IF objects[s] = {} THEN NoIdentity ELSE Identity]
  /\ strays' = strays \ {s}
  /\ unsigned' = unsigned \ {s}
  /\ UNCHANGED <<env, line, at, phase, pending, result, recorded, pch,
                 objects, libraries, linked>>

PoolDone ==
  /\ phase = "pool"
  /\ pending = {}
  /\ unsigned = {}
  /\ NextCommand
  /\ UNCHANGED <<env, pending, unsigned, result, artifacts>>

(* A mutant: libraries that are there are taken for current.               *)
KeepLibraries ==
  /\ Doing("libraries") \/ (Doing("sources") /\ Agrees)
  /\ libraries' = IF libraries = NoFlags THEN env ELSE libraries
  /\ NextCommand
  /\ UNCHANGED <<env, pending, unsigned, result, recorded, pch, cache,
                 linked>>

(* step_sources_cmake, in one step (CMakeLibraries has its own): it leaves *)
(* the libraries of the environment, compiled without the header.          *)
BuildLibraries ==
  /\ Doing("libraries") \/ (Doing("sources") /\ Agrees)
  /\ libraries' = env
  /\ NextCommand
  /\ UNCHANGED <<env, pending, unsigned, result, recorded, pch, cache,
                 linked>>

(* A mismatch ends the script where the comparison stands alone, and so    *)
(* does compileBindings.py's own.                                          *)
Refuse ==
  /\ Doing("link") \/ Doing("compile")
  /\ ~Agrees
  /\ Stop("failed")
  /\ UNCHANGED <<env, artifacts>>

(* step_link deletes the old outputs first ...                             *)
ClearOutputs ==
  /\ Doing("link")
  /\ Agrees
  /\ linked' = {}
  /\ phase' = "emcc"
  /\ UNCHANGED <<env, line, at, pending, unsigned, result, recorded, pch,
                 cache, libraries>>

(* ... and links the custom code it compiles with the objects and the      *)
(* libraries it finds; verifyBindings wants every object.                  *)
Link ==
  /\ phase = "emcc"
  /\ \A s \in Sources : objects[s] # {}
  /\ libraries # NoFlags
  /\ linked' = Compiled \cup {libraries}
                \cup UNION {objects[s] : s \in Sources}
  /\ NextCommand
  /\ UNCHANGED <<env, pending, unsigned, result, recorded, pch, cache,
                 libraries>>

Complete ==
  /\ phase = "command"
  /\ at \notin DOMAIN line
  /\ Stop("complete")
  /\ UNCHANGED <<env, artifacts>>

(* A step fails and `set -e` ends the script, or the script is killed.     *)
Fail ==
  /\ phase # "idle"
  /\ strays' = IF phase = "pool" THEN strays \cup unsigned ELSE strays
  /\ Stop("failed")
  /\ UNCHANGED <<env, recorded, pch, objects, identities,
                 libraries, linked>>

LineNext == \/ \E f \in Flags, l \in Lines : Invoke(f, l)
            \/ Other
            \/ RemovePch
            \/ BuildPch
            \/ RecordFlags
            \/ PassOver
            \/ StartPool
            \/ \E s \in Sources : TakeCached(s)
            \/ \E s \in Sources : CompileOne(s)
            \/ \E s \in Sources : SignOne(s)
            \/ PoolDone
            \/ BuildLibraries
            \/ Refuse
            \/ ClearOutputs
            \/ Link
            \/ Complete
            \/ Fail

LineSpec == LineInit /\ [][LineNext]_lineVars

-----------------------------------------------------------------------------
(* Properties.                                                             *)

(* The positions of a line before k that hold one of the commands.         *)
Earlier(l, k, commands) == {i \in 1 .. k - 1 : l[i] \in commands}

Compiles == {"bindings", "compile"}
Archives == {"sources", "libraries"}

(* A line rebuilds what it links: each link comes after a compilation and  *)
(* a build of the libraries, and each of these after a pch.                *)
RebuildsAll(l) ==
  \A k \in DOMAIN l :
    l[k] = "link" =>
      /\ \E j \in Earlier(l, k, Compiles) : Earlier(l, j, {"pch"}) # {}
      /\ \E j \in Earlier(l, k, Archives) : Earlier(l, j, {"pch"}) # {}

(* A line that rebuilds what it links does that, whatever ran, failed or   *)
(* was killed before it, although a killed pch leaves a new header under   *)
(* the old record.  The one exception: a pool that was ended between an    *)
(* object and its identity file left an object of other flags, and the     *)
(* identity file of the present ones had it taken for cached.              *)
RebuildsLinkOneConfiguration ==
  [][RebuildsAll(line) /\ strays = {} /\ linked' # linked
       => \A f, g \in linked' : f = g]_lineVars

(* Whatever is run by hand, in any order and killed anywhere, neither an   *)
(* object nor an output is written while the record and the environment    *)
(* disagree.                                                               *)
NothingAcrossAMismatch ==
  [][recorded \notin {NoFlags, env} => UNCHANGED <<objects, linked>>]_lineVars
=============================================================================
