----------------------------- MODULE EmbindHandles -----------------------------
(***************************************************************************)
(* Who owns the C++ objects behind the JavaScript handles of a module:     *)
(* the class handles of Embind with the `borrowed` mark of the patch       *)
(* (patches/libembind-overloading.patch), the bindings that return them    *)
(* and the result envelopes with their disposer (embind_builtins.py).      *)
(*                                                                         *)
(* An object of a plain class is owned by the handles that a constructor   *)
(* or a return by value made.  An object of a class derived from           *)
(* Standard_Transient counts references, one for each family of handles    *)
(* that holds an opencascade::handle and one for each C++ object that      *)
(* does.  A member of a plain object lives and dies with it.  The clones   *)
(* of a handle are one family: they share the counter of Embind and the    *)
(* smart pointer.                                                          *)
(*                                                                         *)
(* A handle whose last reference the application drops is collected some   *)
(* time later or never; only handles with a smart pointer have a           *)
(* finalizer.  A program uses a handle only while its object lives, as     *)
(* the rules of C++ ask: what follows from a call on a dead one is open.   *)
(***************************************************************************)
EXTENDS Naturals, FiniteSets

CONSTANTS Plain,    \* objects of classes that Embind destroys by `delete`
          Shared,   \* objects of classes derived from Standard_Transient
          Member,   \* objects inside a plain object
          Static,   \* thread_local slots of results that cannot be copied
          Whole,    \* the plain object that a member is a part of
          Handle,   \* class handles of JavaScript
          Envelope  \* result objects with [Symbol.dispose]

Object == Plain \cup Shared \cup Member \cup Static

ASSUME KindsAssumption ==
  /\ Plain \cap (Shared \cup Member \cup Static) = {}
  /\ Shared \cap (Member \cup Static) = {}
  /\ Member \cap Static = {}
  /\ Whole \in [Member -> Plain]
  /\ Object # {}
ASSUME HandleAssumption == IsFiniteSet(Handle) /\ IsFiniteSet(Plain)

VARIABLES memory,     \* C++: "unborn", "alive", "freed"; "corrupt" if freed twice
          refs,       \* C++: the reference count of a Shared object
          holds,      \* C++: the shared objects that a plain object points to
          state,      \* "none", "live", "deleted" (no $$.ptr) or "lost"
                      \*   (collected without a finalizer)
          record,     \* $$ of a handle; `family` stands for $$.count
          count,      \* $$.count.value of a family, named for its first handle
          nulled,     \* families whose smart pointer is null
          finalizers, \* the handles that the FinalizationRegistry watches
          held,       \* handles and envelopes that the application refers to
          fields      \* the handles in the slots of an envelope

cpp == <<memory, refs, holds>>
js == <<state, record, count, finalizers>>
vars == <<cpp, js, nulled, held, fields>>

Records == [obj : Object, family : Handle, borrowed : BOOLEAN, smart : BOOLEAN]
NoRecord(h) == [obj |-> CHOOSE o \in Object : TRUE, family |-> h,
                borrowed |-> TRUE, smart |-> FALSE]

Init ==
  /\ memory = [o \in Object |-> IF o \in Static THEN "alive" ELSE "unborn"]
  /\ refs = [o \in Shared |-> 0]
  /\ holds = [p \in Plain |-> {}]
  /\ state = [h \in Handle |-> "none"]
  /\ record = [h \in Handle |-> NoRecord(h)]
  /\ count = [h \in Handle |-> 0]
  /\ nulled = {} /\ finalizers = {} /\ held = {}
  /\ fields = [e \in Envelope |-> {}]

----------------------------------------------------------------------------
\* Making handles.

\* RegisteredPointer_fromWireType: a raw pointer is borrowed, a result by
\* value (its type is registered as a reference) is not.
Raw(o, h, isReference) ==
  [obj |-> o, family |-> h, borrowed |-> ~ isReference, smart |-> FALSE]
Smart(o, h) == [obj |-> o, family |-> h, borrowed |-> FALSE, smart |-> TRUE]

\* The constructor of a class marks what it returns as the handle's own.
Constructed(o, h) == [Raw(o, h, FALSE) EXCEPT !.borrowed = FALSE]

\* makeClassHandle and attachFinalizer for fresh handles.
Make(new) ==
  /\ \A h \in DOMAIN new : state[h] = "none"
  /\ state' = [h \in Handle |-> IF h \in DOMAIN new THEN "live" ELSE state[h]]
  /\ record' = [h \in Handle |-> IF h \in DOMAIN new THEN new[h] ELSE record[h]]
  /\ count' = [h \in Handle |-> IF h \in DOMAIN new THEN 1 ELSE count[h]]
  /\ finalizers' = finalizers \cup {h \in DOMAIN new : new[h].smart}

\* Objects come to life together with their members.
Create(new) ==
  memory' = [o \in Object |->
               IF o \in new \/ (o \in Member /\ Whole[o] \in new) THEN "alive"
               ELSE memory[o]]

\* A reachable handle on a living object: methods can be called on it.
Usable(s) == s \in held /\ state[s] = "live" /\ memory[record[s].obj] = "alive"

\* The shared objects that a method of s returns a handle to: those that it
\* points to, itself, or one that it makes.
Offers(s) == {o \in Shared : \/ record[s].obj \in Plain /\ o \in holds[record[s].obj]
                             \/ o = record[s].obj
                             \/ memory[o] = "unborn"}

Construct(o, h) ==
  /\ memory[o] = "unborn"
  /\ Create({o})
  /\ \/ /\ o \in Plain
        /\ Make([k \in {h} |-> Constructed(o, k)])
        /\ UNCHANGED refs
     \/ /\ o \in Shared
        /\ Make([k \in {h} |-> Smart(o, k)])
        /\ refs' = [refs EXCEPT ![o] = 1]
  /\ held' = held \cup {h}
  /\ UNCHANGED <<holds, nulled, fields>>

\* A method that returns an object by value.
ReturnCopy(s, o, h) ==
  /\ Usable(s)
  /\ memory[o] = "unborn"
  /\ Create({o})
  /\ Make([k \in {h} |-> Raw(o, k, TRUE)])
  /\ held' = held \cup {h}
  /\ UNCHANGED <<refs, holds, nulled, fields>>

\* A method that returns T*, or T& of a class without a copy constructor:
\* emscripten::val of the address of a part of the object, of the object
\* itself, of something it points to, or of a thread_local slot.
ReturnPointer(s, o, h) ==
  /\ Usable(s)
  /\ \/ o \in Static
     \/ o \in Member /\ Whole[o] = record[s].obj
     \/ o = record[s].obj
     \/ record[s].obj \in Plain /\ o \in holds[record[s].obj]
  /\ Make([k \in {h} |-> Raw(o, k, FALSE)])
  /\ held' = held \cup {h}
  /\ UNCHANGED <<cpp, nulled, fields>>

\* A method that returns an opencascade::handle.
ReturnShared(s, o, h) ==
  /\ Usable(s)
  /\ o \in Offers(s)
  /\ Create(IF memory[o] = "unborn" THEN {o} ELSE {})
  /\ Make([k \in {h} |-> Smart(o, k)])
  /\ refs' = [refs EXCEPT ![o] = @ + 1]
  /\ held' = held \cup {h}
  /\ UNCHANGED <<holds, nulled, fields>>

\* A method with an output parameter of a handle type: its envelope has the
\* native result and the handle, and the application gets the envelope.
ReturnEnvelope(s, e, o, h, q, k) ==
  /\ Usable(s)
  /\ e \notin held /\ fields[e] = {}
  /\ memory[o] = "unborn" /\ q \in Offers(s) /\ h # k
  /\ Create({o} \cup (IF memory[q] = "unborn" THEN {q} ELSE {}))
  /\ Make([g \in {h, k} |-> IF g = h THEN Raw(o, g, TRUE) ELSE Smart(q, g)])
  /\ refs' = [refs EXCEPT ![q] = @ + 1]
  /\ held' = held \cup {e, h, k}
  /\ fields' = [fields EXCEPT ![e] = {h, k}]
  /\ UNCHANGED <<holds, nulled>>

CloneOwning(h, k) ==
  /\ h \in held /\ state[h] = "live" /\ state[k] = "none"
  /\ state' = [state EXCEPT ![k] = "live"]
  /\ record' = [record EXCEPT ![k] = [record[h] EXCEPT !.borrowed = FALSE]]
  /\ count' = [count EXCEPT ![record[h].family] = @ + 1]
  /\ finalizers' = finalizers \cup (IF record[h].smart THEN {k} ELSE {})
  /\ held' = held \cup {k}
  /\ UNCHANGED <<cpp, nulled, fields>>

CloneUncounted(h, k) ==
  /\ h \in held /\ state[h] = "live" /\ state[k] = "none"
  /\ state' = [state EXCEPT ![k] = "live"]
  /\ record' = [record EXCEPT ![k] = record[h]]
  /\ finalizers' = finalizers \cup (IF record[h].smart THEN {k} ELSE {})
  /\ held' = held \cup {k}
  /\ UNCHANGED <<cpp, count, nulled, fields>>

\* clone(): a copy of $$ that shares the counter.
Clone(h, k) ==
  /\ h \in held /\ state[h] = "live" /\ state[k] = "none"
  /\ state' = [state EXCEPT ![k] = "live"]
  /\ record' = [record EXCEPT ![k] = record[h]]
  /\ count' = [count EXCEPT ![record[h].family] = @ + 1]
  /\ finalizers' = finalizers \cup (IF record[h].smart THEN {k} ELSE {})
  /\ held' = held \cup {k}
  /\ UNCHANGED <<cpp, nulled, fields>>

----------------------------------------------------------------------------
\* Releasing handles.

\* runDestructor for the handles in `last`, the last ones of their families.
\* A plain object goes with its members and lets go of what it points to; a
\* shared one goes with its last reference.
RunDestructor(last) ==
  LET destroyed == {record[h].obj : h \in {g \in last : ~ record[g].borrowed
                                                        /\ ~ record[g].smart}}
      pointers == {h \in last : ~ record[h].borrowed /\ record[h].smart
                                /\ record[h].family \notin nulled}
      released(o) == Cardinality({h \in pointers : record[h].obj = o})
                     + Cardinality({p \in destroyed \cap Plain : o \in holds[p]})
      gone == destroyed \cup {m \in Member : Whole[m] \in destroyed}
              \cup {o \in Shared : released(o) > 0 /\ refs[o] <= released(o)}
  IN /\ refs' = [o \in Shared |-> refs[o] - released(o)]
     /\ holds' = [p \in Plain |-> IF p \in destroyed THEN {} ELSE holds[p]]
     /\ memory' = [o \in Object |->
                     IF o \notin gone THEN memory[o]
                     ELSE IF memory[o] = "alive" THEN "freed" ELSE "corrupt"]

ReleaseWithoutDetach(old) ==
  /\ state' = [h \in Handle |-> IF h \in old THEN "deleted" ELSE state[h]]
  /\ count' = [f \in Handle |-> IF \E h \in old : record[h].family = f
                                THEN count[f] - 1 ELSE count[f]]
  /\ RunDestructor({h \in old : count[record[h].family] = 1})
  /\ UNCHANGED <<record, finalizers, nulled>>

\* detachFinalizer and releaseClassHandle for live handles of different
\* families.
Release(old) ==
  /\ state' = [h \in Handle |-> IF h \in old THEN "deleted" ELSE state[h]]
  /\ count' = [f \in Handle |-> IF \E h \in old : record[h].family = f
                                THEN count[f] - 1 ELSE count[f]]
  /\ finalizers' = finalizers \ old
  /\ RunDestructor({h \in old : count[record[h].family] = 1})
  /\ UNCHANGED <<record, nulled>>

\* delete() and [Symbol.dispose]() of a handle; a deleted one throws, and is
\* of no more use.
Delete(h) ==
  /\ h \in held /\ state[h] = "live"
  /\ Release({h})
  /\ held' = held \ {h}
  /\ UNCHANGED fields

DisposeInOneTry(e) ==
  /\ e \in held /\ fields[e] # {}
  /\ Release(IF \A h \in fields[e] : state[h] = "live" THEN fields[e] ELSE {})
  /\ fields' = [fields EXCEPT ![e] = {}]
  /\ held' = held \ ({e} \cup fields[e])

\* [Symbol.dispose]() of an envelope: every handle in it is deleted, those
\* that are already throw and are passed over, and the slots are cleared.
Dispose(e) ==
  /\ e \in held /\ fields[e] # {}
  /\ Release({h \in fields[e] : state[h] = "live"})
  /\ fields' = [fields EXCEPT ![e] = {}]
  /\ held' = held \ ({e} \cup fields[e])

Drop(x) ==
  /\ x \in held
  /\ held' = held \ {x}
  /\ UNCHANGED <<cpp, js, nulled, fields>>

Unreachable(h) ==
  /\ h \notin held
  /\ \A e \in Envelope : h \in fields[e] => e \notin held

\* The collector takes an unreachable handle, and its finalizer runs.
Finalize(h) ==
  /\ state[h] = "live" /\ Unreachable(h) /\ h \in finalizers
  /\ Release({h})
  /\ UNCHANGED <<held, fields>>

\* A handle without a smart pointer has none: nobody deletes it any more.
Lose(h) ==
  /\ state[h] = "live" /\ Unreachable(h) /\ h \notin finalizers
  /\ state' = [state EXCEPT ![h] = "lost"]
  /\ UNCHANGED <<cpp, record, count, finalizers, nulled, held, fields>>

----------------------------------------------------------------------------
\* References that C++ objects hold.

\* A plain object keeps a handle that is passed to it.  Raw handles are
\* refused as smart pointers ("Passing raw pointer to smart pointer").
Keep(s, a) ==
  LET p == record[s].obj
      o == record[a].obj
  IN /\ Usable(s) /\ p \in Plain
     /\ Usable(a) /\ record[a].smart /\ record[a].family \notin nulled
     /\ o \notin holds[p]
     /\ holds' = [holds EXCEPT ![p] = @ \cup {o}]
     /\ refs' = [refs EXCEPT ![o] = @ + 1]
     /\ UNCHANGED <<memory, js, nulled, held, fields>>

DropReference(o) ==
  /\ refs' = [refs EXCEPT ![o] = @ - 1]
  /\ memory' = [memory EXCEPT ![o] = IF refs[o] > 1 THEN @
                                     ELSE IF @ = "alive" THEN "freed" ELSE "corrupt"]

Forget(s, o) ==
  LET p == record[s].obj
  IN /\ Usable(s) /\ p \in Plain /\ o \in holds[p]
     /\ holds' = [holds EXCEPT ![p] = @ \ {o}]
     /\ DropReference(o)
     /\ UNCHANGED <<js, nulled, held, fields>>

\* nullify(): the smart pointer of the family lets go, $$.ptr stays.
Nullify(h) ==
  /\ h \in held /\ state[h] = "live"
  /\ record[h].smart /\ record[h].family \notin nulled
  /\ nulled' = nulled \cup {record[h].family}
  /\ DropReference(record[h].obj)
  /\ UNCHANGED <<holds, js, held, fields>>

Next ==
  \/ \E h \in Handle : Delete(h) \/ Finalize(h) \/ Lose(h) \/ Nullify(h)
  \/ \E h, k \in Handle : Clone(h, k) \/ Keep(h, k)
  \/ \E o \in Plain \cup Shared : \E h \in Handle : Construct(o, h)
  \/ \E s, h \in Handle : \/ \E o \in Plain : ReturnCopy(s, o, h)
                          \/ \E o \in Object : ReturnPointer(s, o, h)
                          \/ \E o \in Shared : ReturnShared(s, o, h)
  \/ \E s \in Handle : \E o \in Shared : Forget(s, o)
  \/ \E s, h, k \in Handle : \E e \in Envelope : \E o \in Plain : \E q \in Shared :
       ReturnEnvelope(s, e, o, h, q, k)
  \/ \E e \in Envelope : Dispose(e)
  \/ \E x \in Handle \cup Envelope : Drop(x)

Spec == Init /\ [][Next]_vars

----------------------------------------------------------------------------
\* Every variable keeps its type, and the registry watches exactly the live
\* handles with a smart pointer: none is finalized after its deletion.
TypeOK ==
  /\ memory \in [Object -> {"unborn", "alive", "freed", "corrupt"}]
  /\ refs \in [Shared -> Nat]
  /\ holds \in [Plain -> SUBSET Shared]
  /\ state \in [Handle -> {"none", "live", "deleted", "lost"}]
  /\ record \in [Handle -> Records]
  /\ count \in [Handle -> Nat]
  /\ nulled \subseteq Handle /\ held \subseteq Handle \cup Envelope
  /\ fields \in [Envelope -> SUBSET Handle]
  /\ finalizers = {h \in Handle : state[h] = "live" /\ record[h].smart}

\* The handles of a family that were not deleted.
Family(f) == {h \in Handle : state[h] \in {"live", "lost"} /\ record[h].family = f}

\* The families whose smart pointer points to o.
Pointers(o) == {f \in Handle : /\ Family(f) # {} /\ f \notin nulled
                               /\ record[f].smart /\ record[f].obj = o}

\* Embind's counter is the number of handles of a family that were not
\* deleted, and the reference count of OCCT the number of smart pointers,
\* of families and of C++ objects, that point to the object.
CountsAreTrue ==
  /\ \A f \in Handle : count[f] = Cardinality(Family(f))
  /\ \A o \in Shared :
       refs[o] = Cardinality(Pointers(o)) + Cardinality({p \in Plain : o \in holds[p]})

\* A handle that has a share in its object: what the application must delete.
Owns(h) ==
  /\ state[h] \in {"live", "lost"}
  /\ ~ record[h].borrowed
  /\ record[h].smart => record[h].family \notin nulled

OwnersOf(o) ==
  {h \in Handle : Owns(h) /\ record[h].obj = o}
  \cup {p \in Plain : o \in Shared /\ o \in holds[p]}
  \cup {p \in Plain : o \in Member /\ Whole[o] = p /\ memory[p] = "alive"}
  \cup (IF o \in Static THEN {o} ELSE {})

Memory == INSTANCE Ownership WITH
  Thing <- Object, Owner <- Handle \cup Plain \cup Static,
  status <- memory, owners <- [o \in Object |-> OwnersOf(o)]

\* An object lives exactly as long as a handle that owns it or a C++ object
\* that keeps it: deleting borrowed handles and their clones frees nothing,
\* deleting the last owner frees at once, nothing is freed twice, and what
\* leaks was owned by a raw handle that nobody deleted.
LivesAsLongAsOwned == Memory!Spec

\* After the disposer of an envelope ran, no handle that it held is live, be
\* it that the application had deleted some of them before.
DisposerReleasesAll ==
  [][\A e \in Envelope : \A h \in fields[e] :
       fields'[e] = {} => state'[h] # "live"]_vars
==============================================================================
