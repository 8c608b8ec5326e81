---------------------------- MODULE EmbindOverloads ----------------------------
(***************************************************************************)
(* How the patched Embind runtime registers the overloads of one method    *)
(* and of the constructors of the classes of a module, and how it picks    *)
(* one for a call (src/patches/libembind-overloading.patch on              *)
(* vendor/pristine-libembind.js).                                          *)
(*                                                                         *)
(* When a module starts, each bindings object runs its block: the class,   *)
(* then its functions.  The blocks run in the order of the link, which     *)
(* sorts objects by name, so that a block may name types whose own block   *)
(* is still to come.  whenDependentTypesAreResolved then leaves a callback *)
(* behind, which runs inside the registration of the last missing type; a  *)
(* callback that registers a type runs the callbacks of that type before   *)
(* the one after it.                                                       *)
(*                                                                         *)
(* A function is bound (a stub that throws UnboundTypeError takes its      *)
(* place) once its class is registered, and resolved (its invoker takes    *)
(* the place of the stub) once all its types are: its parameters, its      *)
(* result and `this`.  Until then its raw signature, the list of the type  *)
(* ids of its parameters, is its key; after that the list of the           *)
(* JavaScript types that a call can tell apart.  The signature array is    *)
(* one object per function that all tables share: it changes in all of     *)
(* them at once.  The keys and entries of a `signatures` map are copies.   *)
(*                                                                         *)
(* A class stands for its three type ids: itself, pointer, const pointer.  *)
(***************************************************************************)
EXTENDS Naturals, Sequences, FiniteSets

CONSTANTS Class,      \* the classes of the module
          Parent,     \* the base class of a class, or NoClass
          Type,       \* type ids: classes and other types
          Absent,     \* the types that no block of the module registers
          JsType,     \* cppTypeToJsType: a class stays its own type id
          Checked,    \* the types whose toWireType throws for a value that
                      \*   is not theirs; the others convert what they get
          Fn,         \* the overloads a module may have
          Of, Params, \* their class and the type ids of their parameters
          Rest,       \* the type ids of their result and of `this`
          Programs,   \* the modules: of each class the methods (all of one
                      \*   name) and the constructors, in source order
          Calls,      \* argument lists of calls
          NoClass, NoType, NoFn

Js == {JsType[t] : t \in Type \ Class}
Key(f) == [i \in DOMAIN Params[f] |-> JsType[Params[f][i]]]
Arities == {Len(Params[f]) : f \in Fn}
In(s) == {s[i] : i \in DOMAIN s}

\* The classes from the root down to c: the prototype chain, backwards.
Line[c \in Class] ==
  IF Parent[c] = NoClass THEN <<c>> ELSE Append(Line[Parent[c]], c)

\* What a call can come to other than a function.
Failures == {"unbound types", "invalid signature", "cannot convert",
             "invalid number of arguments", "no method"}

ASSUME HierarchyAssumption == /\ Parent \in [Class -> Class \cup {NoClass}]
                              /\ Class \subseteq Type /\ Absent \subseteq Type \ Class
                              /\ NoClass \notin Class /\ NoType \notin Type
                              /\ Checked \subseteq Type
\* Classes are told apart by their type ids, other types by names.
ASSUME JsTypeAssumption ==
  /\ \A c \in Class : JsType[c] = c
  /\ \A t \in Type \ (Class \cup Absent) : JsType[t] \notin Type
\* No class is its own base: some class of any set has its base outside it.
ASSUME AcyclicAssumption ==
  \A s \in SUBSET Class : s # {} => \E c \in s : Parent[c] \notin s
ASSUME FnAssumption ==
  /\ (Failures \cup {NoFn}) \cap Fn = {} /\ Of \in [Fn -> Class]
  /\ Params \in [Fn -> Seq(Type)] /\ Rest \in [Fn -> SUBSET Type]
\* The overloads of one class differ in what a call can tell apart:
\* bindgen merges those that do not into one binding.
ASSUME ProgramsAssumption ==
  /\ Programs \subseteq [methods : [Class -> Seq(Fn)], ctors : [Class -> Seq(Fn)]]
  /\ \A p \in Programs : \A c \in Class : In(p.methods[c]) \cap In(p.ctors[c]) = {}
  /\ \A p \in Programs : \A c \in Class : \A s \in {p.methods[c], p.ctors[c]} :
       /\ \A i \in DOMAIN s : Of[s[i]] = c
       /\ \A i, j \in DOMAIN s : i # j => Key(s[i]) # Key(s[j])

\* The arguments of a call are a list.
ASSUME CallsAssumption == \A args \in Calls : args \in Seq(In(args))

VARIABLES program,    \* this module
          todo,       \* the blocks that have not started
          running,    \* the registrations that remain of the running block
          registered, \* registeredTypes
          awaiting,   \* awaitingDependencies: the callbacks of a type
          missing,    \* the types that a callback has not been told of
          agenda,     \* the callbacks to be called, the next one first
          bound, resolved,  \* the functions that are
          table,      \* overloadTable of the prototypes that have one
          dispatcher, \* per-signature dispatchers, by prototype and arity
          ctor,       \* constructor_body
          early       \* history: the classes whose prototype got its own
                      \* table before all inherited functions were resolved

tables == <<table, dispatcher>>
deps == <<registered, awaiting, missing, agenda>>
startVars == <<program, todo, running, deps, bound, resolved, tables, ctor, early>>

IsMember(f) == f \in In(program.methods[Of[f]])
Linked == UNION {In(program.methods[c]) \cup In(program.ctors[c]) : c \in Class}

----------------------------------------------------------------------------
\* Entries, slots and keys.

Stub(f) == [fn |-> f, bound |-> FALSE]       \* unboundTypesHandler
Invoker(f) == [fn |-> f, bound |-> TRUE]     \* craftInvokerFunction
NoEntry == [fn |-> NoFn, bound |-> FALSE]

\* A slot of an overload table is a function of its own, or a per-signature
\* dispatcher, which is the object of the prototype that owns it.
OwnFunction(e) == [entry |-> e, owner |-> NoClass]
Owned(c) == [entry |-> NoEntry, owner |-> c]

\* The signature of an entry was fixed when the entry was made; what its
\* signature array holds is what it holds now.
Signature(e) == IF e.bound THEN Key(e.fn) ELSE Params[e.fn]
SignatureArray(f) == IF f \in resolved THEN Key(f) ELSE Params[f]

NoDispatcher == [signatures |-> <<>>, order |-> <<>>]
Dispatchers == Class \X Arities

With(map, key, e) == [k \in DOMAIN map \cup {key} |->
                        IF k = key THEN e ELSE map[k]]
Without(map, key) == [k \in DOMAIN map \ {key} |-> map[k]]

\* The prototype on which a look-up of the method ends.
Holder(t, c) ==
  LET up == {i \in DOMAIN Line[c] : t[Line[c][i]] # <<>>}
  IN IF up = {} THEN NoClass
     ELSE Line[c][CHOOSE i \in up : \A j \in up : j <= i]

\* ensureOverloadTable: a prototype that only inherits a table gets its own
\* copy of it.
EnsureOverloadTable(t, c) ==
  [t EXCEPT ![c] = IF @ = <<>> THEN t[Holder(t, c)] ELSE @]

\* createOwnedSignatureDispatcher: what the dispatcher for arity n that c
\* owns is made from.
Forked(slot, n) ==
  IF slot.owner # NoClass THEN dispatcher[<<slot.owner, n>>]
  ELSE [signatures |-> With(<<>>, Signature(slot.entry), slot.entry),
        order |-> <<slot.entry.fn>>]

OwnDispatcher(slot, c, n) ==
  IF slot.owner = c THEN dispatcher[<<c, n>>] ELSE Forked(slot, n)

----------------------------------------------------------------------------
\* whenDependentTypesAreResolved and registerType.

AwaitAlone(cb, types, rest) ==
  LET open == types \ registered
  IN /\ missing' = [missing EXCEPT ![cb] = open]
     /\ awaiting' = [t \in Type |-> IF t \in open THEN <<cb>> ELSE awaiting[t]]
     /\ agenda' = (IF open = {} THEN <<[callback |-> cb, told |-> NoType]>>
                   ELSE <<>>) \o rest

\* Await(cb, types): the agenda starts with the callback when nothing is
\* missing; otherwise the callback waits for every type that is.
Await(cb, types, rest) ==
  LET open == types \ registered
  IN /\ missing' = [missing EXCEPT ![cb] = open]
     /\ awaiting' = [t \in Type |-> IF t \in open THEN Append(awaiting[t], cb)
                                    ELSE awaiting[t]]
     /\ agenda' = (IF open = {} THEN <<[callback |-> cb, told |-> NoType]>>
                   ELSE <<>>) \o rest

RegisterAndForget(t, rest) ==
  /\ registered' = registered \cup {t}
  /\ agenda' = [i \in DOMAIN awaiting[t] |-> [callback |-> awaiting[t][i], told |-> t]]
  /\ awaiting' = [awaiting EXCEPT ![t] = <<>>]

\* Register(t, rest): the callbacks that wait for t come before the rest.
Register(t, rest) ==
  /\ registered' = registered \cup {t}
  /\ agenda' = [i \in DOMAIN awaiting[t] |->
                  [callback |-> awaiting[t][i], told |-> t]] \o rest
  /\ awaiting' = [awaiting EXCEPT ![t] = <<>>]

Callbacks == ({"class"} \X Class) \cup ({"bind", "resolve"} \X Fn)

\* The functions of a class, in the order of its block.
Source(c) == program.ctors[c] \o program.methods[c]

\* The type ids that the registrations of a block are about.
Block(b) == IF b \in Class
            THEN <<<<"class", b>>>>
                 \o [i \in DOMAIN Source(b) |-> <<"bind", Source(b)[i]>>]
            ELSE <<<<"type", b>>>>

StartInit ==
  /\ program \in Programs
  /\ todo = Type \ Absent
  /\ running = <<>>
  /\ registered = {}
  /\ awaiting = [t \in Type |-> <<>>]
  /\ missing = [cb \in Callbacks |-> {}]
  /\ agenda = <<>>
  /\ bound = {} /\ resolved = {}
  /\ table = [c \in Class |-> <<>>]
  /\ dispatcher = [d \in Dispatchers |-> NoDispatcher]
  /\ ctor = [c \in Class |-> <<>>]
  /\ early = {}

\* The linker decides whose block is next.
StartBlock(b) ==
  /\ agenda = <<>> /\ running = <<>> /\ b \in todo
  /\ todo' = todo \ {b}
  /\ running' = Block(b)
  /\ UNCHANGED <<program, deps, bound, resolved, tables, ctor, early>>

Statement(kind) ==
  /\ agenda = <<>> /\ running # <<>> /\ Head(running)[1] = kind
  /\ running' = Tail(running)
  /\ UNCHANGED <<program, todo, bound, resolved, tables, ctor, early>>

RegisterEnum ==
  /\ Statement("type")
  /\ Register(Head(running)[2], <<>>)
  /\ UNCHANGED missing

\* _embind_register_class waits for the base class.
RegisterClass ==
  /\ Statement("class")
  /\ Await(Head(running), {Parent[Head(running)[2]]} \ {NoClass}, <<>>)
  /\ UNCHANGED registered

\* _embind_register_class_function and _class_constructor wait for the class.
RegisterFunction ==
  /\ Statement("bind")
  /\ Await(Head(running), {Of[Head(running)[2]]}, <<>>)
  /\ UNCHANGED registered

\* A type that a callback waits for was registered, but not the last one.
CountType ==
  /\ agenda # <<>>
  /\ LET item == Head(agenda)
     IN /\ ~ (missing[item.callback] \subseteq {item.told})
        /\ missing' = [missing EXCEPT ![item.callback] = @ \ {item.told}]
  /\ agenda' = Tail(agenda)
  /\ UNCHANGED <<program, todo, running, registered, awaiting, bound, resolved,
                 tables, ctor, early>>

Called(kind, x) ==
  /\ agenda # <<>>
  /\ Head(agenda).callback = <<kind, x>>
  /\ missing[<<kind, x>>] \subseteq {Head(agenda).told}
  /\ UNCHANGED <<program, todo, running>>

CompleteClass(c) ==
  /\ Called("class", c)
  /\ Register(c, Tail(agenda))
  /\ UNCHANGED <<missing, bound, resolved, tables, ctor, early>>

\* rawArgTypes: the types that a function waits for, all together.
RawArgTypes(f) == In(Params[f]) \cup Rest[f]
Resolvable(f) == RawArgTypes(f) \cap Absent = {}
Inherited(c) == {f \in Linked : IsMember(f) /\ Of[f] \in In(Line[c]) \ {c}}
InPlace(f) == f \in bound /\ (Resolvable(f) => f \in resolved)

\* What every bind callback does besides: the prototype may get its first
\* table, and the types of the function are awaited.
Bind(f) ==
  /\ Called("bind", f)
  /\ bound' = bound \cup {f}
  /\ Await(<<"resolve", f>>, RawArgTypes(f), Tail(agenda))
  /\ UNCHANGED <<registered, resolved>>

NoteEarly(c) ==
  early' = IF table[c] = <<>> /\ \E f \in Inherited(c) : ~ InPlace(f)
           THEN early \cup {c} ELSE early

\* The first function of the name on the prototype chain: it becomes the
\* one entry of a per-signature dispatcher at once.
BindFirst(f) ==
  LET c == Of[f]
      n == Len(Params[f])
  IN /\ IsMember(f)
     /\ Bind(f)
     /\ Holder(table, c) = NoClass
     /\ table' = [table EXCEPT ![c] = [k \in {n} |-> Owned(c)]]
     /\ dispatcher' = [dispatcher EXCEPT ![<<c, n>>] = Forked(OwnFunction(Stub(f)), n)]
     /\ NoteEarly(c)
     /\ UNCHANGED ctor

\* The name is known, but not with this number of arguments.
BindNewArity(f) ==
  LET c == Of[f]
      n == Len(Params[f])
      own == EnsureOverloadTable(table, c)
  IN /\ IsMember(f)
     /\ Bind(f)
     /\ Holder(table, c) # NoClass
     /\ n \notin DOMAIN table[Holder(table, c)]
     /\ table' = [own EXCEPT ![c] = With(@, n, OwnFunction(Stub(f)))]
     /\ NoteEarly(c)
     /\ UNCHANGED <<dispatcher, ctor>>

BindOverloadShared(f) ==
  LET c == Of[f]
      n == Len(Params[f])
      own == EnsureOverloadTable(table, c)
      owner == IF own[c][n].owner = NoClass THEN c ELSE own[c][n].owner
      old == OwnDispatcher(own[c][n], c, n)
  IN /\ IsMember(f)
     /\ Bind(f)
     /\ Holder(table, c) # NoClass
     /\ n \in DOMAIN table[Holder(table, c)]
     /\ table' = [own EXCEPT ![c][n] = Owned(owner)]
     /\ dispatcher' = [dispatcher EXCEPT ![<<owner, n>>] =
                         [signatures |-> With(old.signatures, Params[f], Stub(f)),
                          order |-> Append(old.order, f)]]
     /\ NoteEarly(c)
     /\ UNCHANGED ctor

\* ... and with this number of arguments: the signature array is reserved
\* behind those of the functions registered before it.
BindOverload(f) ==
  LET c == Of[f]
      n == Len(Params[f])
      own == EnsureOverloadTable(table, c)
      fork == OwnDispatcher(own[c][n], c, n)
  IN /\ IsMember(f)
     /\ Bind(f)
     /\ Holder(table, c) # NoClass
     /\ n \in DOMAIN table[Holder(table, c)]
     /\ table' = [own EXCEPT ![c][n] = Owned(c)]
     /\ dispatcher' = [dispatcher EXCEPT ![<<c, n>>] =
                         [signatures |-> With(fork.signatures, Params[f], Stub(f)),
                          order |-> Append(fork.order, f)]]
     /\ NoteEarly(c)
     /\ UNCHANGED ctor

BindCtorKeepingFunc(f) ==
  LET c == Of[f]
      n == Len(Params[f])
      old == ctor[c][n]
  IN /\ ~ IsMember(f)
     /\ Bind(f)
     /\ ctor' = [ctor EXCEPT ![c] = With(@, n,
                   IF n \notin DOMAIN @
                   THEN [func |-> Stub(f),
                         signatures |-> With(<<>>, Params[f], Stub(f)),
                         order |-> <<f>>]
                   ELSE [func |-> old.func,
                         signatures |-> With(old.signatures, Params[f], Stub(f)),
                         order |-> Append(old.order, f)])]
     /\ UNCHANGED <<tables, early>>

\* Constructors: one body per number of parameters.  The first one alone is
\* called whatever the arguments are, through `func`.
BindCtor(f) ==
  LET c == Of[f]
      n == Len(Params[f])
      old == ctor[c][n]
  IN /\ ~ IsMember(f)
     /\ Bind(f)
     /\ ctor' = [ctor EXCEPT ![c] = With(@, n,
                   IF n \notin DOMAIN @
                   THEN [func |-> Stub(f),
                         signatures |-> With(<<>>, Params[f], Stub(f)),
                         order |-> <<f>>]
                   ELSE [func |-> NoEntry,
                         signatures |-> With(old.signatures, Params[f], Stub(f)),
                         order |-> Append(old.order, f)])]
     /\ UNCHANGED <<tables, early>>

\* The invoker takes the place of the stub, under its resolved key.
Resolved(signatures, f) ==
  With(Without(signatures, Params[f]), Key(f), Invoker(f))

Resolve(f) ==
  /\ Called("resolve", f)
  /\ resolved' = resolved \cup {f}
  /\ agenda' = Tail(agenda)
  /\ UNCHANGED <<registered, awaiting, missing, bound, early>>

ResolvePlain(f) ==
  LET c == Of[f]
      n == Len(Params[f])
  IN /\ IsMember(f)
     /\ Resolve(f)
     /\ table[c][n].owner = NoClass
     /\ table' = [table EXCEPT ![c][n] = OwnFunction(Invoker(f))]
     /\ UNCHANGED <<dispatcher, ctor>>

ResolveAndReorder(f) ==
  LET c == Of[f]
      n == Len(Params[f])
      own == dispatcher[<<c, n>>]
  IN /\ IsMember(f)
     /\ Resolve(f)
     /\ table[c][n].owner # NoClass
     /\ dispatcher' = [dispatcher EXCEPT ![<<c, n>>] =
                         [signatures |-> Resolved(own.signatures, f),
                          order |-> Append(SelectSeq(own.order, LAMBDA g : g # f), f)]]
     /\ UNCHANGED <<table, ctor>>

ResolveOverload(f) ==
  LET c == Of[f]
      n == Len(Params[f])
  IN /\ IsMember(f)
     /\ Resolve(f)
     /\ table[c][n].owner # NoClass
     /\ dispatcher' = [dispatcher EXCEPT ![<<table[c][n].owner, n>>].signatures =
                         Resolved(@, f)]
     /\ UNCHANGED <<table, ctor>>

ResolveCtor(f) ==
  LET c == Of[f]
      n == Len(Params[f])
  IN /\ ~ IsMember(f)
     /\ Resolve(f)
     /\ ctor' = [ctor EXCEPT ![c][n] =
                   [func |-> IF @.func = NoEntry THEN NoEntry ELSE Invoker(f),
                    signatures |-> Resolved(@.signatures, f),
                    order |-> @.order]]
     /\ UNCHANGED tables

StartNext ==
  \/ \E b \in Type : StartBlock(b)
  \/ RegisterEnum \/ RegisterClass \/ RegisterFunction \/ CountType
  \/ \E c \in Class : CompleteClass(c)
  \/ \E f \in Fn : \/ BindFirst(f) \/ BindNewArity(f) \/ BindOverload(f)
                   \/ BindCtor(f)
                   \/ ResolvePlain(f) \/ ResolveOverload(f) \/ ResolveCtor(f)

StartSpec == StartInit /\ [][StartNext]_startVars
FairSpec == StartSpec /\ WF_startVars(StartNext)

----------------------------------------------------------------------------
\* Calls, which the application makes when the module has started.

Started == todo = {} /\ running = <<>> /\ agenda = <<>>

\* Does an argument match one entry of a signature array?  An instance of a
\* class matches its base classes; optional types and val match anything;
\* a raw type id matches as soon as its type is registered.
Matches(field, arg) ==
  \/ field \in Class \cap registered /\ arg \in Class /\ field \in In(Line[arg])
  \/ field \notin Type /\ field \in {"emscripten::val", arg}
  \/ field \in registered \ Class /\ JsType[field] \in {"emscripten::val", arg}

Fits(signature, args) ==
  /\ Len(signature) = Len(args)
  /\ \A i \in DOMAIN args : Matches(signature[i], args[i])

\* Too few arguments are padded with undefined up to the next arity.
Arity(arities, n) ==
  LET more == {k \in arities : k >= n}
  IN IF more = {} THEN n ELSE CHOOSE k \in more : \A j \in more : k <= j

Padded(arities, args) ==
  [i \in 1 .. Arity(arities, Len(args)) |->
     IF i <= Len(args) THEN args[i] ELSE "undefined"]

Outcome(e) == IF e.bound THEN e.fn ELSE "unbound types"

\* getSignature takes the first signature that fits, and its text as the key.
Select(d, args) ==
  LET fit == {i \in DOMAIN d.order : Fits(SignatureArray(d.order[i]), args)}
      key == SignatureArray(d.order[CHOOSE i \in fit : \A j \in fit : i <= j])
  IN IF fit = {} \/ key \notin DOMAIN d.signatures THEN "invalid signature"
     ELSE Outcome(d.signatures[key])

\* toWireType of each parameter: classes and C++ strings throw, numbers only
\* in a build with ASSERTIONS, bool and enums never.
Converts(f, args) ==
  \A i \in DOMAIN args : Params[f][i] \in Checked => Matches(Key(f)[i], args[i])

\* A function that is called without a look at the arguments converts them
\* itself, or throws.
Direct(e, args) ==
  IF e.bound /\ ~ Converts(e.fn, args) THEN "cannot convert" ELSE Outcome(e)

CallMethod(c, arguments) ==
  LET holder == Holder(table, c)
      own == table[holder]
      args == Padded(DOMAIN own, arguments)
      n == Len(args)
  IN IF holder = NoClass THEN "no method"
     ELSE IF n \notin DOMAIN own THEN "invalid number of arguments"
     ELSE IF own[n].owner = NoClass THEN Direct(own[n].entry, args)
     ELSE Select(dispatcher[<<own[n].owner, n>>], args)

\* All that a call on an instance of c can depend on.
Seen(c) ==
  LET own == table[Holder(table, c)]
  IN IF Holder(table, c) = NoClass THEN <<>>
     ELSE [n \in DOMAIN own |->
             IF own[n].owner = NoClass THEN own[n]
             ELSE LET d == dispatcher[<<own[n].owner, n>>]
                  IN <<d.signatures, [i \in DOMAIN d.order |-> SignatureArray(d.order[i])]>>]

CallCtor(c, arguments) ==
  LET args == Padded(DOMAIN ctor[c], arguments)
      body == ctor[c][Len(args)]
  IN IF Len(args) \notin DOMAIN ctor[c] THEN "invalid number of arguments"
     ELSE IF body.func # NoEntry THEN Direct(body.func, args)
     ELSE Select(body, args)

----------------------------------------------------------------------------
\* What a call should come to, from the source order of the overloads alone.

\* The order of the source; what a base class registers comes first.
Before(f, g) == \E i, j \in DOMAIN Source(Of[f]) :
                   i < j /\ Source(Of[f])[i] = f /\ Source(Of[f])[j] = g
Comes(f, g) == Of[f] \in In(Line[Of[g]]) \ {Of[g]} \/ Before(f, g)

\* The overloads that a class has.
Visible(c) == {f \in Linked : IsMember(f) /\ Of[f] \in In(Line[c])}

\* What an overload is known by in the end: by its type ids if one of its
\* types never comes.
Text(f) == IF Resolvable(f) THEN Key(f) ELSE Params[f]

\* The first overload that fits decides by which types it is called; of the
\* overloads known by them, the most derived one is called if all its types
\* came, and throws otherwise.
Chosen(overloads, args) ==
  LET fit == {f \in overloads : Fits(Text(f), args)}
      first == CHOOSE f \in fit : \A g \in fit : ~ Comes(g, f)
      same == {f \in overloads : Text(f) = Text(first)}
  IN IF fit = {} THEN {}
     ELSE {f \in same : Resolvable(f) /\ \A g \in same : ~ Comes(f, g)}

\* A lone overload of its number of parameters, if it is one of `direct`,
\* converts whatever it is called with.
Expected(overloads, direct, arguments) ==
  LET args == Padded({Len(Params[f]) : f \in overloads}, arguments)
      these == {f \in overloads : Len(Params[f]) = Len(args)}
  IN IF \E f \in direct : these = {f}
     THEN {f \in these : Resolvable(f) /\ Converts(f, args)}
     ELSE Chosen(these, args)

\* Of methods, all but the first one of the name.
Later(c) == {f \in Visible(c) : \E g \in Visible(c) : Comes(g, f)}

Answer(outcome) == {outcome} \cap Fn

\* Every variable keeps its type.
DispatchTypeOK ==
  /\ program \in Programs /\ todo \subseteq Type /\ registered \subseteq Type
  /\ running \in Seq(({"class"} \X Class) \cup ({"type"} \X Type) \cup ({"bind"} \X Fn))
  /\ awaiting \in [Type -> Seq(Callbacks)]
  /\ missing \in [Callbacks -> SUBSET Type]
  /\ agenda \in Seq([callback : Callbacks, told : Type \cup {NoType}])
  /\ resolved \subseteq bound /\ bound \subseteq Linked
  /\ \A c \in Class :
       /\ DOMAIN table[c] \subseteq Arities /\ DOMAIN ctor[c] \subseteq Arities
       /\ \A n \in DOMAIN table[c] :
            \/ table[c][n].owner \in In(Line[c]) /\ table[c][n].entry = NoEntry
            \/ table[c][n].owner = NoClass /\ table[c][n].entry.fn \in Linked
  /\ \A d \in Dispatchers : In(dispatcher[d].order) \subseteq Linked
  /\ early \subseteq Class

\* A started module dispatches by registration: for a class that got its own
\* table when what it inherits was in place, a call reaches the first
\* overload in source order that fits (its most derived override), and
\* throws if none does or if a type of it never came, whatever the order in
\* which the blocks ran, types became known and callbacks were called.  Only
\* a lone overload of its arity that is not the first of the name is called
\* without a look at the arguments.
DispatchFollowsRegistration ==
  Started => \A c \in Class : In(Line[c]) \cap early = {} =>
    \A args \in Calls :
      Answer(CallMethod(c, args)) = Expected(Visible(c), Later(c), args)

\* The same for constructors, which nothing inherits: a lone constructor of
\* its arity is called without a look at the arguments.
ConstructorsFollowRegistration ==
  Started => \A c \in Class : \A args \in Calls :
    LET overloads == In(program.ctors[c])
    IN Answer(CallCtor(c, args)) = Expected(overloads, overloads, args)

\* Binding or resolving a function of a class never changes anything that a
\* call on an instance of a class outside its subtree depends on: no table
\* of a base or a sibling is written through an inherited reference.
SiblingsAreIsolated ==
  [][\A c \in Class : \A f \in (bound' \ bound) \cup (resolved' \ resolved) :
       Of[f] \notin In(Line[c]) => Seen(c)' = Seen(c)]_startVars

\* A started module has bound all its functions and resolved exactly those
\* whose types, result and `this` included, its blocks register: no callback
\* was lost, or called too early.
NoCallbackIsLost ==
  Started => bound = Linked /\ resolved = {f \in Linked : Resolvable(f)}

\* Every block runs, and what can be resolved is resolved in the end: no
\* callback is lost, and none waits for a type that was registered.
EventuallyResolved ==
  <>[](Started /\ resolved = {f \in Linked : Resolvable(f)})
==============================================================================
