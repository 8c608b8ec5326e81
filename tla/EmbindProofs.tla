------------------------------ MODULE EmbindProofs ------------------------------
(***************************************************************************)
(* Proofs about EmbindHandles, for any objects, handles and envelopes: an  *)
(* object lives exactly as long as somebody owns it.  And about            *)
(* EmbindOverloads, for any classes and overloads and whatever the order   *)
(* in which their blocks run: what a class holds of a name is its own or   *)
(* its bases', no callback is lost, and constructors are called as the     *)
(* source says.                                                            *)
(***************************************************************************)
EXTENDS EmbindHandles, EmbindOverloads, FiniteSetTheorems, TLAPS

(* The handles that hold a plain object.                                   *)
OwnsRaw(h) == /\ state[h] \in {"live", "lost"}
              /\ ~record[h].borrowed /\ ~record[h].smart

(* A clone has the record of the first handle of its family; only handles  *)
(* of counted objects have smart pointers, and only plain objects are held *)
(* without one.                                                            *)
Recorded(h) ==
  state[h] # "none" =>
    /\ state[record[h].family] # "none"
    /\ record[record[h].family] = record[h]
    /\ memory[record[h].obj] # "unborn"
    /\ record[h].smart => record[h].obj \in Shared /\ ~record[h].borrowed
    /\ ~record[h].smart /\ ~record[h].borrowed => record[h].obj \in Plain
RecordsInv ==
  /\ \A h \in Handle : Recorded(h)
  /\ \A f \in nulled : state[f] # "none"
  /\ \A e \in Envelope : \A h \in fields[e] :
       state[h] # "none" /\ record[h].family = h

(* An object that is held without a smart pointer has one family.          *)
OneFamily ==
  \A h, k \in Handle : OwnsRaw(h) /\ OwnsRaw(k) /\ record[h].obj = record[k].obj
    => record[h].family = record[k].family

(* What lives, and what does not.                                          *)
Alive(o) == memory[o] = "alive"
LivesInv ==
  /\ \A o \in Object : memory[o] # "corrupt"
  /\ \A p \in Plain : Alive(p) <=> \E h \in Handle : OwnsRaw(h) /\ record[h].obj = p
  /\ \A m \in Member : memory[m] = memory[Whole[m]]
  /\ \A s \in Static : Alive(s)
  /\ \A o \in Shared : Alive(o) <=> refs[o] # 0

IInv == TypeOK /\ RecordsInv /\ OneFamily /\ LivesInv /\ CountsAreTrue

-----------------------------------------------------------------------------
Holders(o) == {p \in Plain : o \in holds[p]}
Known == {"live", "lost"}

(* The four kinds of objects.                                              *)
LEMMA Kinds ==
  /\ Plain \subseteq Object /\ Shared \subseteq Object
  /\ Member \subseteq Object /\ Static \subseteq Object
  /\ \A o \in Object : o \in Plain \/ o \in Shared \/ o \in Member \/ o \in Static
  /\ \A o \in Plain : o \notin Shared /\ o \notin Member /\ o \notin Static
  /\ \A o \in Shared : o \notin Plain /\ o \notin Member /\ o \notin Static
  /\ \A o \in Member : /\ o \notin Plain /\ o \notin Shared /\ o \notin Static
                       /\ Whole[o] \in Plain
  /\ \A o \in Static : o \notin Plain /\ o \notin Shared /\ o \notin Member
  BY KindsAssumption DEF Object

(* What is counted is finite.                                              *)
LEMMA Finite ==
  ASSUME NEW o, NEW f
  PROVE  /\ IsFiniteSet(Family(f)) /\ Cardinality(Family(f)) \in Nat
         /\ IsFiniteSet(Pointers(o)) /\ Cardinality(Pointers(o)) \in Nat
         /\ IsFiniteSet(Holders(o)) /\ Cardinality(Holders(o)) \in Nat
<1>1. /\ Family(f) \in SUBSET Handle /\ Pointers(o) \in SUBSET Handle
      /\ Holders(o) \in SUBSET Plain
  BY DEF Family, Pointers, Holders
<1> QED BY <1>1, HandleAssumption, FS_Subset, FS_CardinalityType

LEMMA Counts ==
  ASSUME IInv
  PROVE  /\ \A f \in Handle : count[f] = Cardinality(Family(f))
         /\ \A o \in Shared :
              refs[o] = Cardinality(Pointers(o)) + Cardinality(Holders(o))
  BY DEF IInv, CountsAreTrue, Holders

(* A handle of a family is like its first one.                             *)
LEMMA OfFamily ==
  ASSUME IInv, NEW h \in Handle, state[h] # "none"
  PROVE  /\ record[h] \in Records /\ record[h].family \in Handle
         /\ record[h].obj \in Object /\ memory[record[h].obj] # "unborn"
         /\ state[record[h].family] # "none"
         /\ record[record[h].family] = record[h]
         /\ record[h].smart => record[h].obj \in Shared /\ ~record[h].borrowed
         /\ ~record[h].smart /\ ~record[h].borrowed => record[h].obj \in Plain
<1>1. record[h] \in Records /\ Recorded(h)
  BY DEF IInv, TypeOK, RecordsInv
<1> QED BY <1>1 DEF Recorded, Records

(* A handle that points to o, and o, which then has a pointer.             *)
LEMMA PointedTo ==
  ASSUME IInv, NEW h \in Handle, state[h] \in Known,
         record[h].smart, record[h].family \notin nulled
  PROVE  /\ h \in Family(record[h].family)
         /\ record[h].family \in Pointers(record[h].obj)
         /\ record[h].obj \in Shared /\ Alive(record[h].obj)
         /\ refs[record[h].obj] \in Nat \ {0}
<1> DEFINE f == record[h].family
           o == record[h].obj
<1>1. f \in Handle /\ record[f] = record[h] /\ o \in Shared
  BY OfFamily DEF Known
<1>2. h \in Family(f) /\ f \in Pointers(o)
  BY <1>1 DEF Family, Pointers, Known
<1>3. Cardinality(Pointers(o)) # 0
  BY <1>2, Finite, FS_EmptySet
<1>4. refs[o] # 0 /\ refs[o] \in Nat
  BY <1>1, <1>3, Counts, Finite
<1>5. Alive(o)
  BY <1>1, <1>4 DEF IInv, LivesInv
<1> QED BY <1>1, <1>2, <1>4, <1>5

(* What a plain object keeps lives.                                        *)
LEMMA KeptLives ==
  ASSUME IInv, NEW p \in Plain, NEW o \in holds[p]
  PROVE  o \in Shared /\ Alive(o) /\ refs[o] \in Nat \ {0}
<1>1. o \in Shared /\ p \in Holders(o)
  BY DEF IInv, TypeOK, Holders
<1>2. Cardinality(Holders(o)) # 0
  BY <1>1, Finite, FS_EmptySet
<1>3. refs[o] # 0 /\ refs[o] \in Nat
  BY <1>1, <1>2, Counts, Finite
<1> QED BY <1>1, <1>3 DEF IInv, LivesInv

-----------------------------------------------------------------------------
(* What fresh handles may be.                                              *)
Fresh(new) ==
  \A h \in DOMAIN new :
    /\ h \in Handle /\ new[h] \in Records /\ new[h].family = h
    /\ new[h].smart => new[h].obj \in Shared /\ ~new[h].borrowed
    /\ ~new[h].smart /\ ~new[h].borrowed => new[h].obj \in Plain

LEMMA Makes ==
  ASSUME IInv, NEW new, Fresh(new), Make(new), nulled' = nulled
  PROVE  /\ state' \in [Handle -> {"none", "live", "deleted", "lost"}]
         /\ record' \in [Handle -> Records] /\ count' \in [Handle -> Nat]
         /\ finalizers' = {h \in Handle : state'[h] = "live" /\ record'[h].smart}
         /\ \A h \in Handle :
              /\ state'[h] = IF h \in DOMAIN new THEN "live" ELSE state[h]
              /\ record'[h] = IF h \in DOMAIN new THEN new[h] ELSE record[h]
         /\ \A h \in DOMAIN new : h \in Handle /\ state[h] = "none" /\ h \notin nulled
         /\ \A f \in Handle :
              Family(f)' = IF f \in DOMAIN new THEN {f} ELSE Family(f)
         /\ \A f \in Handle : count'[f] = Cardinality(Family(f)')
         /\ \A o : Pointers(o)' = Pointers(o) \cup
                     {h \in DOMAIN new : new[h].smart /\ new[h].obj = o}
         /\ \A o : \A h \in DOMAIN new : h \notin Pointers(o)
<1>1. /\ \A h \in DOMAIN new : h \in Handle /\ state[h] = "none" /\ h \notin nulled
      /\ state' = [h \in Handle |-> IF h \in DOMAIN new THEN "live" ELSE state[h]]
      /\ record' = [h \in Handle |-> IF h \in DOMAIN new THEN new[h] ELSE record[h]]
      /\ count' = [h \in Handle |-> IF h \in DOMAIN new THEN 1 ELSE count[h]]
      /\ finalizers' = finalizers \cup {h \in DOMAIN new : new[h].smart}
  BY DEF Make, Fresh, IInv, RecordsInv
<1>2. /\ state' \in [Handle -> {"none", "live", "deleted", "lost"}]
      /\ record' \in [Handle -> Records] /\ count' \in [Handle -> Nat]
  BY <1>1 DEF IInv, TypeOK, Fresh
<1>3. finalizers' = {h \in Handle : state'[h] = "live" /\ record'[h].smart}
  BY <1>1 DEF IInv, TypeOK
<1>4. ASSUME NEW f \in Handle
      PROVE  Family(f)' = IF f \in DOMAIN new THEN {f} ELSE Family(f)
  <2>1. ASSUME NEW h \in Handle, state[h] # "none", f \in DOMAIN new
        PROVE  record[h].family # f
    BY <1>1, <2>1, OfFamily
  <2>2. \A h \in Handle : h \in Family(f)' <=>
          state'[h] \in {"live", "lost"} /\ record'[h].family = f
    BY DEF Family
  <2>3. \A h \in Handle : h \in Family(f) <=>
          state[h] \in {"live", "lost"} /\ record[h].family = f
    BY DEF Family
  <2>4. \A h \in DOMAIN new : new[h].family = h
    BY DEF Fresh
  <2>5. \A h \in Handle : h \in Family(f)' <=>
          h \in (IF f \in DOMAIN new THEN {f} ELSE Family(f))
    BY <1>1, <2>1, <2>2, <2>3, <2>4
  <2>6. Family(f)' \subseteq Handle /\ Family(f) \subseteq Handle
    BY DEF Family
  <2> QED BY <2>5, <2>6
<1>5. ASSUME NEW f \in Handle PROVE count'[f] = Cardinality(Family(f)')
  <2>1. CASE f \in DOMAIN new
    BY <1>1, <1>4, <2>1, FS_Singleton
  <2>2. CASE f \notin DOMAIN new
    BY <1>1, <1>4, <2>2, Counts
  <2> QED BY <2>1, <2>2
<1>6. ASSUME NEW f \in Handle, Family(f) # {} PROVE f \notin DOMAIN new
  <2>1. PICK h \in Handle : state[h] # "none" /\ record[h].family = f
    BY <1>6 DEF Family
  <2> QED BY <1>1, <2>1, OfFamily
<1>7. ASSUME NEW o
      PROVE  /\ Pointers(o)' = Pointers(o) \cup
                     {h \in DOMAIN new : new[h].smart /\ new[h].obj = o}
             /\ \A h \in DOMAIN new : h \notin Pointers(o)
  <2>1. \A f \in Handle : f \in Pointers(o)' <=>
          /\ Family(f)' # {} /\ f \notin nulled
          /\ record'[f].smart /\ record'[f].obj = o
    BY DEF Pointers
  <2>2. \A f \in Handle : f \in Pointers(o) <=>
          /\ Family(f) # {} /\ f \notin nulled
          /\ record[f].smart /\ record[f].obj = o
    BY DEF Pointers
  <2>3. Pointers(o)' \subseteq Handle /\ Pointers(o) \subseteq Handle
    BY DEF Pointers
  <2>4. \A f \in DOMAIN new : f \notin Pointers(o)
    BY <1>1, <1>6, <2>2
  <2>5. \A f \in Handle : f \in Pointers(o)' <=>
          f \in Pointers(o) \/ (f \in DOMAIN new /\ new[f].smart /\ new[f].obj = o)
    BY <1>1, <1>4, <2>1, <2>2, <2>4
  <2> QED BY <1>1, <2>3, <2>4, <2>5
<1> QED BY <1>1, <1>2, <1>3, <1>4, <1>5, <1>7

-----------------------------------------------------------------------------
SmartFor(new, o) == {h \in DOMAIN new : new[h].smart /\ new[h].obj = o}
RawIn(new, h) == ~new[h].smart /\ ~new[h].borrowed

(* A step that makes objects and handles: every plain object that it makes *)
(* gets one handle, a counted one is counted for each smart pointer.       *)
Births(new, born) ==
  /\ Fresh(new) /\ Make(new) /\ nulled' = nulled /\ holds' = holds
  /\ born \subseteq Plain \cup Shared
  /\ \A o \in born : memory[o] = "unborn"
  /\ Create(born)
  /\ \A h \in DOMAIN new : memory'[new[h].obj] # "unborn"
  /\ \A h \in DOMAIN new : RawIn(new, h) => new[h].obj \in born
  /\ \A h, k \in DOMAIN new :
       RawIn(new, h) /\ RawIn(new, k) /\ new[h].obj = new[k].obj => h = k
  /\ \A o \in born : o \in Plain =>
       \E h \in DOMAIN new : RawIn(new, h) /\ new[h].obj = o
  /\ \A o \in Shared :
       /\ refs'[o] = refs[o] + Cardinality(SmartFor(new, o))
       /\ o \in born => SmartFor(new, o) # {}
       /\ SmartFor(new, o) # {} => Alive(o) \/ o \in born
  /\ refs' \in [Shared -> Nat]
  /\ fields' \in [Envelope -> SUBSET Handle] /\ held' \subseteq Handle \cup Envelope
  /\ \A e \in Envelope : fields'[e] \subseteq fields[e] \cup DOMAIN new

(* What is made lives, and the rest stays as it was.                       *)
LEMMA BirthMemory ==
  ASSUME IInv, NEW new, NEW born, Births(new, born)
  PROVE  /\ memory' \in [Object -> {"unborn", "alive", "freed", "corrupt"}]
         /\ \A o \in Plain \cup Shared :
              memory'[o] = IF o \in born THEN "alive" ELSE memory[o]
         /\ \A m \in Member :
              memory'[m] = IF Whole[m] \in born THEN "alive" ELSE memory[m]
         /\ \A o \in Static : memory'[o] = memory[o]
         /\ \A o \in Object : \/ memory'[o] = memory[o]
                              \/ memory[o] = "unborn" /\ memory'[o] = "alive"
<1>1. /\ memory' = [o \in Object |->
               IF o \in born \/ (o \in Member /\ Whole[o] \in born) THEN "alive"
               ELSE memory[o]]
      /\ born \subseteq Plain \cup Shared /\ \A o \in born : memory[o] = "unborn"
  BY DEF Births, Create
<1>2. /\ memory \in [Object -> {"unborn", "alive", "freed", "corrupt"}]
      /\ \A m \in Member : memory[m] = memory[Whole[m]]
  BY DEF IInv, TypeOK, LivesInv
<1>3. memory' \in [Object -> {"unborn", "alive", "freed", "corrupt"}]
  BY <1>1, <1>2
<1>4. \A o \in Plain \cup Shared :
        memory'[o] = IF o \in born THEN "alive" ELSE memory[o]
  BY <1>1, Kinds
<1>5. \A m \in Member : memory'[m] = IF Whole[m] \in born THEN "alive" ELSE memory[m]
  BY <1>1, Kinds
<1>6. \A o \in Static : memory'[o] = memory[o]
  BY <1>1, Kinds
<1>7. \A o \in Object : \/ memory'[o] = memory[o]
                        \/ memory[o] = "unborn" /\ memory'[o] = "alive"
  BY <1>1, <1>2, Kinds
<1> QED BY <1>3, <1>4, <1>5, <1>6, <1>7

(* The facts about handles after such a step.                              *)
LEMMA BirthHandles ==
  ASSUME IInv, NEW new, NEW born, Births(new, born)
  PROVE  RecordsInv' /\ OneFamily'
         /\ \A h \in Handle : OwnsRaw(h)' <=>
              \/ OwnsRaw(h) /\ record'[h] = record[h]
              \/ h \in DOMAIN new /\ RawIn(new, h) /\ record'[h] = new[h]
<1>1. Fresh(new) /\ Make(new) /\ nulled' = nulled
  BY DEF Births
<1>2. /\ \A h \in Handle :
              /\ state'[h] = IF h \in DOMAIN new THEN "live" ELSE state[h]
              /\ record'[h] = IF h \in DOMAIN new THEN new[h] ELSE record[h]
      /\ \A h \in DOMAIN new : h \in Handle /\ state[h] = "none" /\ h \notin nulled
  BY <1>1, Makes
<1>3. ASSUME NEW h \in Handle PROVE Recorded(h)'
  <2>1. CASE h \in DOMAIN new
    <3>1. /\ new[h].family = h /\ memory'[new[h].obj] # "unborn"
          /\ new[h].smart => new[h].obj \in Shared /\ ~new[h].borrowed
          /\ ~new[h].smart /\ ~new[h].borrowed => new[h].obj \in Plain
      BY <1>1, <2>1 DEF Fresh, Births
    <3> QED BY <1>2, <2>1, <3>1 DEF Recorded
  <2>2. CASE h \notin DOMAIN new /\ state[h] # "none"
    <3>1. /\ record[h] \in Records /\ record[h].family \in Handle
          /\ record[h].obj \in Object /\ memory[record[h].obj] # "unborn"
          /\ state[record[h].family] # "none"
          /\ record[record[h].family] = record[h]
          /\ record[h].smart => record[h].obj \in Shared /\ ~record[h].borrowed
          /\ ~record[h].smart /\ ~record[h].borrowed => record[h].obj \in Plain
      BY <2>2, OfFamily
    <3>2. memory'[record[h].obj] # "unborn"
      BY <3>1, BirthMemory
    <3>3. record[h].family \notin DOMAIN new
      BY <1>2, <3>1
    <3> QED BY <1>2, <2>2, <3>1, <3>2, <3>3 DEF Recorded
  <2>3. CASE h \notin DOMAIN new /\ state[h] = "none"
    BY <1>2, <2>3 DEF Recorded
  <2> QED BY <2>1, <2>2, <2>3
<1>4. \A f \in nulled' : state'[f] # "none"
  BY <1>1, <1>2 DEF IInv, RecordsInv, TypeOK
<1>5. ASSUME NEW e \in Envelope, NEW h \in fields'[e]
      PROVE  state'[h] # "none" /\ record'[h].family = h
  <2>1. h \in Handle /\ (h \in fields[e] \/ h \in DOMAIN new)
    BY DEF Births
  <2>2. CASE h \in DOMAIN new
    BY <1>1, <1>2, <2>2, <2>1 DEF Fresh
  <2>3. CASE h \in fields[e] /\ h \notin DOMAIN new
    BY <1>2, <2>1, <2>3 DEF IInv, RecordsInv
  <2> QED BY <2>1, <2>2, <2>3
<1>6. \A h \in Handle : OwnsRaw(h)' <=>
              \/ OwnsRaw(h) /\ record'[h] = record[h]
              \/ h \in DOMAIN new /\ RawIn(new, h) /\ record'[h] = new[h]
  BY <1>2 DEF OwnsRaw, RawIn
<1>7. \A h \in Handle : OwnsRaw(h) =>
        record[h].obj \in Plain /\ memory[record[h].obj] # "unborn"
  BY OfFamily DEF OwnsRaw
<1>8. \A h \in DOMAIN new : RawIn(new, h) => memory[new[h].obj] = "unborn"
  BY DEF Births
<1>9. \A h, k \in DOMAIN new :
        RawIn(new, h) /\ RawIn(new, k) /\ new[h].obj = new[k].obj => h = k
  BY DEF Births
<1>10. \A h, k \in Handle : OwnsRaw(h) /\ OwnsRaw(k) /\ record[h].obj = record[k].obj
    => record[h].family = record[k].family
  BY DEF IInv, OneFamily
<1>11. OneFamily'
  <2> SUFFICES ASSUME NEW h \in Handle, NEW k \in Handle, OwnsRaw(h)', OwnsRaw(k)',
                      record'[h].obj = record'[k].obj
               PROVE  record'[h].family = record'[k].family
    BY DEF OneFamily
  <2> QED BY <1>6, <1>7, <1>8, <1>9, <1>10
<1> QED BY <1>3, <1>4, <1>5, <1>6, <1>11 DEF RecordsInv

(* Lives and counts after such a step.                                     *)
LEMMA BirthCounts ==
  ASSUME IInv, NEW new, NEW born, Births(new, born)
  PROVE  /\ CountsAreTrue'
         /\ \A o \in Shared : refs'[o] # 0 <=> refs[o] # 0 \/ SmartFor(new, o) # {}
<1>1. Fresh(new) /\ Make(new) /\ nulled' = nulled /\ holds' = holds
  BY DEF Births
<1>2. /\ \A f \in Handle : count'[f] = Cardinality(Family(f)')
      /\ \A o : Pointers(o)' = Pointers(o) \cup
                     {h \in DOMAIN new : new[h].smart /\ new[h].obj = o}
      /\ \A o : \A h \in DOMAIN new : h \notin Pointers(o)
      /\ DOMAIN new \subseteq Handle
  BY <1>1, Makes
<1>3. ASSUME NEW o \in Shared
      PROVE  /\ refs'[o] = Cardinality(Pointers(o)')
                             + Cardinality({p \in Plain : o \in holds'[p]})
             /\ refs'[o] # 0 <=> refs[o] # 0 \/ SmartFor(new, o) # {}
  <2> DEFINE S == SmartFor(new, o)
             H == {p \in Plain : o \in holds'[p]}
  <2>1. H = Holders(o)
    BY <1>1 DEF Holders
  <2>2. S \in SUBSET Handle /\ Pointers(o)' = Pointers(o) \cup S
        /\ Pointers(o) \cap S = {}
    BY <1>2 DEF SmartFor
  <2>3. IsFiniteSet(S)
    BY <2>2, HandleAssumption, FS_Subset
  <2>4. Cardinality(S) \in Nat /\ (Cardinality(S) = 0 <=> S = {})
    BY <2>3, FS_CardinalityType, FS_EmptySet
  <2> HIDE DEF S, H
  <2>5. IsFiniteSet(Pointers(o)) /\ Cardinality(Pointers(o)) \in Nat
        /\ Cardinality(Holders(o)) \in Nat
    BY Finite
  <2>6. Cardinality(Pointers(o)') = Cardinality(Pointers(o)) + Cardinality(S)
    <3>1. Cardinality(Pointers(o) \cup S) =
            Cardinality(Pointers(o)) + Cardinality(S) - Cardinality(Pointers(o) \cap S)
      BY <2>3, <2>5, FS_Union
    <3>2. Cardinality(Pointers(o) \cap S) = 0
      BY <2>2, FS_EmptySet
    <3>3. Cardinality(Pointers(o) \cup S) =
            Cardinality(Pointers(o)) + Cardinality(S) - 0
      BY <3>1, <3>2
    <3>4. \A a, b \in Nat : a + b - 0 = a + b
      OBVIOUS
    <3>5. Cardinality(Pointers(o)) + Cardinality(S) - 0
            = Cardinality(Pointers(o)) + Cardinality(S)
      BY <2>4, <2>5, <3>4
    <3> QED BY <2>2, <3>3, <3>5, Zenon
  <2>7. refs'[o] = refs[o] + Cardinality(S)
    BY DEF Births, S
  <2>8. refs[o] = Cardinality(Pointers(o)) + Cardinality(Holders(o))
    BY Counts
  <2> DEFINE a == Cardinality(Pointers(o))
             b == Cardinality(Holders(o))
             c == Cardinality(S)
  <2>10. (a + b) + c = (a + c) + b /\ ((a + b) + c # 0 <=> a + b # 0 \/ c # 0)
    <3> HIDE DEF a, b, c
    <3>1. a \in Nat /\ b \in Nat /\ c \in Nat
      BY <2>4, <2>5 DEF a, b, c
    <3> QED BY <3>1
  <2>11. refs'[o] = (a + b) + c /\ refs[o] = a + b
    BY <2>7, <2>8
  <2>12. Cardinality(Pointers(o)') = a + c /\ Cardinality(H) = b
    BY <2>1, <2>6
  <2>13. /\ refs'[o] = Cardinality(Pointers(o)') + Cardinality(H)
         /\ refs'[o] # 0 <=> refs[o] # 0 \/ c # 0
    <3> HIDE DEF a, b, c
    <3>1. (a + b) + c = Cardinality(Pointers(o)') + Cardinality(H)
      BY <2>10, <2>12, Zenon
    <3> QED BY <2>10, <2>11, <3>1, Zenon
  <2> QED BY <2>4, <2>13, Zenon DEF S, H
<1> QED BY <1>2, <1>3 DEF CountsAreTrue

LEMMA Birth ==
  ASSUME IInv, NEW new, NEW born, Births(new, born)
  PROVE  IInv'
<1>1. TypeOK'
  <2>1. Fresh(new) /\ Make(new) /\ nulled' = nulled /\ holds' = holds
    BY DEF Births
  <2>2. /\ state' \in [Handle -> {"none", "live", "deleted", "lost"}]
        /\ record' \in [Handle -> Records] /\ count' \in [Handle -> Nat]
        /\ finalizers' = {h \in Handle : state'[h] = "live" /\ record'[h].smart}
    BY <2>1, Makes
  <2>3. /\ refs' \in [Shared -> Nat] /\ fields' \in [Envelope -> SUBSET Handle]
        /\ held' \subseteq Handle \cup Envelope
    BY DEF Births
  <2>4. memory' \in [Object -> {"unborn", "alive", "freed", "corrupt"}]
    BY BirthMemory
  <2>5. holds' \in [Plain -> SUBSET Shared] /\ nulled' \subseteq Handle
    BY <2>1 DEF IInv, TypeOK
  <2> QED BY <2>2, <2>3, <2>4, <2>5 DEF TypeOK
<1>2. RecordsInv' /\ OneFamily' /\ CountsAreTrue'
  BY BirthHandles, BirthCounts
<1>3. LivesInv'
  <2>1. \A o \in Object : memory'[o] # "corrupt"
    BY BirthMemory DEF IInv, LivesInv
  <2>2. ASSUME NEW p \in Plain
        PROVE  Alive(p)' <=> \E h \in Handle : OwnsRaw(h)' /\ record'[h].obj = p
    <3>1. Alive(p) <=> \E h \in Handle : OwnsRaw(h) /\ record[h].obj = p
      BY DEF IInv, LivesInv
    <3>2. Alive(p)' <=> p \in born \/ Alive(p)
      BY BirthMemory DEF Alive
    <3>3. \A h \in Handle : OwnsRaw(h)' <=>
              \/ OwnsRaw(h) /\ record'[h] = record[h]
              \/ h \in DOMAIN new /\ RawIn(new, h) /\ record'[h] = new[h]
      BY BirthHandles
    <3>4. /\ \A h \in DOMAIN new : RawIn(new, h) => new[h].obj \in born
          /\ p \in born => \E h \in DOMAIN new : RawIn(new, h) /\ new[h].obj = p
      BY DEF Births
    <3>5. \A h \in Handle :
            /\ record'[h] = IF h \in DOMAIN new THEN new[h] ELSE record[h]
            /\ h \in DOMAIN new => ~OwnsRaw(h)
      BY Makes DEF Births, OwnsRaw
    <3>6. DOMAIN new \subseteq Handle
      BY DEF Births, Fresh
    <3>7. ASSUME Alive(p)' PROVE \E h \in Handle : OwnsRaw(h)' /\ record'[h].obj = p
      BY <3>1, <3>2, <3>3, <3>4, <3>5, <3>6, <3>7
    <3>8. ASSUME NEW h \in Handle, OwnsRaw(h)', record'[h].obj = p PROVE Alive(p)'
      BY <3>1, <3>2, <3>3, <3>4, <3>8
    <3> QED BY <3>7, <3>8
  <2>3. \A m \in Member : memory'[m] = memory'[Whole[m]]
    <3>1. \A m \in Member : Whole[m] \in Plain /\ memory[m] = memory[Whole[m]]
      BY Kinds DEF IInv, LivesInv
    <3> QED BY <3>1, BirthMemory
  <2>4. \A s \in Static : Alive(s)'
    BY BirthMemory DEF IInv, LivesInv, Alive
  <2>5. ASSUME NEW o \in Shared PROVE Alive(o)' <=> refs'[o] # 0
    <3>1. Alive(o)' <=> o \in born \/ Alive(o)
      BY BirthMemory DEF Alive
    <3>2. refs'[o] # 0 <=> refs[o] # 0 \/ SmartFor(new, o) # {}
      BY BirthCounts
    <3>3. /\ o \in born => SmartFor(new, o) # {}
          /\ SmartFor(new, o) # {} => Alive(o) \/ o \in born
      BY DEF Births
    <3>4. Alive(o) <=> refs[o] # 0
      BY DEF IInv, LivesInv
    <3> QED BY <3>1, <3>2, <3>3, <3>4
  <2> QED BY <2>1, <2>2, <2>3, <2>4, <2>5 DEF LivesInv
<1> QED BY <1>1, <1>2, <1>3 DEF IInv

-----------------------------------------------------------------------------
(* An object only comes to life and is freed.                              *)
Ages ==
  \A o \in Object : \/ memory'[o] = memory[o]
                    \/ memory[o] = "unborn" /\ memory'[o] = "alive"
                    \/ memory[o] = "alive" /\ memory'[o] = "freed"

LEMMA BirthAges ==
  ASSUME IInv, NEW new, NEW born, Births(new, born)
  PROVE  IInv' /\ Ages
  BY Birth, BirthMemory DEF Ages

(* A usable handle and its object.                                         *)
LEMMA Used ==
  ASSUME IInv, NEW s \in Handle, Usable(s)
  PROVE  /\ s \in held /\ state[s] = "live" /\ record[s] \in Records
         /\ record[s].obj \in Object /\ Alive(record[s].obj)
         /\ \A o \in Shared : o \in Offers(s) => Alive(o) \/ memory[o] = "unborn"
<1>1. s \in held /\ state[s] = "live" /\ Alive(record[s].obj)
  BY DEF Usable, Alive
<1>2. record[s] \in Records /\ record[s].obj \in Object
  BY <1>1, OfFamily
<1>3. ASSUME NEW o \in Shared, o \in Offers(s) PROVE Alive(o) \/ memory[o] = "unborn"
  <2>1. CASE record[s].obj \in Plain /\ o \in holds[record[s].obj]
    BY <2>1, KeptLives
  <2> QED BY <1>1, <1>3, <2>1 DEF Offers
<1> QED BY <1>1, <1>2, <1>3

(* How many smart pointers a step makes.                                   *)
LEMMA NoSmart ==
  ASSUME IInv, NEW new, \A h \in DOMAIN new : ~new[h].smart
  PROVE  \A o \in Shared : /\ SmartFor(new, o) = {}
                           /\ refs[o] = refs[o] + Cardinality(SmartFor(new, o))
<1>1. \A o : SmartFor(new, o) = {}
  BY DEF SmartFor
<1>2. \A o \in Shared : refs[o] \in Nat
  BY DEF IInv, TypeOK
<1>3. Cardinality({}) = 0
  BY FS_EmptySet
<1>4. \A n \in Nat : n = n + 0
  OBVIOUS
<1> QED BY <1>1, <1>2, <1>3, <1>4, Zenon

LEMMA OneSmart ==
  ASSUME IInv, NEW new, NEW k \in DOMAIN new, new[k].smart, new[k].obj \in Shared,
         \A h \in DOMAIN new : new[h].smart => h = k,
         refs' = [refs EXCEPT ![new[k].obj] = @ + 1]
  PROVE  /\ refs' \in [Shared -> Nat]
         /\ \A o \in Shared :
              /\ refs'[o] = refs[o] + Cardinality(SmartFor(new, o))
              /\ SmartFor(new, o) # {} <=> o = new[k].obj
<1> DEFINE q == new[k].obj
<1>1. \A o : SmartFor(new, o) = IF o = q THEN {k} ELSE {}
  BY DEF SmartFor
<1>2. refs \in [Shared -> Nat]
  BY DEF IInv, TypeOK
<1>3. Cardinality({}) = 0 /\ Cardinality({k}) = 1
  BY FS_EmptySet, FS_Singleton
<1>4. refs' \in [Shared -> Nat]
  BY <1>2
<1>5. \A o \in Shared : refs'[o] = IF o = q THEN refs[o] + 1 ELSE refs[o] + 0
  BY <1>2
<1>6. ASSUME NEW o \in Shared
      PROVE  /\ refs'[o] = refs[o] + Cardinality(SmartFor(new, o))
             /\ SmartFor(new, o) # {} <=> o = q
  <2>1. CASE o = q
    BY <1>1, <1>3, <1>5, <2>1, Zenon
  <2>2. CASE o # q
    BY <1>1, <1>3, <1>5, <2>2, Zenon
  <2> QED BY <2>1, <2>2
<1> QED BY <1>4, <1>6

(* The operations that make objects and handles.                           *)
LEMMA DoConstruct ==
  ASSUME IInv, NEW o \in Plain \cup Shared, NEW h \in Handle, Construct(o, h)
  PROVE  IInv' /\ Ages
<1>1. /\ memory[o] = "unborn" /\ Create({o}) /\ nulled' = nulled /\ holds' = holds
      /\ fields' = fields /\ held' = held \cup {h}
  BY DEF Construct
<1>2. /\ fields' \in [Envelope -> SUBSET Handle] /\ held' \subseteq Handle \cup Envelope
      /\ o \in Object
  BY <1>1, Kinds DEF IInv, TypeOK
<1>3. memory'[o] = "alive"
  BY <1>1, <1>2 DEF Create
<1>4. CASE o \in Plain /\ Make([k \in {h} |-> Constructed(o, k)]) /\ UNCHANGED refs
  <2> DEFINE new == [k \in {h} |-> Constructed(o, k)]
  <2>1. /\ DOMAIN new = {h} /\ new[h] \in Records /\ new[h].family = h
        /\ new[h].obj = o /\ ~new[h].smart /\ ~new[h].borrowed
    BY <1>2 DEF Constructed, Raw, Records
  <2> HIDE DEF new
  <2>2. \A q \in Shared : /\ SmartFor(new, q) = {}
                          /\ refs[q] = refs[q] + Cardinality(SmartFor(new, q))
    BY <2>1, NoSmart
  <2>3. refs' \in [Shared -> Nat] /\ refs' = refs
    BY <1>4 DEF IInv, TypeOK
  <2>4. o \notin Shared
    BY <1>4, Kinds
  <2>5. Fresh(new) /\ Make(new)
    BY <1>4, <2>1 DEF Fresh, new
  <2>6. \A q \in Shared : /\ refs'[q] = refs[q] + Cardinality(SmartFor(new, q))
                          /\ q \notin {o} /\ SmartFor(new, q) = {}
    BY <2>2, <2>3, <2>4, Zenon
  <2>7. Births(new, {o})
    BY <1>1, <1>2, <1>3, <1>4, <2>1, <2>3, <2>5, <2>6 DEF Births, RawIn
  <2> QED BY <2>7, BirthAges
<1>5. CASE o \in Shared /\ Make([k \in {h} |-> Smart(o, k)])
           /\ refs' = [refs EXCEPT ![o] = 1]
  <2> DEFINE new == [k \in {h} |-> Smart(o, k)]
  <2>1. /\ DOMAIN new = {h} /\ new[h] \in Records /\ new[h].family = h
        /\ new[h].obj = o /\ new[h].smart /\ ~new[h].borrowed
    BY <1>2 DEF Smart, Records
  <2> HIDE DEF new
  <2>2. refs[o] = 0
    BY <1>1, <1>5 DEF IInv, LivesInv, Alive
  <2>3. refs' = [refs EXCEPT ![o] = @ + 1]
    BY <1>5, <2>2 DEF IInv, TypeOK
  <2>4. /\ refs' \in [Shared -> Nat]
        /\ \A q \in Shared :
              /\ refs'[q] = refs[q] + Cardinality(SmartFor(new, q))
              /\ SmartFor(new, q) # {} <=> q = o
    <3>1. /\ h \in DOMAIN new /\ (\A x \in DOMAIN new : new[x].smart => x = h)
          /\ new[h].obj = o /\ new[h].smart /\ o \in Shared
      BY <1>5, <2>1
    <3> QED BY <2>3, <3>1, OneSmart
  <2>5. Fresh(new) /\ Make(new)
    BY <1>5, <2>1 DEF Fresh, new
  <2>6. o \notin Plain
    BY <1>5, Kinds
  <2>7. Births(new, {o})
    BY <1>1, <1>2, <1>3, <1>5, <2>1, <2>4, <2>5, <2>6 DEF Births, RawIn
  <2> QED BY <2>7, BirthAges
<1> QED BY <1>4, <1>5 DEF Construct

LEMMA DoReturnCopy ==
  ASSUME IInv, NEW s \in Handle, NEW o \in Plain, NEW h \in Handle, ReturnCopy(s, o, h)
  PROVE  IInv' /\ Ages
<1> DEFINE new == [k \in {h} |-> Raw(o, k, TRUE)]
<1>1. /\ memory[o] = "unborn" /\ Create({o}) /\ nulled' = nulled /\ holds' = holds
      /\ refs' = refs /\ fields' = fields /\ held' = held \cup {h} /\ Make(new)
  BY DEF ReturnCopy
<1>2. /\ fields' \in [Envelope -> SUBSET Handle] /\ held' \subseteq Handle \cup Envelope
      /\ refs' \in [Shared -> Nat] /\ o \in Object /\ o \notin Shared
  BY <1>1, Kinds DEF IInv, TypeOK
<1>3. memory'[o] = "alive"
  BY <1>1, <1>2 DEF Create
<1>4. /\ DOMAIN new = {h} /\ new[h] \in Records /\ new[h].family = h
      /\ new[h].obj = o /\ ~new[h].smart /\ ~new[h].borrowed
  BY <1>2 DEF Raw, Records
<1> HIDE DEF new
<1>5. \A q \in Shared : /\ SmartFor(new, q) = {}
                        /\ refs[q] = refs[q] + Cardinality(SmartFor(new, q))
  BY <1>4, NoSmart
<1>6. \A q \in Shared : /\ refs'[q] = refs[q] + Cardinality(SmartFor(new, q))
                        /\ q \notin {o} /\ SmartFor(new, q) = {}
  BY <1>1, <1>2, <1>5, Zenon
<1>7. Fresh(new)
  BY <1>4 DEF Fresh
<1>8. Births(new, {o})
  BY <1>1, <1>2, <1>3, <1>4, <1>6, <1>7 DEF Births, RawIn
<1> QED BY <1>8, BirthAges

LEMMA DoReturnPointer ==
  ASSUME IInv, NEW s \in Handle, NEW o \in Object, NEW h \in Handle,
         ReturnPointer(s, o, h)
  PROVE  IInv' /\ Ages
<1> DEFINE new == [k \in {h} |-> Raw(o, k, FALSE)]
<1>1. /\ Usable(s) /\ memory' = memory /\ nulled' = nulled /\ holds' = holds
      /\ refs' = refs /\ fields' = fields /\ held' = held \cup {h} /\ Make(new)
  BY DEF ReturnPointer, cpp
<1>2. /\ fields' \in [Envelope -> SUBSET Handle] /\ held' \subseteq Handle \cup Envelope
      /\ refs' \in [Shared -> Nat]
  BY <1>1 DEF IInv, TypeOK
<1>3. memory'[o] # "unborn"
  <2>1. Alive(record[s].obj)
    BY <1>1, Used
  <2>2. CASE o \in Static
    BY <1>1, <2>2 DEF IInv, LivesInv, Alive
  <2>3. CASE o \in Member /\ Whole[o] = record[s].obj
    BY <1>1, <2>1, <2>3 DEF IInv, LivesInv, Alive
  <2>4. CASE o = record[s].obj
    BY <1>1, <2>1, <2>4 DEF Alive
  <2>5. CASE record[s].obj \in Plain /\ o \in holds[record[s].obj]
    BY <1>1, <2>5, KeptLives DEF Alive
  <2> QED BY <2>2, <2>3, <2>4, <2>5 DEF ReturnPointer
<1>4. /\ DOMAIN new = {h} /\ new[h] \in Records /\ new[h].family = h
      /\ new[h].obj = o /\ ~new[h].smart /\ new[h].borrowed
  BY DEF Raw, Records
<1> HIDE DEF new
<1>5. \A q \in Shared : /\ SmartFor(new, q) = {}
                        /\ refs[q] = refs[q] + Cardinality(SmartFor(new, q))
  BY <1>4, NoSmart
<1>6. \A q \in Shared : /\ refs'[q] = refs[q] + Cardinality(SmartFor(new, q))
                        /\ SmartFor(new, q) = {}
  BY <1>1, <1>5, Zenon
<1>7. Fresh(new)
  BY <1>4 DEF Fresh
<1>8. Create({})
  BY <1>1 DEF Create, IInv, TypeOK
<1>9. Births(new, {})
  BY <1>1, <1>2, <1>3, <1>4, <1>6, <1>7, <1>8 DEF Births, RawIn
<1> QED BY <1>9, BirthAges

LEMMA DoReturnShared ==
  ASSUME IInv, NEW s \in Handle, NEW o \in Shared, NEW h \in Handle,
         ReturnShared(s, o, h)
  PROVE  IInv' /\ Ages
<1> DEFINE new == [k \in {h} |-> Smart(o, k)]
           born == IF memory[o] = "unborn" THEN {o} ELSE {}
<1>1. /\ Usable(s) /\ o \in Offers(s) /\ Create(born)
      /\ nulled' = nulled /\ holds' = holds /\ refs' = [refs EXCEPT ![o] = @ + 1]
      /\ fields' = fields /\ held' = held \cup {h} /\ Make(new)
  BY DEF ReturnShared
<1>2. /\ fields' \in [Envelope -> SUBSET Handle] /\ held' \subseteq Handle \cup Envelope
      /\ o \in Object /\ o \notin Plain
  BY <1>1, Kinds DEF IInv, TypeOK
<1>3. Alive(o) \/ memory[o] = "unborn"
  BY <1>1, Used
<1>4. memory'[o] = "alive"
  BY <1>1, <1>2, <1>3 DEF Create, Alive
<1>5. /\ DOMAIN new = {h} /\ new[h] \in Records /\ new[h].family = h
      /\ new[h].obj = o /\ new[h].smart /\ ~new[h].borrowed
  BY <1>2 DEF Smart, Records
<1> HIDE DEF new
<1>6. /\ refs' \in [Shared -> Nat]
      /\ \A q \in Shared :
              /\ refs'[q] = refs[q] + Cardinality(SmartFor(new, q))
              /\ SmartFor(new, q) # {} <=> q = o
  <2>1. /\ h \in DOMAIN new /\ (\A x \in DOMAIN new : new[x].smart => x = h)
        /\ new[h].obj = o /\ new[h].smart
    BY <1>5
  <2>2. refs' = [refs EXCEPT ![o] = @ + 1]
    BY <1>1
  <2> QED BY <2>1, <2>2, OneSmart
<1>7. Fresh(new)
  BY <1>5 DEF Fresh
<1>8. born \subseteq {o} /\ (\A q \in born : memory[q] = "unborn") /\ (Alive(o) \/ o \in born)
  BY <1>3
<1> HIDE DEF born
<1>9. Births(new, born)
  BY <1>1, <1>2, <1>4, <1>5, <1>6, <1>7, <1>8 DEF Births, RawIn
<1> QED BY <1>9, BirthAges

LEMMA DoReturnEnvelope ==
  ASSUME IInv, NEW s \in Handle, NEW e \in Envelope, NEW o \in Plain, NEW h \in Handle,
         NEW q \in Shared, NEW k \in Handle, ReturnEnvelope(s, e, o, h, q, k)
  PROVE  IInv' /\ Ages
<1> DEFINE new == [g \in {h, k} |-> IF g = h THEN Raw(o, g, TRUE) ELSE Smart(q, g)]
           born == {o} \cup (IF memory[q] = "unborn" THEN {q} ELSE {})
<1>1. /\ Usable(s) /\ q \in Offers(s) /\ Create(born) /\ memory[o] = "unborn" /\ h # k
      /\ nulled' = nulled /\ holds' = holds /\ refs' = [refs EXCEPT ![q] = @ + 1]
      /\ fields' = [fields EXCEPT ![e] = {h, k}] /\ held' = held \cup {e, h, k}
      /\ Make(new)
  BY DEF ReturnEnvelope
<1>2. /\ fields' \in [Envelope -> SUBSET Handle] /\ held' \subseteq Handle \cup Envelope
      /\ \A x \in Envelope : fields'[x] \subseteq fields[x] \cup {h, k}
      /\ o \in Object /\ q \in Object /\ q \notin Plain /\ o \notin Shared
  BY <1>1, Kinds DEF IInv, TypeOK
<1>3. Alive(q) \/ memory[q] = "unborn"
  BY <1>1, Used
<1>4. memory'[o] = "alive" /\ memory'[q] = "alive"
  BY <1>1, <1>2, <1>3 DEF Create, Alive
<1>5. /\ DOMAIN new = {h, k} /\ new[h] \in Records /\ new[h].family = h
      /\ new[h].obj = o /\ ~new[h].smart /\ ~new[h].borrowed
  BY <1>2 DEF Raw, Records
<1>6. /\ new[k] \in Records /\ new[k].family = k
      /\ new[k].obj = q /\ new[k].smart /\ ~new[k].borrowed
  BY <1>1, <1>2 DEF Smart, Records
<1> HIDE DEF new
<1>7. /\ refs' \in [Shared -> Nat]
      /\ \A x \in Shared :
              /\ refs'[x] = refs[x] + Cardinality(SmartFor(new, x))
              /\ SmartFor(new, x) # {} <=> x = q
  <2>1. k \in DOMAIN new /\ (\A x \in DOMAIN new : new[x].smart => x = k)
    BY <1>5, <1>6
  <2> QED BY <1>1, <1>6, <2>1, OneSmart
<1>8. Fresh(new)
  BY <1>5, <1>6 DEF Fresh
<1>9. /\ born \subseteq {o, q} /\ o \in born /\ (\A x \in born : memory[x] = "unborn")
      /\ Alive(q) \/ q \in born
  BY <1>1, <1>3
<1> HIDE DEF born
<1>10. \A x \in DOMAIN new : RawIn(new, x) <=> x = h
  BY <1>1, <1>5, <1>6 DEF RawIn
<1>11. \A x \in Shared :
       /\ refs'[x] = refs[x] + Cardinality(SmartFor(new, x))
       /\ x \in born => SmartFor(new, x) # {}
       /\ SmartFor(new, x) # {} => Alive(x) \/ x \in born
  BY <1>2, <1>7, <1>9
<1>12. /\ born \subseteq Plain \cup Shared
       /\ \A x \in DOMAIN new : memory'[new[x].obj] # "unborn"
       /\ \A x \in DOMAIN new : RawIn(new, x) => new[x].obj \in born
       /\ \A x, y \in DOMAIN new :
            RawIn(new, x) /\ RawIn(new, y) /\ new[x].obj = new[y].obj => x = y
       /\ \A y \in born : y \in Plain =>
            \E x \in DOMAIN new : RawIn(new, x) /\ new[x].obj = y
  BY <1>2, <1>4, <1>5, <1>6, <1>9, <1>10
<1>13. Births(new, born)
  BY <1>1, <1>2, <1>5, <1>7, <1>8, <1>9, <1>11, <1>12 DEF Births
<1> QED BY <1>13, BirthAges

-----------------------------------------------------------------------------
(* One more or one less in one of two counts.                              *)
LEMMA OneMore ==
  ASSUME NEW a \in Nat, NEW b \in Nat, NEW n, NEW c, NEW r,
         n = a + b, c = b + 1, r = n + 1
  PROVE  r = a + c
  OBVIOUS
LEMMA OneLess ==
  ASSUME NEW a \in Nat, NEW b \in Nat, NEW n, NEW c, NEW r,
         n = a + b, r = n - 1
  PROVE  /\ c = b - 1 => r = a + c
         /\ c = a - 1 => r = c + b
  OBVIOUS

(* A step that changes no handle keeps what depends on them alone.         *)
LEMMA SameHandles ==
  ASSUME IInv, UNCHANGED <<js, fields>>,
         \A o \in Object : memory[o] # "unborn" => memory'[o] # "unborn",
         nulled' \subseteq Handle, \A f \in nulled' : state[f] # "none"
  PROVE  /\ RecordsInv' /\ OneFamily'
         /\ \A f : Family(f)' = Family(f)
         /\ \A h : OwnsRaw(h)' <=> OwnsRaw(h)
         /\ \A f \in Handle : count'[f] = Cardinality(Family(f)')
<1>1. state' = state /\ record' = record /\ count' = count /\ fields' = fields
  BY DEF js
<1>2. \A f : Family(f)' = Family(f)
  BY <1>1 DEF Family
<1>3. \A h : OwnsRaw(h)' <=> OwnsRaw(h)
  BY <1>1 DEF OwnsRaw
<1>4. ASSUME NEW h \in Handle PROVE Recorded(h)'
  <2>1. CASE state[h] # "none"
    <3>1. memory'[record[h].obj] # "unborn"
      BY <2>1, OfFamily
    <3>2. Recorded(h)
      BY DEF IInv, RecordsInv
    <3> QED BY <1>1, <2>1, <3>1, <3>2 DEF Recorded
  <2>2. CASE state[h] = "none"
    BY <1>1, <2>2 DEF Recorded
  <2> QED BY <2>1, <2>2
<1>5. RecordsInv'
  BY <1>1, <1>4 DEF RecordsInv, IInv
<1>6. OneFamily'
  BY <1>1, <1>3 DEF OneFamily, IInv
<1>7. \A f \in Handle : count'[f] = Cardinality(Family(f)')
  BY <1>1, <1>2, Counts
<1> QED BY <1>2, <1>3, <1>5, <1>6, <1>7

LEMMA DoDrop ==
  ASSUME IInv, NEW x, Drop(x)
  PROVE  IInv' /\ Ages
<1>1. /\ memory' = memory /\ refs' = refs /\ holds' = holds /\ UNCHANGED js
      /\ nulled' = nulled /\ fields' = fields /\ held' = held \ {x}
  BY DEF Drop, cpp
<1>2. TypeOK'
  BY <1>1 DEF IInv, TypeOK, js
<1>3. /\ RecordsInv' /\ OneFamily'
      /\ \A f : Family(f)' = Family(f)
      /\ \A h : OwnsRaw(h)' <=> OwnsRaw(h)
      /\ \A f \in Handle : count'[f] = Cardinality(Family(f)')
  <2>1. nulled' \subseteq Handle /\ (\A f \in nulled' : state[f] # "none")
    BY <1>1 DEF IInv, TypeOK, RecordsInv
  <2>2. UNCHANGED <<js, fields>> /\ (\A o \in Object : memory'[o] = memory[o])
    BY <1>1
  <2> QED BY <2>1, <2>2, SameHandles
<1>4. LivesInv'
  <2>1. record' = record
    BY <1>1 DEF js
  <2> QED BY <1>1, <1>3, <2>1 DEF IInv, LivesInv, Alive
<1>5. CountsAreTrue'
  <2>1. \A o : Pointers(o)' = Pointers(o)
    BY <1>1, <1>3 DEF Pointers, js
  <2> QED BY <1>1, <1>3, <2>1 DEF IInv, CountsAreTrue
<1> QED BY <1>1, <1>2, <1>3, <1>4, <1>5 DEF IInv, Ages

LEMMA DoKeep ==
  ASSUME IInv, NEW s \in Handle, NEW a \in Handle, Keep(s, a)
  PROVE  IInv' /\ Ages
<1> DEFINE p == record[s].obj
           o == record[a].obj
<1>1. /\ memory' = memory /\ UNCHANGED js /\ nulled' = nulled /\ held' = held
      /\ fields' = fields /\ p \in Plain /\ Usable(a) /\ record[a].smart
      /\ o \notin holds[p]
      /\ holds' = [holds EXCEPT ![p] = @ \cup {o}] /\ refs' = [refs EXCEPT ![o] = @ + 1]
  BY DEF Keep
<1>2. o \in Shared /\ Alive(o)
  <2>1. state[a] # "none"
    BY <1>1 DEF Usable
  <2> QED BY <1>1, <2>1, Used, OfFamily
<1> HIDE DEF p, o
<1>3. refs \in [Shared -> Nat] /\ holds \in [Plain -> SUBSET Shared]
  BY DEF IInv, TypeOK
<1>4. /\ refs' \in [Shared -> Nat] /\ holds' \in [Plain -> SUBSET Shared]
      /\ \A x \in Shared : refs'[x] = IF x = o THEN refs[x] + 1 ELSE refs[x]
      /\ \A r \in Plain : holds'[r] = IF r = p THEN holds[r] \cup {o} ELSE holds[r]
  <2>1. /\ refs' \in [Shared -> Nat]
        /\ \A x \in Shared : refs'[x] = IF x = o THEN refs[x] + 1 ELSE refs[x]
    <3>1. refs' = [refs EXCEPT ![o] = refs[o] + 1] /\ refs[o] + 1 \in Nat
      BY <1>1, <1>2, <1>3
    <3>2. refs' \in [Shared -> Nat]
      BY <1>3, <3>1
    <3>3. \A x \in Shared : refs'[x] = IF x = o THEN refs[x] + 1 ELSE refs[x]
      BY <1>3, <3>1
    <3> QED BY <3>2, <3>3
  <2>2. /\ holds' \in [Plain -> SUBSET Shared]
        /\ \A r \in Plain : holds'[r] = IF r = p THEN holds[r] \cup {o} ELSE holds[r]
    BY <1>1, <1>2, <1>3
  <2> QED BY <2>1, <2>2
<1>5. TypeOK'
  BY <1>1, <1>4 DEF IInv, TypeOK, js
<1>6. /\ RecordsInv' /\ OneFamily'
      /\ \A f : Family(f)' = Family(f)
      /\ \A h : OwnsRaw(h)' <=> OwnsRaw(h)
      /\ \A f \in Handle : count'[f] = Cardinality(Family(f)')
  <2>1. nulled' \subseteq Handle /\ (\A f \in nulled' : state[f] # "none")
    BY <1>1 DEF IInv, TypeOK, RecordsInv
  <2>2. UNCHANGED <<js, fields>> /\ (\A x \in Object : memory'[x] = memory[x])
    BY <1>1
  <2> QED BY <2>1, <2>2, SameHandles
<1>7. \A x \in Shared : refs'[x] # 0 <=> refs[x] # 0
  <2>1. refs[o] # 0
    BY <1>2 DEF IInv, LivesInv
  <2> QED BY <1>2, <1>3, <1>4, <2>1
<1>8. LivesInv'
  <2>1. record' = record
    BY <1>1 DEF js
  <2> QED BY <1>1, <1>6, <1>7, <2>1 DEF IInv, LivesInv, Alive
<1>9. ASSUME NEW x \in Shared
      PROVE  refs'[x] = Cardinality(Pointers(x)')
                          + Cardinality({r \in Plain : x \in holds'[r]})
  <2>1. Pointers(x)' = Pointers(x)
    BY <1>1, <1>6 DEF Pointers, js
  <2>2. {r \in Plain : x \in holds'[r]} =
          IF x = o THEN Holders(x) \cup {p} ELSE Holders(x)
    BY <1>1, <1>4 DEF Holders
  <2>3. x = o => p \notin Holders(x)
    BY <1>1 DEF Holders
  <2>4. refs[x] = Cardinality(Pointers(x)) + Cardinality(Holders(x))
    BY Counts
  <2>5. /\ Cardinality(Pointers(x)) \in Nat /\ Cardinality(Holders(x)) \in Nat
        /\ IsFiniteSet(Holders(x))
    BY Finite
  <2>6. CASE x = o
    <3>1. Cardinality({r \in Plain : x \in holds'[r]}) = Cardinality(Holders(x)) + 1
      BY <2>2, <2>3, <2>5, <2>6, FS_AddElement
    <3>2. refs'[x] = refs[x] + 1
      BY <1>4, <2>6
    <3> QED BY <2>1, <2>4, <2>5, <3>1, <3>2, OneMore
  <2>7. CASE x # o
    BY <1>4, <2>1, <2>2, <2>4, <2>7
  <2> QED BY <2>6, <2>7
<1> QED BY <1>1, <1>5, <1>6, <1>8, <1>9 DEF IInv, CountsAreTrue, Ages

(* One reference less to an object.                                        *)
LEMMA Dropped ==
  ASSUME IInv, NEW o \in Shared, Alive(o), DropReference(o)
  PROVE  /\ memory' \in [Object -> {"unborn", "alive", "freed", "corrupt"}]
         /\ refs' \in [Shared -> Nat]
         /\ \A x \in Shared : refs'[x] = IF x = o THEN refs[x] - 1 ELSE refs[x]
         /\ \A x \in Object : x \notin Shared => memory'[x] = memory[x]
         /\ \A x \in Object : memory'[x] # "corrupt"
         /\ \A x \in Object : memory[x] # "unborn" => memory'[x] # "unborn"
         /\ \A x \in Shared : Alive(x)' <=> refs'[x] # 0
         /\ Ages
<1>1. /\ memory \in [Object -> {"unborn", "alive", "freed", "corrupt"}]
      /\ refs \in [Shared -> Nat] /\ o \in Object
  BY Kinds DEF IInv, TypeOK
<1>2. refs[o] # 0 /\ refs[o] \in Nat
  BY <1>1 DEF IInv, LivesInv
<1>3. memory[o] = "alive"
  BY DEF Alive
<1>4. /\ refs' = [refs EXCEPT ![o] = refs[o] - 1]
      /\ memory' = [memory EXCEPT ![o] = IF refs[o] > 1 THEN "alive" ELSE "freed"]
  BY <1>1, <1>3 DEF DropReference
<1>5. refs[o] - 1 \in Nat /\ (refs[o] - 1 # 0 <=> refs[o] > 1)
  BY <1>2
<1>6. /\ refs' \in [Shared -> Nat]
      /\ \A x \in Shared : refs'[x] = IF x = o THEN refs[x] - 1 ELSE refs[x]
  BY <1>1, <1>4, <1>5
<1>7. \A x \in Object :
        memory'[x] = IF x # o THEN memory[x] ELSE IF refs[o] > 1 THEN "alive" ELSE "freed"
  BY <1>1, <1>4
<1>8. memory' \in [Object -> {"unborn", "alive", "freed", "corrupt"}]
  BY <1>1, <1>4
<1>9. \A x \in Shared : Alive(x)' <=> refs'[x] # 0
  <2>1. \A x \in Shared : x \in Object /\ (Alive(x) <=> refs[x] # 0)
    BY Kinds DEF IInv, LivesInv
  <2> QED BY <1>5, <1>6, <1>7, <2>1, Zenon DEF Alive
<1>10. \A x \in Object : memory[x] # "corrupt"
  BY DEF IInv, LivesInv
<1>11. /\ \A x \in Object : x \notin Shared => memory'[x] = memory[x]
       /\ \A x \in Object : memory'[x] # "corrupt"
       /\ \A x \in Object : memory[x] # "unborn" => memory'[x] # "unborn"
  BY <1>7, <1>10
<1>12. Ages
  BY <1>3, <1>7 DEF Ages
<1> QED BY <1>6, <1>8, <1>9, <1>11, <1>12

(* What lives after that.                                                  *)
LEMMA DroppedLives ==
  ASSUME IInv, NEW o \in Shared, Alive(o), DropReference(o), record' = record,
         \A h : OwnsRaw(h)' <=> OwnsRaw(h)
  PROVE  LivesInv'
<1>1. /\ \A x \in Object : x \notin Shared => memory'[x] = memory[x]
      /\ \A x \in Object : memory'[x] # "corrupt"
      /\ \A x \in Shared : Alive(x)' <=> refs'[x] # 0
  BY Dropped
<1>2. /\ \A x \in Plain : memory'[x] = memory[x]
      /\ \A x \in Member : memory'[x] = memory[x] /\ memory'[Whole[x]] = memory[Whole[x]]
      /\ \A x \in Static : memory'[x] = memory[x]
  BY <1>1, Kinds
<1> QED BY <1>1, <1>2 DEF IInv, LivesInv, Alive

LEMMA DoForget ==
  ASSUME IInv, NEW s \in Handle, NEW o \in Shared, Forget(s, o)
  PROVE  IInv' /\ Ages
<1> DEFINE p == record[s].obj
<1>1. /\ UNCHANGED js /\ nulled' = nulled /\ held' = held
      /\ fields' = fields /\ p \in Plain /\ o \in holds[p]
      /\ holds' = [holds EXCEPT ![p] = @ \ {o}] /\ DropReference(o)
  BY DEF Forget
<1> HIDE DEF p
<1>2. Alive(o)
  BY <1>1, KeptLives
<1>3. /\ memory' \in [Object -> {"unborn", "alive", "freed", "corrupt"}]
      /\ refs' \in [Shared -> Nat]
      /\ \A x \in Shared : refs'[x] = IF x = o THEN refs[x] - 1 ELSE refs[x]
      /\ \A x \in Object : memory[x] # "unborn" => memory'[x] # "unborn"
      /\ Ages
  BY <1>1, <1>2, Dropped
<1>4. /\ holds' \in [Plain -> SUBSET Shared]
      /\ \A r \in Plain : holds'[r] = IF r = p THEN holds[r] \ {o} ELSE holds[r]
  <2>1. holds \in [Plain -> SUBSET Shared]
    BY DEF IInv, TypeOK
  <2> QED BY <1>1, <2>1
<1>5. TypeOK'
  BY <1>1, <1>3, <1>4 DEF IInv, TypeOK, js
<1>6. /\ RecordsInv' /\ OneFamily'
      /\ \A f : Family(f)' = Family(f)
      /\ \A h : OwnsRaw(h)' <=> OwnsRaw(h)
      /\ \A f \in Handle : count'[f] = Cardinality(Family(f)')
  <2>1. nulled' \subseteq Handle /\ (\A f \in nulled' : state[f] # "none")
    BY <1>1 DEF IInv, TypeOK, RecordsInv
  <2> QED BY <1>1, <1>3, <2>1, SameHandles
<1>7. LivesInv'
  <2>1. record' = record
    BY <1>1 DEF js
  <2> QED BY <1>1, <1>2, <1>6, <2>1, DroppedLives
<1>8. ASSUME NEW x \in Shared
      PROVE  refs'[x] = Cardinality(Pointers(x)')
                          + Cardinality({r \in Plain : x \in holds'[r]})
  <2>1. Pointers(x)' = Pointers(x)
    BY <1>1, <1>6 DEF Pointers, js
  <2>2. {r \in Plain : x \in holds'[r]} =
          IF x = o THEN Holders(x) \ {p} ELSE Holders(x)
    BY <1>1, <1>4 DEF Holders
  <2>3. x = o => p \in Holders(x)
    BY <1>1 DEF Holders
  <2>4. refs[x] = Cardinality(Pointers(x)) + Cardinality(Holders(x))
    BY Counts
  <2>5. /\ Cardinality(Pointers(x)) \in Nat /\ Cardinality(Holders(x)) \in Nat
        /\ IsFiniteSet(Holders(x))
    BY Finite
  <2>6. CASE x = o
    <3>1. Cardinality({r \in Plain : x \in holds'[r]}) = Cardinality(Holders(x)) - 1
      BY <2>2, <2>3, <2>5, <2>6, FS_RemoveElement
    <3>2. refs'[x] = refs[x] - 1
      BY <1>3, <2>6
    <3> QED BY <2>1, <2>4, <2>5, <3>1, <3>2, OneLess
  <2>7. CASE x # o
    BY <1>3, <2>1, <2>2, <2>4, <2>7
  <2> QED BY <2>6, <2>7
<1> QED BY <1>3, <1>5, <1>6, <1>7, <1>8 DEF IInv, CountsAreTrue

LEMMA DoNullify ==
  ASSUME IInv, NEW h \in Handle, Nullify(h)
  PROVE  IInv' /\ Ages
<1> DEFINE f == record[h].family
           o == record[h].obj
<1>1. /\ UNCHANGED js /\ nulled' = nulled \cup {f} /\ held' = held
      /\ fields' = fields /\ holds' = holds /\ DropReference(o)
      /\ state[h] = "live" /\ record[h].smart /\ f \notin nulled
  BY DEF Nullify
<1>2. /\ f \in Pointers(o) /\ o \in Shared /\ Alive(o)
      /\ f \in Handle /\ state[f] # "none" /\ record[f] = record[h]
  BY <1>1, PointedTo, OfFamily DEF Known
<1>3. \A x : f \in Pointers(x) => x = o
  BY <1>2 DEF Pointers
<1> HIDE DEF f, o
<1>4. /\ memory' \in [Object -> {"unborn", "alive", "freed", "corrupt"}]
      /\ refs' \in [Shared -> Nat]
      /\ \A x \in Shared : refs'[x] = IF x = o THEN refs[x] - 1 ELSE refs[x]
      /\ \A x \in Object : memory[x] # "unborn" => memory'[x] # "unborn"
      /\ Ages
  BY <1>1, <1>2, Dropped
<1>5. TypeOK'
  BY <1>1, <1>2, <1>4 DEF IInv, TypeOK, js
<1>6. /\ RecordsInv' /\ OneFamily'
      /\ \A g : Family(g)' = Family(g)
      /\ \A k : OwnsRaw(k)' <=> OwnsRaw(k)
      /\ \A g \in Handle : count'[g] = Cardinality(Family(g)')
  <2>1. nulled' \subseteq Handle /\ (\A g \in nulled' : state[g] # "none")
    BY <1>1, <1>2 DEF IInv, TypeOK, RecordsInv
  <2> QED BY <1>1, <1>4, <2>1, SameHandles
<1>7. LivesInv'
  <2>1. record' = record
    BY <1>1 DEF js
  <2> QED BY <1>1, <1>2, <1>6, <2>1, DroppedLives
<1>8. ASSUME NEW x \in Shared
      PROVE  refs'[x] = Cardinality(Pointers(x)')
                          + Cardinality({r \in Plain : x \in holds'[r]})
  <2>1. Pointers(x)' = Pointers(x) \ {f}
    BY <1>1, <1>6 DEF Pointers, js
  <2>2. {r \in Plain : x \in holds'[r]} = Holders(x)
    BY <1>1 DEF Holders
  <2>4. refs[x] = Cardinality(Pointers(x)) + Cardinality(Holders(x))
    BY Counts
  <2>5. /\ Cardinality(Pointers(x)) \in Nat /\ Cardinality(Holders(x)) \in Nat
        /\ IsFiniteSet(Pointers(x))
    BY Finite
  <2>6. CASE x = o
    <3>1. Cardinality(Pointers(x) \ {f}) = Cardinality(Pointers(x)) - 1
      BY <1>2, <2>5, <2>6, FS_RemoveElement
    <3>2. refs'[x] = refs[x] - 1
      BY <1>4, <2>6
    <3>3. Cardinality(Pointers(x)') = Cardinality(Pointers(x)) - 1
      BY <2>1, <3>1, Zenon
    <3>4. refs'[x] = Cardinality(Pointers(x)') + Cardinality(Holders(x))
      BY <2>4, <2>5, <3>2, <3>3, OneLess
    <3> QED BY <2>2, <3>4, Zenon
  <2>7. CASE x # o
    <3>1. Pointers(x)' = Pointers(x)
      BY <1>3, <2>1, <2>7
    <3> QED BY <1>4, <2>2, <2>4, <2>7, <3>1
  <2> QED BY <2>6, <2>7
<1> QED BY <1>4, <1>5, <1>6, <1>7, <1>8 DEF IInv, CountsAreTrue

-----------------------------------------------------------------------------
(* A clone joins the family of its handle.                                 *)
LEMMA CloneFamily ==
  ASSUME IInv, NEW h \in Handle, NEW k \in Handle, Clone(h, k)
  PROVE  /\ k # h /\ record[h].family # k /\ record[h].family \in Handle
         /\ \A x \in Handle : state'[x] = IF x = k THEN "live" ELSE state[x]
         /\ \A x \in Handle : record'[x] = IF x = k THEN record[h] ELSE record[x]
         /\ \A g \in Handle : Family(g)' =
              IF g = record[h].family THEN Family(g) \cup {k} ELSE Family(g)
         /\ \A g \in Handle : k \notin Family(g)
         /\ Family(record[h].family) # {} /\ Family(k) = {}
<1> DEFINE f == record[h].family
<1>1. /\ state[h] = "live" /\ state[k] = "none"
      /\ state' = [state EXCEPT ![k] = "live"]
      /\ record' = [record EXCEPT ![k] = record[h]]
  BY DEF Clone
<1>2. f \in Handle /\ state[f] # "none"
  BY <1>1, OfFamily
<1>3. \A x \in Handle : state'[x] = IF x = k THEN "live" ELSE state[x]
  BY <1>1 DEF IInv, TypeOK
<1>4. \A x \in Handle : record'[x] = IF x = k THEN record[h] ELSE record[x]
  BY <1>1 DEF IInv, TypeOK
<1> HIDE DEF f
<1>5. \A g \in Handle : k \notin Family(g)
  BY <1>1 DEF Family
<1>6. ASSUME NEW g \in Handle
      PROVE  Family(g)' = IF g = f THEN Family(g) \cup {k} ELSE Family(g)
  BY <1>3, <1>4, <1>5 DEF Family, f
<1>7. h \in Family(f)
  BY <1>1 DEF Family, f
<1>8. Family(k) = {}
  <2> SUFFICES ASSUME NEW x \in Handle, x \in Family(k) PROVE FALSE
    BY DEF Family
  <2>1. state[x] # "none" /\ record[x].family = k
    BY DEF Family
  <2> QED BY <1>1, <2>1, OfFamily
<1> QED BY <1>1, <1>2, <1>3, <1>4, <1>5, <1>6, <1>7, <1>8 DEF f

LEMMA DoClone ==
  ASSUME IInv, NEW h \in Handle, NEW k \in Handle, Clone(h, k)
  PROVE  IInv' /\ Ages
<1> DEFINE f == record[h].family
<1>1. /\ state[h] = "live" /\ state[k] = "none"
      /\ state' = [state EXCEPT ![k] = "live"]
      /\ record' = [record EXCEPT ![k] = record[h]]
      /\ count' = [count EXCEPT ![f] = @ + 1]
      /\ finalizers' = finalizers \cup (IF record[h].smart THEN {k} ELSE {})
      /\ held' = held \cup {k} /\ memory' = memory /\ refs' = refs /\ holds' = holds
      /\ nulled' = nulled /\ fields' = fields
  BY DEF Clone, cpp
<1>2. /\ k # h /\ f # k /\ f \in Handle
      /\ \A x \in Handle : state'[x] = IF x = k THEN "live" ELSE state[x]
      /\ \A x \in Handle : record'[x] = IF x = k THEN record[h] ELSE record[x]
      /\ \A g \in Handle : Family(g)' =
           IF g = f THEN Family(g) \cup {k} ELSE Family(g)
      /\ \A g \in Handle : k \notin Family(g)
      /\ Family(f) # {} /\ Family(k) = {}
  BY CloneFamily
<1>3. record[h] \in Records /\ state[f] # "none" /\ record[f] = record[h]
  BY <1>1, OfFamily
<1>4. TypeOK'
  <2>1. /\ state' \in [Handle -> {"none", "live", "deleted", "lost"}]
        /\ record' \in [Handle -> Records]
    BY <1>1, <1>3 DEF IInv, TypeOK
  <2>2. count' \in [Handle -> Nat]
    BY <1>1, <1>2 DEF IInv, TypeOK
  <2>3. finalizers' = {x \in Handle : state'[x] = "live" /\ record'[x].smart}
    <3>1. finalizers = {x \in Handle : state[x] = "live" /\ record[x].smart}
      BY DEF IInv, TypeOK
    <3> QED BY <1>1, <1>2, <3>1
  <2> QED BY <1>1, <2>1, <2>2, <2>3 DEF IInv, TypeOK
<1> HIDE DEF f
<1>5. RecordsInv'
  <2>1. ASSUME NEW x \in Handle PROVE Recorded(x)'
    <3>1. Recorded(x) /\ Recorded(h)
      BY DEF IInv, RecordsInv
    <3>2. state[x] # "none" => record[x].family \in Handle /\ record[x].family # k
      BY <1>1, OfFamily
    <3> QED BY <1>1, <1>2, <1>3, <3>1, <3>2 DEF Recorded, f
  <2>2. \A x \in nulled' : state'[x] # "none"
    BY <1>1, <1>2 DEF IInv, RecordsInv, TypeOK
  <2>3. \A e \in Envelope : \A x \in fields'[e] :
          state'[x] # "none" /\ record'[x].family = x
    BY <1>1, <1>2 DEF IInv, RecordsInv, TypeOK
  <2> QED BY <2>1, <2>2, <2>3 DEF RecordsInv
<1>6. \A x \in Handle : OwnsRaw(x)' <=> IF x = k THEN OwnsRaw(h) ELSE OwnsRaw(x)
  BY <1>1, <1>2 DEF OwnsRaw
<1>7. OneFamily'
  BY <1>2, <1>6 DEF IInv, OneFamily
<1>8. \A p \in Plain : (\E x \in Handle : OwnsRaw(x)' /\ record'[x].obj = p)
                       <=> \E x \in Handle : OwnsRaw(x) /\ record[x].obj = p
  <2>1. ~OwnsRaw(k)
    BY <1>1 DEF OwnsRaw
  <2> QED BY <1>2, <1>6, <2>1
<1>9. LivesInv'
  BY <1>1, <1>8 DEF IInv, LivesInv, Alive
<1>10. ASSUME NEW g \in Handle PROVE count'[g] = Cardinality(Family(g)')
  <2>1. count[g] = Cardinality(Family(g)) /\ IsFiniteSet(Family(g))
    BY Counts, Finite
  <2>2. count'[g] = IF g = f THEN count[g] + 1 ELSE count[g]
    BY <1>1 DEF IInv, TypeOK, f
  <2>3. CASE g = f
    <3>1. Cardinality(Family(g)') = Cardinality(Family(g)) + 1
      BY <1>2, <2>1, <2>3, FS_AddElement
    <3> QED BY <2>1, <2>2, <2>3, <3>1
  <2>4. CASE g # f
    BY <1>2, <2>1, <2>2, <2>4
  <2> QED BY <2>3, <2>4
<1>11. \A o : Pointers(o)' = Pointers(o)
  BY <1>1, <1>2 DEF Pointers
<1>12. CountsAreTrue'
  BY <1>1, <1>10, <1>11 DEF IInv, CountsAreTrue
<1> QED BY <1>1, <1>4, <1>5, <1>7, <1>9, <1>12 DEF IInv, Ages

(* A lost handle stays in its family.                                      *)
LEMMA DoLose ==
  ASSUME IInv, NEW h \in Handle, Lose(h)
  PROVE  IInv' /\ Ages
<1>1. /\ state[h] = "live" /\ h \notin finalizers /\ state' = [state EXCEPT ![h] = "lost"]
      /\ record' = record /\ count' = count /\ finalizers' = finalizers
      /\ held' = held /\ memory' = memory /\ refs' = refs /\ holds' = holds
      /\ nulled' = nulled /\ fields' = fields
  BY DEF Lose, cpp
<1>2. \A x \in Handle : state'[x] = IF x = h THEN "lost" ELSE state[x]
  BY <1>1 DEF IInv, TypeOK
<1>3. TypeOK'
  <2>1. finalizers = {x \in Handle : state[x] = "live" /\ record[x].smart}
    BY DEF IInv, TypeOK
  <2>2. finalizers' = {x \in Handle : state'[x] = "live" /\ record'[x].smart}
    BY <1>1, <1>2, <2>1
  <2>3. state' \in [Handle -> {"none", "live", "deleted", "lost"}]
    BY <1>1 DEF IInv, TypeOK
  <2> QED BY <1>1, <2>2, <2>3 DEF IInv, TypeOK
<1>4. \A x \in Handle : /\ state'[x] = "none" <=> state[x] = "none"
                        /\ state'[x] \in {"live", "lost"} <=> state[x] \in {"live", "lost"}
  BY <1>1, <1>2
<1>5. /\ \A f : Family(f)' = Family(f)
      /\ \A x \in Handle : OwnsRaw(x)' <=> OwnsRaw(x)
  BY <1>1, <1>4 DEF Family, OwnsRaw
<1>6. RecordsInv'
  <2>1. ASSUME NEW x \in Handle PROVE Recorded(x)'
    <3>1. state[x] # "none" => record[x].family \in Handle
      BY OfFamily
    <3>2. Recorded(x)
      BY DEF IInv, RecordsInv
    <3> QED BY <1>1, <1>4, <3>1, <3>2 DEF Recorded
  <2>2. \A x \in nulled' : state'[x] # "none"
    BY <1>1, <1>4 DEF IInv, RecordsInv, TypeOK
  <2>3. \A e \in Envelope : \A x \in fields'[e] :
          state'[x] # "none" /\ record'[x].family = x
    BY <1>1, <1>4 DEF IInv, RecordsInv, TypeOK
  <2> QED BY <2>1, <2>2, <2>3 DEF RecordsInv
<1>7. OneFamily' /\ LivesInv'
  BY <1>1, <1>5 DEF IInv, OneFamily, LivesInv, Alive
<1>8. CountsAreTrue'
  <2>1. \A o : Pointers(o)' = Pointers(o)
    BY <1>1, <1>5 DEF Pointers
  <2> QED BY <1>1, <1>5, <2>1 DEF IInv, CountsAreTrue
<1> QED BY <1>1, <1>3, <1>6, <1>7, <1>8 DEF IInv, Ages

-----------------------------------------------------------------------------
(* Handles that are released in one step: live, of different families.     *)
Apart(old) ==
  /\ old \subseteq Handle
  /\ \A h \in old : state[h] = "live"
  /\ \A h, k \in old : record[h].family = record[k].family => h = k

(* The parts of RunDestructor: the last handles of their families, the     *)
(* objects that go with them and the references that they let go of.       *)
Last(old) == {h \in old : count[record[h].family] = 1}
Destroyed(old) == {record[h].obj : h \in {g \in Last(old) : ~record[g].borrowed
                                                        /\ ~record[g].smart}}
LetGo(old, o) == {h \in {g \in Last(old) : /\ ~record[g].borrowed /\ record[g].smart
                                           /\ record[g].family \notin nulled} :
                    record[h].obj = o}
Kept(old, o) == {p \in Destroyed(old) \cap Plain : o \in holds[p]}
Released(old, o) == Cardinality(LetGo(old, o)) + Cardinality(Kept(old, o))
Gone(old) == Destroyed(old) \cup {m \in Member : Whole[m] \in Destroyed(old)}
             \cup {o \in Shared : Released(old, o) > 0 /\ refs[o] <= Released(old, o)}

LEMMA ReleaseParts ==
  ASSUME NEW old, Release(old)
  PROVE  /\ state' = [h \in Handle |-> IF h \in old THEN "deleted" ELSE state[h]]
         /\ count' = [f \in Handle |-> IF \E h \in old : record[h].family = f
                                       THEN count[f] - 1 ELSE count[f]]
         /\ finalizers' = finalizers \ old /\ record' = record /\ nulled' = nulled
         /\ refs' = [o \in Shared |-> refs[o] - Released(old, o)]
         /\ holds' = [p \in Plain |-> IF p \in Destroyed(old) THEN {} ELSE holds[p]]
         /\ memory' = [o \in Object |->
                         IF o \notin Gone(old) THEN memory[o]
                         ELSE IF memory[o] = "alive" THEN "freed" ELSE "corrupt"]
<1>1. RunDestructor(Last(old))
  BY DEF Release, Last
<1>2. /\ refs' = [o \in Shared |-> refs[o] - Released(old, o)]
      /\ holds' = [p \in Plain |-> IF p \in Destroyed(old) THEN {} ELSE holds[p]]
      /\ memory' = [o \in Object |->
                      IF o \notin Gone(old) THEN memory[o]
                      ELSE IF memory[o] = "alive" THEN "freed" ELSE "corrupt"]
  BY <1>1 DEF RunDestructor, Released, Destroyed, LetGo, Kept, Gone
<1> QED BY <1>2 DEF Release

(* Families lose the released handles, and counters follow.                *)
LEMMA ReleaseFamilies ==
  ASSUME IInv, NEW old, Apart(old), Release(old)
  PROVE  /\ \A f \in Handle : Family(f)' = Family(f) \ old
         /\ \A f \in Handle : /\ count'[f] = Cardinality(Family(f)')
                              /\ count'[f] \in Nat
         /\ \A h \in Last(old) : Family(record[h].family) = {h}
         /\ \A h \in old : h \in Last(old)
              \/ \E k \in Family(record[h].family) : k \notin old
         /\ \A f \in Handle : Family(f) # {} /\ Family(f)' = {} =>
              \E h \in Last(old) : record[h].family = f
<1>1. /\ \A h \in Handle : state'[h] = IF h \in old THEN "deleted" ELSE state[h]
      /\ \A f \in Handle : count'[f] = IF \E h \in old : record[h].family = f
                                       THEN count[f] - 1 ELSE count[f]
      /\ record' = record
  BY ReleaseParts
<1>2. old \subseteq Handle /\ (\A h \in old : state[h] = "live")
      /\ \A h, k \in old : record[h].family = record[k].family => h = k
  BY DEF Apart
<1>3. \A h \in old : h \in Family(record[h].family) /\ record[h].family \in Handle
  <2>1. \A h \in old : record[h].family \in Handle
    BY <1>2, OfFamily
  <2> QED BY <1>2, <2>1 DEF Family
<1>4. ASSUME NEW f \in Handle PROVE Family(f)' = Family(f) \ old
  <2>1. \A h \in Handle : state'[h] \in {"live", "lost"} <=>
          state[h] \in {"live", "lost"} /\ h \notin old
    BY <1>1
  <2> QED BY <1>1, <2>1 DEF Family
<1>5. \A f : \A k \in Family(f) : record[k].family = f
  BY DEF Family
<1>6. \A f \in Handle : /\ count[f] = Cardinality(Family(f)) /\ count[f] \in Nat
                        /\ IsFiniteSet(Family(f))
  BY Counts, Finite
<1>7. ASSUME NEW f \in Handle, NEW h \in old, record[h].family = f
      PROVE  /\ Family(f)' = Family(f) \ {h} /\ h \in Family(f)
             /\ Cardinality(Family(f)') = count[f] - 1 /\ count[f] - 1 \in Nat
  <2>1. h \in Family(f) /\ \A k \in Family(f) : k \in old => k = h
    BY <1>2, <1>3, <1>5, <1>7
  <2>2. Family(f)' = Family(f) \ {h}
    BY <1>4, <1>7, <2>1
  <2>3. Cardinality(Family(f) \ {h}) = count[f] - 1 /\ IsFiniteSet(Family(f) \ {h})
    BY <1>6, <2>1, FS_RemoveElement
  <2> QED BY <2>1, <2>2, <2>3, FS_CardinalityType
<1>8. ASSUME NEW f \in Handle
      PROVE  count'[f] = Cardinality(Family(f)') /\ count'[f] \in Nat
  <2>1. CASE \E h \in old : record[h].family = f
    BY <1>1, <1>7, <2>1
  <2>2. CASE ~\E h \in old : record[h].family = f
    <3>1. Family(f)' = Family(f)
      BY <1>4, <1>5, <2>2
    <3> QED BY <1>1, <1>6, <2>2, <3>1
  <2> QED BY <2>1, <2>2
<1>9. ASSUME NEW h \in Last(old) PROVE Family(record[h].family) = {h}
  <2>1. h \in old /\ count[record[h].family] = 1
    BY DEF Last
  <2>2. PICK x : Family(record[h].family) = {x}
    BY <1>3, <1>6, <2>1, FS_Singleton
  <2> QED BY <1>3, <2>1, <2>2
<1>10. ASSUME NEW h \in old, h \notin Last(old)
       PROVE  \E k \in Family(record[h].family) : k \notin old
  <2>1. count[record[h].family] # 1
    BY <1>10 DEF Last
  <2>2. Family(record[h].family) # {h}
    BY <1>3, <1>6, <2>1, FS_Singleton
  <2>3. PICK k \in Family(record[h].family) : k # h
    BY <1>3, <2>2
  <2> QED BY <1>2, <1>5, <2>3
<1>11. ASSUME NEW f \in Handle, Family(f) # {}, Family(f)' = {}
       PROVE  \E h \in Last(old) : record[h].family = f
  <2>1. PICK h \in Family(f) : h \in old
    BY <1>4, <1>11
  <2>2. record[h].family = f
    BY <1>5, <2>1
  <2>3. h \in Last(old)
    BY <1>4, <1>10, <1>11, <2>1, <2>2
  <2> QED BY <2>2, <2>3
<1> QED BY <1>4, <1>8, <1>9, <1>10, <1>11

(* The destroyed objects, their owners and what becomes of them.           *)
LEMMA ReleaseRaw ==
  ASSUME IInv, NEW old, Apart(old), Release(old)
  PROVE  /\ Destroyed(old) \subseteq Plain
         /\ \A p \in Destroyed(old) : Alive(p)
         /\ \A h \in Handle : OwnsRaw(h)' <=> OwnsRaw(h) /\ h \notin old
         /\ \A p \in Plain :
              (\E h \in Handle : OwnsRaw(h)' /\ record'[h].obj = p)
                <=> Alive(p) /\ p \notin Destroyed(old)
<1>1. /\ \A h \in Handle : state'[h] = IF h \in old THEN "deleted" ELSE state[h]
      /\ record' = record
  BY ReleaseParts
<1>2. /\ \A h \in Last(old) : Family(record[h].family) = {h}
      /\ \A h \in old : h \in Last(old)
              \/ \E k \in Family(record[h].family) : k \notin old
  BY ReleaseFamilies
<1>3. /\ old \subseteq Handle /\ Last(old) \subseteq old
      /\ \A h \in old : state[h] = "live"
  BY DEF Apart, Last
<1>4. \A h \in Handle : OwnsRaw(h)' <=> OwnsRaw(h) /\ h \notin old
  BY <1>1 DEF OwnsRaw
<1>5. \A p \in Destroyed(old) : \E h \in Last(old) : OwnsRaw(h) /\ record[h].obj = p
  BY <1>3 DEF Destroyed, OwnsRaw
<1>6. \A h \in Handle : OwnsRaw(h) => record[h].obj \in Plain /\ record[h].family \in Handle
  BY OfFamily DEF OwnsRaw
<1>7. \A p \in Plain : Alive(p) <=> \E h \in Handle : OwnsRaw(h) /\ record[h].obj = p
  BY DEF IInv, LivesInv
<1>8. Destroyed(old) \subseteq Plain /\ \A p \in Destroyed(old) : Alive(p)
  BY <1>3, <1>5, <1>6, <1>7
<1>9. ASSUME NEW h \in Handle, OwnsRaw(h)
      PROVE  h \in Family(record[h].family)
             /\ \A k \in Family(record[h].family) : OwnsRaw(k) /\ record[k] = record[h]
  <2>1. h \in Family(record[h].family)
    BY <1>9 DEF Family, OwnsRaw
  <2>2. ASSUME NEW k \in Family(record[h].family)
        PROVE  OwnsRaw(k) /\ record[k] = record[h]
    <3>1. k \in Handle /\ state[k] \in {"live", "lost"} /\ record[k].family = record[h].family
      BY DEF Family
    <3>2. record[record[k].family] = record[k]
      BY <3>1, OfFamily
    <3>3. state[h] # "none"
      BY <1>9 DEF OwnsRaw
    <3>4. record[record[h].family] = record[h]
      BY <3>3, OfFamily
    <3> QED BY <1>9, <3>1, <3>2, <3>4 DEF OwnsRaw
  <2> QED BY <2>1, <2>2
<1>10. ASSUME NEW p \in Plain, NEW h \in Handle, OwnsRaw(h)', record'[h].obj = p
       PROVE  Alive(p) /\ p \notin Destroyed(old)
  <2>1. OwnsRaw(h) /\ h \notin old /\ record[h].obj = p
    BY <1>1, <1>4, <1>10
  <2>2. Alive(p)
    BY <1>7, <2>1
  <2>3. ASSUME NEW g \in Last(old), OwnsRaw(g), record[g].obj = p PROVE FALSE
    <3>1. record[g].family = record[h].family
      BY <1>3, <2>1, <2>3 DEF IInv, OneFamily
    <3>2. h \in Family(record[g].family)
      BY <1>9, <2>1, <3>1
    <3> QED BY <1>2, <1>3, <2>1, <3>2
  <2> QED BY <1>5, <2>2, <2>3
<1>11. ASSUME NEW p \in Plain, Alive(p), p \notin Destroyed(old)
       PROVE  \E h \in Handle : OwnsRaw(h)' /\ record'[h].obj = p
  <2>1. PICK h \in Handle : OwnsRaw(h) /\ record[h].obj = p
    BY <1>7, <1>11
  <2>2. CASE h \notin old
    BY <1>1, <1>4, <2>1, <2>2
  <2>3. CASE h \in old
    <3>1. h \notin Last(old)
      BY <1>11, <2>1 DEF Destroyed, OwnsRaw
    <3>2. PICK k \in Family(record[h].family) : k \notin old
      BY <1>2, <2>3, <3>1
    <3>3. k \in Handle
      BY DEF Family
    <3> QED BY <1>1, <1>4, <1>9, <2>1, <3>2, <3>3
  <2> QED BY <2>2, <2>3
<1> QED BY <1>4, <1>8, <1>10, <1>11

(* As many smart pointers let go of an object as families end.             *)
LEMMA ReleasePointers ==
  ASSUME IInv, NEW old, Apart(old), Release(old), NEW o \in Shared
  PROVE  /\ Cardinality(LetGo(old, o)) \in Nat
         /\ Cardinality(Pointers(o)') =
              Cardinality(Pointers(o)) - Cardinality(LetGo(old, o))
<1> DEFINE L == LetGo(old, o)
           F == {record[h].family : h \in L}
<1>1. /\ \A f \in Handle : Family(f)' = Family(f) \ old
      /\ \A h \in Last(old) : Family(record[h].family) = {h}
      /\ \A f \in Handle : Family(f) # {} /\ Family(f)' = {} =>
              \E h \in Last(old) : record[h].family = f
  BY ReleaseFamilies
<1>2. /\ old \subseteq Handle /\ Last(old) \subseteq old /\ L \subseteq Last(old)
      /\ \A h \in old : state[h] = "live"
      /\ \A h, k \in old : record[h].family = record[k].family => h = k
  BY DEF Apart, Last, LetGo
<1>3. \A h \in L : record[h].smart /\ record[h].family \notin nulled /\ record[h].obj = o
  BY DEF LetGo
<1>4. record' = record /\ nulled' = nulled
  BY ReleaseParts
<1>5. \A h \in old : /\ record[h].family \in Handle
                     /\ record[record[h].family] = record[h]
                     /\ record[h].smart => ~record[h].borrowed
  BY <1>2, OfFamily
<1>6. ASSUME NEW h \in L, NEW f, f = record[h].family
      PROVE  f \in Pointers(o) /\ Family(f)' = {}
  <2>1. h \in old /\ Family(f) = {h} /\ f \in Handle
    BY <1>1, <1>2, <1>5, <1>6
  <2>2. Family(f)' = {}
    BY <1>1, <2>1
  <2> QED BY <1>3, <1>5, <1>6, <2>1, <2>2 DEF Pointers
<1>7. \A f \in Handle : f \in Pointers(o)' <=>
        Family(f)' # {} /\ f \notin nulled /\ record[f].smart /\ record[f].obj = o
  BY <1>4 DEF Pointers
<1>8. \A f \in Handle : f \in Pointers(o) <=>
        Family(f) # {} /\ f \notin nulled /\ record[f].smart /\ record[f].obj = o
  BY DEF Pointers
<1>9. ASSUME NEW f \in Pointers(o), f \notin Pointers(o)' PROVE f \in F
  <2>1. f \in Handle
    BY DEF Pointers
  <2>2. Family(f) # {} /\ Family(f)' = {}
    BY <1>7, <1>8, <1>9, <2>1
  <2>3. PICK h \in Last(old) : record[h].family = f
    BY <1>1, <2>1, <2>2
  <2>4. record[h] = record[f] /\ (record[h].smart => ~record[h].borrowed)
    BY <1>2, <1>5, <2>3
  <2>5. h \in L
    BY <1>8, <2>1, <2>3, <2>4 DEF LetGo
  <2> QED BY <2>3, <2>5
<1>10. F \subseteq Pointers(o)
  BY <1>6
<1>11. Pointers(o)' = Pointers(o) \ F
  <2>1. Pointers(o)' \subseteq Handle /\ Pointers(o) \subseteq Handle
    BY DEF Pointers
  <2>2. \A f \in Handle : f \in Pointers(o)' => f \in Pointers(o) /\ f \notin F
    BY <1>1, <1>6, <1>7, <1>8
  <2> QED BY <1>9, <2>1, <2>2
<1>12. IsFiniteSet(L) /\ Cardinality(L) \in Nat
  <2>1. L \in SUBSET Handle
    BY <1>2
  <2> QED BY <2>1, HandleAssumption, FS_Subset, FS_CardinalityType
<1>13. Cardinality(F) = Cardinality(L)
  <2> DEFINE g == [h \in L |-> record[h].family]
  <2>1. g \in Bijection(L, F)
    <3>1. g \in [L -> F]
      OBVIOUS
    <3>2. \A h, k \in L : g[h] = g[k] => h = k
      BY <1>2
    <3>3. \A f \in F : \E h \in L : g[h] = f
      OBVIOUS
    <3> HIDE DEF g, F, L
    <3> QED BY <3>1, <3>2, <3>3 DEF Bijection, Injection, Surjection, IsInjective
  <2>2. ExistsBijection(L, F)
    BY <2>1 DEF ExistsBijection
  <2> QED BY <1>12, <2>2, FS_Bijection
<1> HIDE DEF L, F
<1>14. Cardinality(Pointers(o) \ F) = Cardinality(Pointers(o)) - Cardinality(Pointers(o) \cap F)
  BY Finite, FS_Difference
<1>15. Pointers(o) \cap F = F
  BY <1>10
<1>16. Cardinality(Pointers(o)') = Cardinality(Pointers(o)) - Cardinality(L)
  BY <1>11, <1>13, <1>14, <1>15, Zenon
<1> QED BY <1>12, <1>16 DEF L

(* What destroyed objects kept is let go of.                               *)
LEMMA ReleaseHolders ==
  ASSUME IInv, NEW old, Apart(old), Release(old), NEW o \in Shared
  PROVE  /\ Cardinality(Kept(old, o)) \in Nat
         /\ Cardinality(Holders(o)') =
              Cardinality(Holders(o)) - Cardinality(Kept(old, o))
<1>1. \A p \in Plain : holds'[p] = IF p \in Destroyed(old) THEN {} ELSE holds[p]
  <2>1. holds' = [p \in Plain |-> IF p \in Destroyed(old) THEN {} ELSE holds[p]]
    BY ReleaseParts
  <2> QED BY <2>1
<1>2. Holders(o)' = Holders(o) \ Destroyed(old)
  BY <1>1 DEF Holders
<1>3. Kept(old, o) = Holders(o) \cap Destroyed(old)
  BY DEF Kept, Holders
<1>4. IsFiniteSet(Holders(o))
  BY Finite
<1>5. Cardinality(Holders(o) \ Destroyed(old)) =
        Cardinality(Holders(o)) - Cardinality(Holders(o) \cap Destroyed(old))
  BY <1>4, FS_Difference
<1>6. IsFiniteSet(Holders(o) \cap Destroyed(old))
  BY <1>4, FS_Intersection
<1>7. Cardinality(Kept(old, o)) \in Nat
  BY <1>3, <1>6, FS_CardinalityType
<1> QED BY <1>2, <1>3, <1>5, <1>7, Zenon

LEMMA Balance ==
  ASSUME NEW a \in Nat, NEW b \in Nat, NEW c \in Nat, NEW d \in Nat,
         NEW x \in Nat, NEW y \in Nat, x = a - c, y = b - d
  PROVE  /\ (a + b) - (c + d) = x + y /\ c + d \in Nat
         /\ (a + b) - (c + d) = 0 <=> a + b <= c + d
         /\ a + b = 0 => c + d = 0
         /\ c + d > 0 => a + b # 0
         /\ a + b # 0 /\ a + b <= c + d => c + d > 0
  OBVIOUS

(* Reference counts after a release.                                       *)
LEMMA ReleaseRefs ==
  ASSUME IInv, NEW old, Apart(old), Release(old), NEW o \in Shared
  PROVE  /\ refs'[o] = Cardinality(Pointers(o)') + Cardinality(Holders(o)')
         /\ refs'[o] \in Nat
         /\ o \in Gone(old) <=> refs[o] # 0 /\ refs'[o] = 0
         /\ refs[o] = 0 => refs'[o] = 0
<1> DEFINE a == Cardinality(Pointers(o))
           b == Cardinality(Holders(o))
           c == Cardinality(LetGo(old, o))
           d == Cardinality(Kept(old, o))
           x == Cardinality(Pointers(o)')
           y == Cardinality(Holders(o)')
<1>1. a \in Nat /\ b \in Nat
  BY Finite
<1>2. c \in Nat /\ x = a - c
  BY ReleasePointers
<1>3. d \in Nat /\ y = b - d
  BY ReleaseHolders
<1>4. x \in Nat /\ y \in Nat
  <2>1. Pointers(o)' \in SUBSET Handle /\ Holders(o)' \in SUBSET Plain
    BY DEF Pointers, Holders
  <2> QED BY <2>1, HandleAssumption, FS_Subset, FS_CardinalityType
<1>5. refs[o] = a + b
  BY Counts
<1>6. Released(old, o) = c + d
  BY DEF Released
<1>7. refs'[o] = refs[o] - Released(old, o)
  BY ReleaseParts
<1>8. o \in Gone(old) <=> Released(old, o) > 0 /\ refs[o] <= Released(old, o)
  <2>1. o \notin Destroyed(old) /\ o \notin Member
    BY ReleaseRaw, Kinds
  <2> QED BY <2>1 DEF Gone
<1> HIDE DEF a, b, c, d, x, y
<1>9. /\ (a + b) - (c + d) = x + y /\ c + d \in Nat
      /\ (a + b) - (c + d) = 0 <=> a + b <= c + d
      /\ a + b = 0 => c + d = 0
      /\ c + d > 0 => a + b # 0
      /\ a + b # 0 /\ a + b <= c + d => c + d > 0
  BY <1>1, <1>2, <1>3, <1>4, Balance
<1>10. refs'[o] = (a + b) - (c + d)
  BY <1>5, <1>6, <1>7, Zenon
<1>11. refs'[o] = x + y
  BY <1>9, <1>10, Zenon
<1>12. refs'[o] \in Nat
  BY <1>4, <1>11
<1>13. o \in Gone(old) <=> refs[o] # 0 /\ refs'[o] = 0
  BY <1>5, <1>6, <1>8, <1>9, <1>10, Zenon
<1>14. refs[o] = 0 => refs'[o] = 0
  BY <1>1, <1>4, <1>5, <1>9, <1>10, <1>11
<1> QED BY <1>11, <1>12, <1>13, <1>14 DEF x, y

(* Whatever goes was alive.                                                *)
LEMMA ReleaseMemory ==
  ASSUME IInv, NEW old, Apart(old), Release(old)
  PROVE  /\ \A o \in Gone(old) : Alive(o) /\ o \in Object
         /\ \A o \in Object : memory'[o] = IF o \in Gone(old) THEN "freed" ELSE memory[o]
         /\ memory' \in [Object -> {"unborn", "alive", "freed", "corrupt"}]
         /\ \A p \in Plain : p \in Gone(old) <=> p \in Destroyed(old)
         /\ \A m \in Member : m \in Gone(old) <=> Whole[m] \in Destroyed(old)
         /\ \A s \in Static : s \notin Gone(old)
<1>1. Destroyed(old) \subseteq Plain /\ \A p \in Destroyed(old) : Alive(p)
  BY ReleaseRaw
<1>2. /\ \A p \in Plain : p \in Gone(old) <=> p \in Destroyed(old)
      /\ \A m \in Member : m \in Gone(old) <=> Whole[m] \in Destroyed(old)
      /\ \A s \in Static : s \notin Gone(old)
      /\ Gone(old) \subseteq Plain \cup Member \cup Shared
  BY <1>1, Kinds DEF Gone
<1>3. \A m \in Member : memory[m] = memory[Whole[m]]
  BY DEF IInv, LivesInv
<1>4. \A o \in Shared : o \in Gone(old) => Alive(o)
  BY ReleaseRefs DEF IInv, LivesInv
<1>5. \A o \in Gone(old) : Alive(o) /\ o \in Object
  BY <1>1, <1>2, <1>3, <1>4, Kinds DEF Alive
<1>6. memory' = [o \in Object |->
                         IF o \notin Gone(old) THEN memory[o]
                         ELSE IF memory[o] = "alive" THEN "freed" ELSE "corrupt"]
  BY ReleaseParts
<1>7. \A o \in Object : memory'[o] = IF o \in Gone(old) THEN "freed" ELSE memory[o]
  BY <1>5, <1>6 DEF Alive
<1>8. memory' \in [Object -> {"unborn", "alive", "freed", "corrupt"}]
  BY <1>6 DEF IInv, TypeOK
<1> QED BY <1>2, <1>5, <1>7, <1>8

LEMMA DoRelease ==
  ASSUME IInv, NEW old, Apart(old), Release(old),
         fields' \in [Envelope -> SUBSET Handle],
         \A e \in Envelope : fields'[e] \subseteq fields[e],
         held' \subseteq Handle \cup Envelope
  PROVE  IInv' /\ Ages
<1>1. /\ state' = [h \in Handle |-> IF h \in old THEN "deleted" ELSE state[h]]
      /\ count' = [f \in Handle |-> IF \E h \in old : record[h].family = f
                                       THEN count[f] - 1 ELSE count[f]]
      /\ finalizers' = finalizers \ old /\ record' = record /\ nulled' = nulled
      /\ refs' = [o \in Shared |-> refs[o] - Released(old, o)]
      /\ holds' = [p \in Plain |-> IF p \in Destroyed(old) THEN {} ELSE holds[p]]
  BY ReleaseParts
<1>2. /\ \A o \in Gone(old) : Alive(o) /\ o \in Object
      /\ \A o \in Object : memory'[o] = IF o \in Gone(old) THEN "freed" ELSE memory[o]
      /\ memory' \in [Object -> {"unborn", "alive", "freed", "corrupt"}]
      /\ \A p \in Plain : p \in Gone(old) <=> p \in Destroyed(old)
      /\ \A m \in Member : m \in Gone(old) <=> Whole[m] \in Destroyed(old)
      /\ \A s \in Static : s \notin Gone(old)
  BY ReleaseMemory
<1>3. \A o \in Shared :
        /\ refs'[o] = Cardinality(Pointers(o)') + Cardinality(Holders(o)')
        /\ refs'[o] \in Nat
        /\ o \in Gone(old) <=> refs[o] # 0 /\ refs'[o] = 0
        /\ refs[o] = 0 => refs'[o] = 0
  BY ReleaseRefs
<1>4. \A f \in Handle : count'[f] = Cardinality(Family(f)') /\ count'[f] \in Nat
  BY ReleaseFamilies
<1>5. /\ \A h \in Handle : OwnsRaw(h)' <=> OwnsRaw(h) /\ h \notin old
      /\ \A p \in Plain :
              (\E h \in Handle : OwnsRaw(h)' /\ record'[h].obj = p)
                <=> Alive(p) /\ p \notin Destroyed(old)
  BY ReleaseRaw
<1>6. Ages
  BY <1>2 DEF Ages, Alive
<1>7. TypeOK'
  <2>1. count' \in [Handle -> Nat]
    BY <1>1, <1>4
  <2>2. refs' \in [Shared -> Nat]
    BY <1>1, <1>3
  <2>3. state' \in [Handle -> {"none", "live", "deleted", "lost"}]
        /\ holds' \in [Plain -> SUBSET Shared]
    BY <1>1 DEF IInv, TypeOK
  <2>4. finalizers' = {h \in Handle : state'[h] = "live" /\ record'[h].smart}
    BY <1>1 DEF IInv, TypeOK
  <2> QED BY <1>1, <1>2, <2>1, <2>2, <2>3, <2>4 DEF IInv, TypeOK
<1>8. \A h \in Handle : state'[h] # "none" <=> state[h] # "none"
  BY <1>1 DEF Apart
<1>9. RecordsInv'
  <2>1. ASSUME NEW h \in Handle PROVE Recorded(h)'
    <3>1. CASE state[h] # "none"
      <4>1. record[h].family \in Handle /\ record[h].obj \in Object
            /\ memory[record[h].obj] # "unborn"
        BY <3>1, OfFamily
      <4>2. Recorded(h)
        BY DEF IInv, RecordsInv
      <4> QED BY <1>1, <1>2, <1>8, <3>1, <4>1, <4>2 DEF Recorded
    <3>2. CASE state[h] = "none"
      BY <1>8, <3>2 DEF Recorded
    <3> QED BY <3>1, <3>2
  <2>2. \A f \in nulled' : state'[f] # "none"
    BY <1>1, <1>8 DEF IInv, RecordsInv, TypeOK
  <2>3. \A e \in Envelope : \A h \in fields'[e] :
          state'[h] # "none" /\ record'[h].family = h
    <3>1. \A e \in Envelope : fields[e] \subseteq Handle
      BY DEF IInv, TypeOK
    <3> QED BY <1>1, <1>8, <3>1 DEF IInv, RecordsInv
  <2> QED BY <2>1, <2>2, <2>3 DEF RecordsInv
<1>10. OneFamily'
  BY <1>1, <1>5 DEF IInv, OneFamily
<1>11. LivesInv'
  <2>1. \A o \in Object : memory'[o] # "corrupt"
    BY <1>2 DEF IInv, LivesInv
  <2>2. ASSUME NEW p \in Plain
        PROVE  Alive(p)' <=> \E h \in Handle : OwnsRaw(h)' /\ record'[h].obj = p
    <3>1. p \in Object
      BY Kinds
    <3> QED BY <1>2, <1>5, <3>1 DEF Alive
  <2>3. \A m \in Member : memory'[m] = memory'[Whole[m]]
    <3>1. \A m \in Member : /\ m \in Object /\ Whole[m] \in Plain /\ Whole[m] \in Object
                            /\ memory[m] = memory[Whole[m]]
      BY Kinds DEF IInv, LivesInv
    <3> QED BY <1>2, <3>1
  <2>4. \A s \in Static : Alive(s)'
    <3>1. \A s \in Static : s \in Object /\ Alive(s)
      BY Kinds DEF IInv, LivesInv
    <3> QED BY <1>2, <3>1 DEF Alive
  <2>5. \A o \in Shared : Alive(o)' <=> refs'[o] # 0
    <3>1. \A o \in Shared : o \in Object /\ (Alive(o) <=> refs[o] # 0)
      BY Kinds DEF IInv, LivesInv
    <3>2. \A o \in Shared : Alive(o)' <=> Alive(o) /\ o \notin Gone(old)
      BY <1>2, <3>1 DEF Alive
    <3> QED BY <1>3, <3>1, <3>2
  <2> QED BY <2>1, <2>2, <2>3, <2>4, <2>5 DEF LivesInv
<1>12. CountsAreTrue'
  BY <1>3, <1>4 DEF CountsAreTrue, Holders
<1> QED BY <1>6, <1>7, <1>9, <1>10, <1>11, <1>12 DEF IInv

(* The operations that release handles.                                    *)
LEMMA DoDelete ==
  ASSUME IInv, NEW h \in Handle, Delete(h) \/ Finalize(h)
  PROVE  IInv' /\ Ages
<1>1. /\ state[h] = "live" /\ Release({h}) /\ fields' = fields
      /\ held' \subseteq held
  BY DEF Delete, Finalize
<1>2. Apart({h})
  BY <1>1 DEF Apart
<1>3. fields' \in [Envelope -> SUBSET Handle] /\ held' \subseteq Handle \cup Envelope
  BY <1>1 DEF IInv, TypeOK
<1> QED BY <1>1, <1>2, <1>3, DoRelease

LEMMA DoDispose ==
  ASSUME IInv, NEW e \in Envelope, Dispose(e)
  PROVE  IInv' /\ Ages
<1> DEFINE old == {h \in fields[e] : state[h] = "live"}
<1>1. /\ Release(old) /\ fields' = [fields EXCEPT ![e] = {}]
      /\ held' \subseteq held
  BY DEF Dispose
<1>2. /\ fields' \in [Envelope -> SUBSET Handle] /\ held' \subseteq Handle \cup Envelope
      /\ \A x \in Envelope : fields'[x] \subseteq fields[x]
  BY <1>1 DEF IInv, TypeOK
<1>3. Apart(old)
  BY DEF Apart, IInv, TypeOK, RecordsInv
<1> HIDE DEF old
<1> QED BY <1>1, <1>2, <1>3, DoRelease

-----------------------------------------------------------------------------
LEMMA Start ==
  ASSUME Init
  PROVE  IInv
<1> USE DEF Init
<1>1. TypeOK
  <2>1. \A h \in Handle : NoRecord(h) \in Records
    BY KindsAssumption DEF NoRecord, Records
  <2> QED BY <2>1 DEF TypeOK
<1>2. RecordsInv
  BY DEF RecordsInv, Recorded
<1>3. OneFamily /\ \A h \in Handle : ~OwnsRaw(h)
  BY DEF OneFamily, OwnsRaw
<1>4. LivesInv
  <2>1. \A p \in Plain : ~Alive(p)
    BY Kinds DEF Alive
  <2>2. \A m \in Member : memory[m] = memory[Whole[m]]
    BY Kinds
  <2>3. \A s \in Static : Alive(s)
    BY Kinds DEF Alive
  <2>4. \A o \in Shared : ~Alive(o) /\ refs[o] = 0
    BY Kinds DEF Alive
  <2> QED BY <1>3, <2>1, <2>2, <2>3, <2>4 DEF LivesInv
<1>5. CountsAreTrue
  <2>1. \A f : Family(f) = {}
    BY DEF Family
  <2>2. \A o : Pointers(o) = {} /\ {p \in Plain : o \in holds[p]} = {}
    BY <2>1 DEF Pointers
  <2>3. Cardinality({}) = 0
    BY FS_EmptySet
  <2>4. (\A f \in Handle : count[f] = 0) /\ \A o \in Shared : refs[o] = 0
    OBVIOUS
  <2>5. 0 = 0 + 0
    OBVIOUS
  <2> QED BY <2>1, <2>2, <2>3, <2>4, <2>5, Zenon DEF CountsAreTrue
<1> QED BY <1>1, <1>2, <1>3, <1>4, <1>5 DEF IInv

LEMMA Step ==
  ASSUME IInv, [Next]_vars
  PROVE  IInv' /\ Ages
<1>1. ASSUME NEW h \in Handle, Delete(h) \/ Finalize(h) PROVE IInv' /\ Ages
  BY <1>1, DoDelete
<1>2. ASSUME NEW h \in Handle, Lose(h) PROVE IInv' /\ Ages
  BY <1>2, DoLose
<1>3. ASSUME NEW h \in Handle, Nullify(h) PROVE IInv' /\ Ages
  BY <1>3, DoNullify
<1>4. ASSUME NEW h \in Handle, NEW k \in Handle, Clone(h, k) PROVE IInv' /\ Ages
  BY <1>4, DoClone
<1>5. ASSUME NEW h \in Handle, NEW k \in Handle, Keep(h, k) PROVE IInv' /\ Ages
  BY <1>5, DoKeep
<1>6. ASSUME NEW o \in Plain \cup Shared, NEW h \in Handle, Construct(o, h)
      PROVE  IInv' /\ Ages
  BY <1>6, DoConstruct
<1>7. ASSUME NEW s \in Handle, NEW h \in Handle, NEW o \in Plain, ReturnCopy(s, o, h)
      PROVE  IInv' /\ Ages
  BY <1>7, DoReturnCopy
<1>8. ASSUME NEW s \in Handle, NEW h \in Handle, NEW o \in Object, ReturnPointer(s, o, h)
      PROVE  IInv' /\ Ages
  BY <1>8, DoReturnPointer
<1>9. ASSUME NEW s \in Handle, NEW h \in Handle, NEW o \in Shared, ReturnShared(s, o, h)
      PROVE  IInv' /\ Ages
  BY <1>9, DoReturnShared
<1>10. ASSUME NEW s \in Handle, NEW o \in Shared, Forget(s, o) PROVE IInv' /\ Ages
  BY <1>10, DoForget
<1>11. ASSUME NEW s \in Handle, NEW h \in Handle, NEW k \in Handle, NEW e \in Envelope,
              NEW o \in Plain, NEW q \in Shared, ReturnEnvelope(s, e, o, h, q, k)
       PROVE  IInv' /\ Ages
  BY <1>11, DoReturnEnvelope
<1>12. ASSUME NEW e \in Envelope, Dispose(e) PROVE IInv' /\ Ages
  BY <1>12, DoDispose
<1>13. ASSUME NEW x, Drop(x) PROVE IInv' /\ Ages
  BY <1>13, DoDrop
<1>14. CASE UNCHANGED vars
  <2> USE <1>14 DEF vars, cpp, js
  <2>1. TypeOK'
    BY DEF IInv, TypeOK
  <2>2. RecordsInv'
    BY DEF IInv, RecordsInv, Recorded
  <2>3. OneFamily' /\ LivesInv'
    BY DEF IInv, OneFamily, LivesInv, OwnsRaw, Alive
  <2>4. CountsAreTrue'
    BY DEF IInv, CountsAreTrue, Pointers, Family
  <2> QED BY <2>1, <2>2, <2>3, <2>4 DEF IInv, Ages
<1> QED BY <1>1, <1>2, <1>3, <1>4, <1>5, <1>6, <1>7, <1>8, <1>9, <1>10, <1>11, <1>12,
           <1>13, <1>14 DEF Next

LEMMA Invariance == Spec => []IInv
<1>1. Init => IInv
  BY Start
<1>2. IInv /\ [Next]_vars => IInv'
  BY Step
<1> QED BY <1>1, <1>2, PTL DEF Spec

(* Every variable of EmbindHandles keeps its type, and the registry of     *)
(* finalizers watches exactly the live handles with a smart pointer: no    *)
(* handle is finalized after its deletion.                                 *)
THEOREM HandlesTyped == Spec => []TypeOK
<1>1. IInv => TypeOK
  BY DEF IInv
<1> QED BY <1>1, Invariance, PTL

(* Embind's counter is the number of handles of a family that were not     *)
(* deleted, and the count of OCCT the number of smart pointers and of C++  *)
(* objects that point to the object, after every release of a handle, of   *)
(* an envelope, of a reference.                                            *)
THEOREM CountersCount == Spec => []CountsAreTrue
<1>1. IInv => CountsAreTrue
  BY DEF IInv
<1> QED BY <1>1, Invariance, PTL

-----------------------------------------------------------------------------
(* What owns an object is what it lives for.                               *)
OwnersInv ==
  \A o \in Object : /\ OwnersOf(o) \in SUBSET (Handle \cup Plain \cup Static)
                    /\ OwnersOf(o) # {} <=> memory[o] = "alive"

(* A handle that owns, with a smart pointer or without.                    *)
LEMMA Owners ==
  ASSUME IInv, NEW h \in Handle
  PROVE  Owns(h) <=> \/ OwnsRaw(h) /\ record[h].obj \in Plain
                     \/ /\ state[h] \in Known /\ record[h].smart
                        /\ record[h].obj \in Shared
                        /\ record[h].family \notin nulled
<1>1. CASE state[h] \in Known
  <2>1. /\ record[h].smart => record[h].obj \in Shared /\ ~record[h].borrowed
        /\ ~record[h].smart /\ ~record[h].borrowed => record[h].obj \in Plain
    BY <1>1, OfFamily DEF Known
  <2> QED BY <1>1, <2>1 DEF Owns, OwnsRaw, Known
<1>2. CASE state[h] \notin Known
  BY <1>2 DEF Owns, OwnsRaw, Known
<1> QED BY <1>1, <1>2

LEMMA OwnedLives == IInv => OwnersInv
<1> SUFFICES ASSUME IInv, NEW o \in Object
             PROVE  /\ OwnersOf(o) \in SUBSET (Handle \cup Plain \cup Static)
                    /\ OwnersOf(o) # {} <=> memory[o] = "alive"
  BY DEF OwnersInv
<1>1. OwnersOf(o) \in SUBSET (Handle \cup Plain \cup Static)
  BY DEF OwnersOf
<1>2. CASE o \in Plain
  <2>1. OwnersOf(o) = {h \in Handle : OwnsRaw(h) /\ record[h].obj = o}
    <3>1. o \notin Shared /\ o \notin Member /\ o \notin Static
      BY <1>2, Kinds
    <3>2. \A h \in Handle : record[h].obj = o => (Owns(h) <=> OwnsRaw(h))
      BY <1>2, <3>1, Owners
    <3> QED BY <3>1, <3>2 DEF OwnersOf
  <2> QED BY <1>2, <2>1 DEF IInv, LivesInv, Alive
<1>3. CASE o \in Shared
  <2>1. o \notin Plain /\ o \notin Member /\ o \notin Static
    BY <1>3, Kinds
  <2>2. OwnersOf(o) = {h \in Handle : Owns(h) /\ record[h].obj = o} \cup Holders(o)
    BY <1>3, <2>1 DEF OwnersOf, Holders
  <2>3. (\E h \in Handle : Owns(h) /\ record[h].obj = o) <=> Pointers(o) # {}
    <3>1. ASSUME NEW h \in Handle, Owns(h), record[h].obj = o PROVE Pointers(o) # {}
      <4>1. /\ state[h] \in Known /\ record[h].smart
            /\ record[h].family \notin nulled
        BY <2>1, <3>1, Owners
      <4> QED BY <3>1, <4>1, PointedTo
    <3>2. ASSUME NEW f \in Pointers(o)
          PROVE  \E h \in Handle : Owns(h) /\ record[h].obj = o
      <4>1. f \in Handle /\ Family(f) # {} /\ f \notin nulled
            /\ record[f].smart /\ record[f].obj = o
        BY DEF Pointers
      <4>2. PICK h \in Handle : state[h] \in Known /\ record[h].family = f
        BY <4>1 DEF Family, Known
      <4>3. record[f] = record[h]
        BY <4>2, OfFamily DEF Known
      <4>4. Owns(h)
        BY <1>3, <4>1, <4>2, <4>3, Owners
      <4> QED BY <4>1, <4>3, <4>4
    <3> QED BY <3>1, <3>2
  <2>4. refs[o] # 0 <=> Pointers(o) # {} \/ Holders(o) # {}
    <3> DEFINE a == Cardinality(Pointers(o))
               b == Cardinality(Holders(o))
    <3>1. /\ a \in Nat /\ b \in Nat
          /\ IsFiniteSet(Pointers(o)) /\ IsFiniteSet(Holders(o))
      BY Finite
    <3>2. (a = 0 <=> Pointers(o) = {}) /\ (b = 0 <=> Holders(o) = {})
      BY <3>1, FS_EmptySet
    <3>3. refs[o] = a + b
      BY <1>3, Counts
    <3> HIDE DEF a, b
    <3>4. a + b # 0 <=> a # 0 \/ b # 0
      BY <3>1
    <3> QED BY <3>2, <3>3, <3>4, Zenon
  <2>5. memory[o] = "alive" <=> refs[o] # 0
    BY <1>3 DEF IInv, LivesInv, Alive
  <2> QED BY <1>1, <2>2, <2>3, <2>4, <2>5
<1>4. CASE o \in Member
  <2>1. o \notin Plain /\ o \notin Shared /\ o \notin Static /\ Whole[o] \in Plain
    BY <1>4, Kinds
  <2>2. \A h \in Handle : Owns(h) => record[h].obj # o
    BY <2>1, Owners
  <2>3. OwnersOf(o) = {p \in Plain : Whole[o] = p /\ memory[p] = "alive"}
    BY <1>4, <2>1, <2>2 DEF OwnersOf
  <2> QED BY <1>4, <2>1, <2>3 DEF IInv, LivesInv
<1>5. CASE o \in Static
  BY <1>5 DEF OwnersOf, IInv, LivesInv, Alive
<1> QED BY <1>1, <1>2, <1>3, <1>4, <1>5, Kinds

(* The life of an object in EmbindHandles is that of a thing in Ownership: *)
(* alive as long as a handle that owns it or a C++ object that keeps it,   *)
(* freed in the step that takes the last of them away, whatever borrowed   *)
(* handles, clones, envelopes and finalizers there are, and never again.   *)
THEOREM LivesWhileOwned == Spec => LivesAsLongAsOwned
<1>1. Init => Memory!Init
  <2> SUFFICES ASSUME Init PROVE Memory!Init
    OBVIOUS
  <2>1. OwnersInv
    BY Start, OwnedLives
  <2>2. memory = [o \in Object |-> IF o \in Static THEN "alive" ELSE "unborn"]
    BY DEF Init
  <2> QED BY <2>1, <2>2 DEF Memory!Init, Memory!Following, OwnersInv
<1>2. IInv /\ OwnersInv /\ IInv' /\ OwnersInv' /\ [Next]_vars => [Memory!Next]_Memory!vars
  <2> SUFFICES ASSUME IInv, OwnersInv, IInv', OwnersInv', [Next]_vars
               PROVE  Memory!Next
    OBVIOUS
  <2>1. Ages
    BY Step
  <2>2. \A o \in Object : /\ OwnersOf(o)' \in SUBSET (Handle \cup Plain \cup Static)
                          /\ OwnersOf(o)' # {} <=> memory'[o] = "alive"
    BY DEF OwnersInv
  <2>3. /\ memory' \in [Object -> {"unborn", "alive", "freed", "corrupt"}]
        /\ memory \in [Object -> {"unborn", "alive", "freed", "corrupt"}]
        /\ \A o \in Object : memory'[o] # "corrupt" /\ memory[o] # "corrupt"
    BY DEF IInv, TypeOK, LivesInv
  <2>4. [o \in Object |-> OwnersOf(o)]' \in
          [Object -> SUBSET (Handle \cup Plain \cup Static)]
    BY <2>2
  <2>5. \A o \in Object : memory[o] = "freed" => OwnersOf(o)' = {}
    BY <2>1, <2>2 DEF Ages
  <2>6. \A o \in Object : memory'[o] = Memory!Following(memory[o], OwnersOf(o)')
    BY <2>1, <2>2, <2>3 DEF Ages, Memory!Following
  <2>7. memory' = [o \in Object |-> Memory!Following(memory[o], OwnersOf(o)')]
    BY <2>3, <2>6
  <2> QED BY <2>4, <2>5, <2>7 DEF Memory!Next
<1> QED BY <1>1, <1>2, Invariance, OwnedLives, PTL DEF Spec, LivesAsLongAsOwned, Memory!Spec

(* After the disposer of an envelope ran, no handle that it held is live,  *)
(* be it that the application had deleted some of them before.             *)
THEOREM DisposersRelease == Spec => DisposerReleasesAll
<1>1. IInv /\ [Next]_vars =>
        [\A e \in Envelope : \A h \in fields[e] : fields'[e] = {} => state'[h] # "live"]_vars
  <2> SUFFICES ASSUME IInv, Next, NEW e \in Envelope, NEW h \in fields[e], fields'[e] = {}
               PROVE  state'[h] # "live"
    OBVIOUS
  <2>1. h \in Handle /\ fields \in [Envelope -> SUBSET Handle] /\ fields[e] # {}
    BY DEF IInv, TypeOK
  <2>2. fields' # fields
    BY <2>1
  <2>3. \/ \E x \in Envelope : Dispose(x)
        \/ \E s, k, g \in Handle : \E x \in Envelope : \E o \in Plain : \E q \in Shared :
             ReturnEnvelope(s, x, o, k, q, g)
    BY <2>2 DEF Next, Delete, Finalize, Lose, Nullify, Clone, Keep, Construct, ReturnCopy,
                ReturnPointer, ReturnShared, Forget, Drop, js
  <2>4. ASSUME NEW x \in Envelope, Dispose(x) PROVE state'[h] # "live"
    <3>1. fields' = [fields EXCEPT ![x] = {}]
          /\ Release({g \in fields[x] : state[g] = "live"})
      BY <2>4 DEF Dispose
    <3>2. x = e
      BY <2>1, <3>1
    <3>3. state'[h] = IF h \in {g \in fields[x] : state[g] = "live"} THEN "deleted"
                      ELSE state[h]
      BY <2>1, <3>1, ReleaseParts
    <3> QED BY <3>2, <3>3
  <2>5. ASSUME NEW x \in Envelope, NEW s \in Handle, NEW k \in Handle, NEW g \in Handle,
               NEW o \in Plain, NEW q \in Shared, ReturnEnvelope(s, x, o, k, q, g)
        PROVE  FALSE
    <3>1. fields' = [fields EXCEPT ![x] = {k, g}]
      BY <2>5 DEF ReturnEnvelope
    <3> QED BY <2>1, <3>1
  <2> QED BY <2>3, <2>4, <2>5
<1> QED BY <1>1, Invariance, PTL DEF Spec, DisposerReleasesAll

-----------------------------------------------------------------------------
(* EmbindOverloads: the lines of the classes.  The recursion that defines  *)
(* them ends because no class is its own base.                             *)
Above(g, c) == IF Parent[c] = NoClass THEN <<c>> ELSE Append(g[Parent[c]], c)

(* A function that gives the lines of some classes and of their bases.     *)
Lines(g) ==
    /\ DOMAIN g \subseteq Class
    /\ \A c \in DOMAIN g : /\ Parent[c] # NoClass => Parent[c] \in DOMAIN g
                           /\ g[c] = Above(g, c)

LEMMA LinesAgree ==
    ASSUME NEW g, NEW h, Lines(g), Lines(h), NEW k \in DOMAIN g \intersect DOMAIN h
    PROVE  g[k] = h[k]
<1> DEFINE S == {c \in DOMAIN g \intersect DOMAIN h : g[c] # h[c]}
<1>1. SUFFICES ASSUME S # {} PROVE FALSE
  OBVIOUS
<1>2. S \in SUBSET Class
  BY DEF Lines
<1>3. PICK c \in S : Parent[c] \notin S
  BY <1>1, <1>2, AcyclicAssumption
<1>4. g[c] = Above(g, c) /\ h[c] = Above(h, c) /\ g[c] # h[c]
  BY DEF Lines
<1>5. Parent[c] # NoClass
  BY <1>4 DEF Above
<1>6. Parent[c] \in DOMAIN g \intersect DOMAIN h
  BY <1>5 DEF Lines
<1>7. g[Parent[c]] = h[Parent[c]]
  BY <1>3, <1>6
<1> QED BY <1>4, <1>7 DEF Above

LEMMA LinesReach ==
    ASSUME NEW k \in Class
    PROVE  \E g : Lines(g) /\ k \in DOMAIN g
<1> DEFINE S == {c \in Class : ~ \E g : Lines(g) /\ c \in DOMAIN g}
<1>1. SUFFICES ASSUME S # {} PROVE FALSE
  OBVIOUS
<1>2. PICK c \in S : Parent[c] \notin S
  BY <1>1, AcyclicAssumption
<1>3. CASE Parent[c] = NoClass
  <2> DEFINE g == [d \in {c} |-> <<d>>]
  <2>1. DOMAIN g = {c} /\ g[c] = <<c>>
    OBVIOUS
  <2> HIDE DEF g
  <2>2. Lines(g)
    BY <1>3, <2>1 DEF Lines, Above
  <2> QED BY <2>1, <2>2
<1>4. CASE Parent[c] # NoClass
  <2>1. Parent[c] \in Class
    BY <1>4, HierarchyAssumption
  <2>2. PICK g : Lines(g) /\ Parent[c] \in DOMAIN g
    BY <1>2, <2>1
  <2>3. c \notin DOMAIN g
    BY <2>2
  <2> DEFINE h == [d \in DOMAIN g \union {c} |->
                     IF d = c THEN Append(g[Parent[c]], c) ELSE g[d]]
  <2>4. /\ DOMAIN h = DOMAIN g \union {c} /\ h[c] = Append(g[Parent[c]], c)
        /\ \A d \in DOMAIN g : h[d] = g[d]
    BY <2>3
  <2> HIDE DEF h
  <2>5. ASSUME NEW d \in DOMAIN h
        PROVE  /\ Parent[d] # NoClass => Parent[d] \in DOMAIN h
               /\ h[d] = Above(h, d)
    <3>1. CASE d = c
      BY <1>4, <2>2, <2>4, <3>1 DEF Above
    <3>2. CASE d \in DOMAIN g
      <4>1. /\ Parent[d] # NoClass => Parent[d] \in DOMAIN g
            /\ g[d] = Above(g, d)
        BY <2>2, <3>2 DEF Lines
      <4> QED BY <2>4, <3>2, <4>1 DEF Above
    <3> QED BY <2>4, <3>1, <3>2
  <2>6. Lines(h)
    BY <2>2, <2>4, <2>5 DEF Lines
  <2> QED BY <2>4, <2>6
<1> QED BY <1>3, <1>4

LEMMA LineOf ==
    ASSUME NEW c \in Class
    PROVE  Line[c] = IF Parent[c] = NoClass THEN <<c>> ELSE Append(Line[Parent[c]], c)
<1> DEFINE of(k) == CHOOSE g : Lines(g) /\ k \in DOMAIN g
           whole == [k \in Class |-> of(k)[k]]
<1>1. \A k \in Class : Lines(of(k)) /\ k \in DOMAIN of(k)
  BY LinesReach
<1> HIDE DEF of
<1>2. ASSUME NEW k \in Class PROVE whole[k] = Above(whole, k)
  <2>1. of(k)[k] = Above(of(k), k)
    BY <1>1 DEF Lines
  <2>2. CASE Parent[k] = NoClass
    BY <2>1, <2>2 DEF Above
  <2>3. CASE Parent[k] # NoClass
    <3>1. Parent[k] \in Class /\ Parent[k] \in DOMAIN of(k)
      BY <1>1, <2>3, HierarchyAssumption DEF Lines
    <3>2. of(k)[Parent[k]] = of(Parent[k])[Parent[k]]
      BY <1>1, <3>1, LinesAgree
    <3>3. whole[Parent[k]] = of(k)[Parent[k]]
      BY <3>1, <3>2
    <3> HIDE DEF whole
    <3>4. whole[k] = of(k)[k]
      BY DEF whole
    <3> QED BY <2>1, <2>3, <3>3, <3>4 DEF Above
  <2> QED BY <2>2, <2>3
<1>3. whole = [k \in Class |-> whole[k]]
  OBVIOUS
<1> HIDE DEF whole
<1>4. whole = [k \in Class |-> IF Parent[k] = NoClass THEN <<k>>
                               ELSE Append(whole[Parent[k]], k)]
  BY <1>2, <1>3 DEF Above
<1>5. Line = [k \in Class |-> IF Parent[k] = NoClass THEN <<k>>
                              ELSE Append(Line[Parent[k]], k)]
  BY <1>4 DEF Line
<1> QED BY <1>5

(* A class, its base and so on.                                            *)
LEMMA InAppend ==
    ASSUME NEW E, NEW s \in Seq(E), NEW e
    PROVE  In(Append(s, e)) = In(s) \union {e}
<1>1. /\ Len(s) \in Nat /\ DOMAIN s = 1 .. Len(s)
      /\ DOMAIN Append(s, e) = 1 .. Len(s) + 1
      /\ \A i \in 1 .. Len(s) : Append(s, e)[i] = s[i]
      /\ Append(s, e)[Len(s) + 1] = e
  OBVIOUS
<1>2. 1 .. Len(s) + 1 = (1 .. Len(s)) \union {Len(s) + 1}
  BY <1>1
<1> QED BY <1>1, <1>2 DEF In

LEMMA LineMembers ==
    ASSUME NEW k \in Class
    PROVE  /\ Line[k] \in Seq(Class)
           /\ In(Line[k]) = {k} \union IF Parent[k] = NoClass THEN {} ELSE In(Line[Parent[k]])
<1> DEFINE S == {c \in Class : Line[c] \notin Seq(Class)}
<1>1. S = {}
  <2>1. SUFFICES ASSUME S # {} PROVE FALSE
    OBVIOUS
  <2>2. PICK c \in S : Parent[c] \notin S
    BY <2>1, AcyclicAssumption
  <2>3. Line[c] = IF Parent[c] = NoClass THEN <<c>> ELSE Append(Line[Parent[c]], c)
    BY LineOf
  <2>4. Parent[c] # NoClass => Parent[c] \in Class
    BY HierarchyAssumption
  <2>5. CASE Parent[c] = NoClass
    <3>1. Line[c] = <<c>> /\ c \in Class
      BY <2>3, <2>5
    <3>2. Line[c] \in Seq(Class)
      BY <3>1
    <3> QED BY <3>2
  <2>6. CASE Parent[c] # NoClass
    <3>1. Line[Parent[c]] \in Seq(Class) /\ c \in Class
      BY <2>2, <2>4, <2>6
    <3>2. Append(Line[Parent[c]], c) \in Seq(Class)
      BY <3>1
    <3> QED BY <2>3, <2>6, <3>2
  <2> QED BY <2>5, <2>6
<1>2. Line[k] = IF Parent[k] = NoClass THEN <<k>> ELSE Append(Line[Parent[k]], k)
  BY LineOf
<1>3. CASE Parent[k] = NoClass
  <2>1. In(<<k>>) = {k}
    BY DEF In
  <2> QED BY <1>1, <1>2, <1>3, <2>1
<1>4. CASE Parent[k] # NoClass
  <2>1. Parent[k] \in Class
    BY <1>4, HierarchyAssumption
  <2>2. Line[Parent[k]] \in Seq(Class)
    BY <1>1, <2>1
  <2>3. In(Append(Line[Parent[k]], k)) = In(Line[Parent[k]]) \union {k}
    BY <2>2, InAppend
  <2> QED BY <1>1, <1>2, <1>4, <2>3
<1> QED BY <1>3, <1>4

LEMMA LineInClass ==
    ASSUME NEW c \in Class
    PROVE  In(Line[c]) \subseteq Class /\ c \in In(Line[c])
<1>1. Line[c] \in Seq(Class) /\ c \in In(Line[c])
  BY LineMembers
<1> QED BY <1>1 DEF In

(* The bases of a base are bases.                                          *)
LEMMA LineTransitive ==
    ASSUME NEW k \in Class, NEW b \in In(Line[k])
    PROVE  In(Line[b]) \subseteq In(Line[k])
<1> DEFINE S == {c \in Class : \E d \in In(Line[c]) : ~ (In(Line[d]) \subseteq In(Line[c]))}
<1>1. SUFFICES ASSUME S # {} PROVE FALSE
  OBVIOUS
<1>2. PICK c \in S : Parent[c] \notin S
  BY <1>1, AcyclicAssumption
<1>3. PICK d \in In(Line[c]) : ~ (In(Line[d]) \subseteq In(Line[c]))
  BY <1>2
<1>4. In(Line[c]) = {c} \union IF Parent[c] = NoClass THEN {} ELSE In(Line[Parent[c]])
  BY LineMembers
<1>5. Parent[c] # NoClass /\ d \in In(Line[Parent[c]])
  BY <1>3, <1>4
<1>6. Parent[c] \in Class
  BY <1>5, HierarchyAssumption
<1>7. In(Line[d]) \subseteq In(Line[Parent[c]])
  BY <1>2, <1>5, <1>6
<1> QED BY <1>3, <1>4, <1>5, <1>7
-----------------------------------------------------------------------------
(* The callbacks of functions that are linked, and of those that are bound. *)
Live == ({"class"} \X Class) \cup ({"bind"} \X Linked) \cup ({"resolve"} \X bound)
Statements == ({"class"} \X Class) \cup ({"type"} \X Type) \cup ({"bind"} \X Linked)
Items(callbacks) == [callback : callbacks, told : Type \cup {NoType}]

(* What is to be called is about such functions. *)
AgendaInv ==
  /\ program \in Programs
  /\ todo \subseteq Type /\ registered \subseteq Type
  /\ running \in Seq(Statements)
  /\ awaiting \in [Type -> Seq(Live)]
  /\ missing \in [Callbacks -> SUBSET Type]
  /\ agenda \in Seq(Items(Live))
  /\ resolved \subseteq bound /\ bound \subseteq Linked

(* What a class holds of a name is its own or its bases'. *)
OfLine(f, c) == f \in Linked /\ Of[f] \in In(Line[c])
SlotOK(slot, c) ==
  \/ slot.owner \in In(Line[c]) /\ slot.entry = NoEntry
  \/ slot.owner = NoClass /\ OfLine(slot.entry.fn, c)
TableOK(own, c) ==
  /\ DOMAIN own \subseteq Arities
  /\ \A n \in DOMAIN own : SlotOK(own[n], c)
TablesInv == DOMAIN table = Class /\ \A c \in Class : TableOK(table[c], c)

(* And so is what its dispatchers choose from. *)
DispatcherOK(d, c) ==
  /\ d = [signatures |-> d.signatures, order |-> d.order]
  /\ d.order \in Seq(Fn)
  /\ \A g \in In(d.order) : OfLine(g, c)
DispatchersInv ==
  /\ DOMAIN dispatcher = Dispatchers
  /\ \A c \in Class : \A n \in Arities : DispatcherOK(dispatcher[<<c, n>>], c)

(* A bound function is in a slot of its own class, which no base owns. *)
BoundInv ==
  \A f \in bound : IsMember(f) =>
    /\ Len(Params[f]) \in DOMAIN table[Of[f]]
    /\ table[Of[f]][Len(Params[f])].owner \in {NoClass, Of[f]}

BodiesInv ==
  /\ DOMAIN ctor = Class /\ early \subseteq Class
  /\ \A c \in Class : DOMAIN ctor[c] \subseteq Arities

StartInv == AgendaInv /\ TablesInv /\ DispatchersInv /\ BoundInv /\ BodiesInv

-----------------------------------------------------------------------------
LEMMA SeqWider ==
    ASSUME NEW A, NEW B, A \subseteq B, NEW s \in Seq(A)
    PROVE  s \in Seq(B)
  OBVIOUS

LEMMA InSeq ==
    ASSUME NEW E, NEW s \in Seq(E)
    PROVE  In(s) \subseteq E /\ s \in Seq(In(s))
  BY DEF In

(* Some function of a non-empty set of positions is the last.              *)
LEMMA LastOf ==
    ASSUME NEW n \in Nat, NEW A \in SUBSET (1 .. n), A # {}
    PROVE  \E i \in A : \A j \in A : j <= i
<1> DEFINE above(i) == {j \in A : j > i}
           T == {above(i) : i \in A}
           R == StrictSubsetOrdering(A)
<1>1. IsFiniteSet(A)
  BY FS_Interval, FS_Subset, IsFiniteSet(1 .. n)
<1>2. IsWellFoundedOn(R, SUBSET A)
  BY <1>1, FS_StrictSubsetOrderingWellFounded, FS_FiniteSubsetsOfFinite
<1>3. T \subseteq SUBSET A /\ T # {}
  OBVIOUS
<1>4. PICK t \in T : \A u \in T : ~ (<<u, t>> \in R)
  <2> HIDE DEF T, R
  <2> QED BY <1>2, <1>3, WFMin
<1>5. PICK i \in A : t = above(i)
  OBVIOUS
<1>6. \A x \in A : x \in Int
  OBVIOUS
<1>7. ASSUME NEW j \in A, j > i PROVE FALSE
  <2>1. \A x \in A : x > j => x > i
    <3> HIDE DEF above
    <3> QED BY <1>6, <1>7
  <2>2. above(j) \subseteq above(i) /\ j \in above(i) /\ j \notin above(j)
    <3>1. ~ (j > j) /\ j > i
      BY <1>6, <1>7
    <3> QED BY <2>1, <3>1
  <2>3. above(j) \in SUBSET A /\ above(i) \in SUBSET A
    OBVIOUS
  <2>4. <<above(j), above(i)>> \in R
    BY <2>2, <2>3 DEF StrictSubsetOrdering
  <2> QED BY <2>4, <1>4, <1>5
<1> QED BY <1>6, <1>7

(* Where the look-up of the method ends: at a class of the line that has a *)
(* table, at the class itself if it has one.                               *)
LEMMA HolderHas ==
    ASSUME NEW t, NEW c \in Class, Holder(t, c) # NoClass
    PROVE  /\ Holder(t, c) \in In(Line[c]) /\ t[Holder(t, c)] # <<>>
           /\ t[c] # <<>> => Holder(t, c) = c
<1> DEFINE n == Len(Line[c])
           up == {i \in DOMAIN Line[c] : t[Line[c][i]] # <<>>}
           top == CHOOSE i \in up : \A j \in up : j <= i
<1>1. Line[c] \in Seq(Class)
  BY LineMembers
<1>2. n \in Nat /\ DOMAIN Line[c] = 1 .. n
  BY <1>1
<1>3. up # {} /\ Holder(t, c) = Line[c][top]
  BY DEF Holder
<1>4. up \in SUBSET (1 .. n)
  BY <1>2
<1>5. top \in up /\ \A j \in up : j <= top
  <2> HIDE DEF up
  <2>1. \E i \in up : \A j \in up : j <= i
    BY <1>2, <1>3, <1>4, LastOf
  <2> QED BY <2>1
<1>6. Holder(t, c) \in In(Line[c]) /\ t[Holder(t, c)] # <<>>
  BY <1>3, <1>5 DEF In
<1>7. ASSUME t[c] # <<>> PROVE Holder(t, c) = c
  <2>1. n \in 1 .. n /\ Line[c][n] = c
    <3>1. CASE Parent[c] = NoClass
      <4>1. Line[c] = <<c>>
        BY <3>1, LineOf
      <4> QED BY <4>1
    <3>2. CASE Parent[c] # NoClass
      <4> DEFINE s == Line[Parent[c]]
      <4>1. s \in Seq(Class) /\ Line[c] = Append(s, c)
        BY <3>2, LineOf, LineMembers, HierarchyAssumption
      <4> HIDE DEF s
      <4>2. Len(Append(s, c)) = Len(s) + 1 /\ Append(s, c)[Len(s) + 1] = c /\ Len(s) \in Nat
        BY <4>1
      <4> QED BY <4>1, <4>2
    <3> QED BY <3>1, <3>2
  <2>2. n \in up
    BY <1>2, <1>7, <2>1
  <2>3. n <= top /\ top \in 1 .. n
    BY <1>4, <1>5, <2>2
  <2> HIDE DEF top, up
  <2>4. top = n
    BY <1>2, <2>3
  <2> QED BY <1>3, <2>1, <2>4
<1> QED BY <1>6, <1>7

(* It depends on the tables of the line only.                              *)
LEMMA HolderSame ==
    ASSUME NEW t, NEW u, NEW c \in Class, \A d \in In(Line[c]) : t[d] = u[d]
    PROVE  Holder(t, c) = Holder(u, c)
<1> DEFINE up(x) == {i \in DOMAIN Line[c] : x[Line[c][i]] # <<>>}
           end(s) == IF s = {} THEN NoClass
                     ELSE Line[c][CHOOSE i \in s : \A j \in s : j <= i]
<1>1. \A i \in DOMAIN Line[c] : t[Line[c][i]] = u[Line[c][i]]
  BY DEF In
<1>2. {i \in DOMAIN Line[c] : t[Line[c][i]] # <<>>}
        = {i \in DOMAIN Line[c] : u[Line[c][i]] # <<>>}
  BY <1>1
<1>3. Holder(t, c) = end(up(t)) /\ Holder(u, c) = end(up(u))
  BY Zenon DEF Holder
<1> HIDE DEF end
<1> QED BY <1>2, <1>3

(* The functions that are linked.                                          *)
LEMMA LinkedAre ==
    ASSUME program \in Programs
    PROVE  /\ Linked \subseteq Fn
           /\ \A f \in Linked : Of[f] \in Class /\ Len(Params[f]) \in Arities
           /\ \A c \in Class : /\ program.methods[c] \in Seq(Linked)
                               /\ program.ctors[c] \in Seq(Linked)
<1>1. /\ \A c \in Class : program.methods[c] \in Seq(Fn) /\ program.ctors[c] \in Seq(Fn)
  BY ProgramsAssumption
<1>2. \A c \in Class : /\ In(program.methods[c]) \subseteq Fn
                       /\ In(program.ctors[c]) \subseteq Fn
                       /\ program.methods[c] \in Seq(In(program.methods[c]))
                       /\ program.ctors[c] \in Seq(In(program.ctors[c]))
  BY <1>1, InSeq
<1>3. \A c \in Class : /\ In(program.methods[c]) \subseteq Linked
                       /\ In(program.ctors[c]) \subseteq Linked
  BY DEF Linked
<1>4. \A c \in Class : /\ program.methods[c] \in Seq(Linked)
                       /\ program.ctors[c] \in Seq(Linked)
  BY <1>2, <1>3, SeqWider
<1>5. Linked \subseteq Fn
  BY <1>2 DEF Linked
<1>6. \A f \in Fn : Of[f] \in Class /\ Len(Params[f]) \in Arities
  BY FnAssumption DEF Arities
<1> QED BY <1>4, <1>5, <1>6

LEMMA SlotOfLine ==
    ASSUME NEW c \in Class, NEW b \in In(Line[c]), NEW own, TableOK(own, b)
    PROVE  TableOK(own, c)
<1>1. In(Line[b]) \subseteq In(Line[c])
  BY LineTransitive
<1> QED BY <1>1 DEF TableOK, SlotOK, OfLine

(* The table that ensureOverloadTable leaves a class with.                 *)
LEMMA Ensured ==
    ASSUME TablesInv, NEW c \in Class, Holder(table, c) # NoClass
    PROVE  LET own == EnsureOverloadTable(table, c)
           IN  /\ DOMAIN own = Class /\ \A d \in Class \ {c} : own[d] = table[d]
               /\ own[c] = table[Holder(table, c)]
               /\ TableOK(own[c], c)
               /\ DOMAIN table[c] \subseteq DOMAIN own[c]
               /\ \A m \in DOMAIN table[c] : own[c][m] = table[c][m]
<1> DEFINE own == EnsureOverloadTable(table, c)
           h == Holder(table, c)
<1>1. h \in In(Line[c]) /\ (table[c] # <<>> => h = c)
  BY HolderHas
<1>2. h \in Class
  BY <1>1, LineInClass
<1>3. DOMAIN own = Class /\ (\A d \in Class \ {c} : own[d] = table[d])
      /\ own[c] = IF table[c] = <<>> THEN table[h] ELSE table[c]
  BY DEF EnsureOverloadTable, TablesInv
<1> HIDE DEF own, h
<1>4. own[c] = table[h]
  BY <1>1, <1>3
<1>5. TableOK(table[h], c)
  BY <1>1, <1>2, SlotOfLine DEF TablesInv
<1>6. table[c] = <<>> => DOMAIN table[c] = {}
  <2>1. DOMAIN <<>> = {}
    OBVIOUS
  <2> QED BY <2>1
<1> QED BY <1>3, <1>4, <1>5, <1>6 DEF own, h

-----------------------------------------------------------------------------
(* The callbacks that wait and that are called.                            *)
LEMMA LiveAre ==
    ASSUME AgendaInv
    PROVE  /\ Live \subseteq Callbacks
           /\ Linked \subseteq Fn
           /\ \A cb \in Live : \/ cb \in {"class"} \X Class
                               \/ cb \in {"bind"} \X Linked
                               \/ cb \in {"resolve"} \X bound
<1>1. Linked \subseteq Fn /\ bound \subseteq Linked
  BY LinkedAre DEF AgendaInv
<1> QED BY <1>1 DEF Live, Callbacks

(* Awaiting types, and registering one, among any callbacks L.             *)
LEMMA AwaitKeeps ==
    ASSUME NEW STATE L, L \subseteq Callbacks, NEW STATE cb, cb \in L,
           NEW STATE types, types \subseteq Type,
           NEW STATE rest, rest \in Seq(Items(L)),
           awaiting \in [Type -> Seq(L)], missing \in [Callbacks -> SUBSET Type],
           Await(cb, types, rest)
    PROVE  /\ awaiting' \in [Type -> Seq(L)]
           /\ missing' \in [Callbacks -> SUBSET Type]
           /\ agenda' \in Seq(Items(L))
<1> DEFINE open == types \ registered
           item == [callback |-> cb, told |-> NoType]
<1>1. open \subseteq Type
  OBVIOUS
<1>2. missing' \in [Callbacks -> SUBSET Type]
  <2> HIDE DEF open
  <2>1. missing' = [missing EXCEPT ![cb] = open]
    BY DEF Await, open
  <2> QED BY <1>1, <2>1
<1>3. awaiting' \in [Type -> Seq(L)]
  <2>1. awaiting' = [t \in Type |-> IF t \in open THEN Append(awaiting[t], cb) ELSE awaiting[t]]
    BY DEF Await
  <2>2. \A t \in Type : awaiting[t] \in Seq(L) /\ Append(awaiting[t], cb) \in Seq(L)
    OBVIOUS
  <2> HIDE DEF open
  <2> QED BY <2>1, <2>2
<1>4. agenda' \in Seq(Items(L))
  <2>1. item \in Items(L)
    BY DEF Items
  <2>2. agenda' = (IF open = {} THEN <<item>> ELSE <<>>) \o rest
    BY DEF Await
  <2> HIDE DEF open, item
  <2>3. <<item>> \in Seq(Items(L)) /\ <<>> \in Seq(Items(L))
    BY <2>1
  <2>4. CASE open = {}
    <3> DEFINE first == <<item>>
    <3>1. first \in Seq(Items(L)) /\ agenda' = first \o rest
      BY <2>2, <2>3, <2>4
    <3> HIDE DEF first
    <3> QED BY <3>1
  <2>5. CASE open # {}
    <3> DEFINE first == <<>>
    <3>1. first \in Seq(Items(L)) /\ agenda' = first \o rest
      BY <2>2, <2>3, <2>5
    <3> HIDE DEF first
    <3> QED BY <3>1
  <2> QED BY <2>4, <2>5
<1> QED BY <1>2, <1>3, <1>4

LEMMA RegisterKeeps ==
    ASSUME NEW STATE L, NEW STATE t, t \in Type,
           NEW STATE rest, rest \in Seq(Items(L)),
           awaiting \in [Type -> Seq(L)], registered \subseteq Type,
           Register(t, rest)
    PROVE  /\ awaiting' \in [Type -> Seq(L)]
           /\ registered' \subseteq Type
           /\ agenda' \in Seq(Items(L))
<1>1. registered' \subseteq Type
  BY DEF Register
<1>2. awaiting' \in [Type -> Seq(L)]
  <2>1. awaiting' = [awaiting EXCEPT ![t] = <<>>] /\ <<>> \in Seq(L)
    BY DEF Register
  <2> QED BY <2>1
<1>3. agenda' \in Seq(Items(L))
  <2> DEFINE s == awaiting[t]
             first == [i \in DOMAIN s |-> [callback |-> s[i], told |-> t]]
  <2>1. s \in Seq(L)
    OBVIOUS
  <2>2. agenda' = first \o rest
    BY DEF Register
  <2> HIDE DEF s
  <2>3. DOMAIN s = 1 .. Len(s) /\ Len(s) \in Nat /\ \A i \in 1 .. Len(s) : s[i] \in L
    BY <2>1
  <2>4. \A i \in 1 .. Len(s) : [callback |-> s[i], told |-> t] \in Items(L)
    BY <2>3 DEF Items
  <2>5. first \in Seq(Items(L))
    BY <2>3, <2>4
  <2> HIDE DEF first
  <2> QED BY <2>2, <2>5
<1> QED BY <1>1, <1>2, <1>3

LEMMA BlockKeeps ==
    ASSUME program \in Programs, NEW b \in Type
    PROVE  Block(b) \in Seq(Statements)
<1>1. CASE b \notin Class
  <2>1. <<"type", b>> \in Statements
    BY DEF Statements
  <2>2. Block(b) = <<<<"type", b>>>>
    BY <1>1 DEF Block
  <2> DEFINE x == <<"type", b>>
  <2> HIDE DEF x
  <2>3. x \in Statements /\ Block(b) = <<x>>
    BY <2>1, <2>2 DEF x
  <2> QED BY <2>3
<1>2. CASE b \in Class
  <2> DEFINE s == program.ctors[b] \o program.methods[b]
             own == <<"class", b>>
             others == [i \in DOMAIN s |-> <<"bind", s[i]>>]
  <2>1. s \in Seq(Linked)
    <3>1. program.ctors[b] \in Seq(Linked) /\ program.methods[b] \in Seq(Linked)
      BY <1>2, LinkedAre
    <3> QED BY <3>1
  <2>2. Block(b) = <<own>> \o others
    BY <1>2 DEF Block, Source
  <2>3. own \in Statements
    BY <1>2 DEF Statements
  <2> HIDE DEF s
  <2>4. DOMAIN s = 1 .. Len(s) /\ Len(s) \in Nat /\ \A i \in 1 .. Len(s) : s[i] \in Linked
    BY <2>1
  <2>5. \A i \in 1 .. Len(s) : <<"bind", s[i]>> \in Statements
    BY <2>4 DEF Statements
  <2>6. others \in Seq(Statements)
    BY <2>4, <2>5
  <2> HIDE DEF own, others
  <2>7. <<own>> \in Seq(Statements)
    BY <2>3
  <2> QED BY <2>2, <2>6, <2>7
<1> QED BY <1>1, <1>2

(* The actions on the agenda that bind and resolve nothing.                *)
LEMMA LiveSame ==
    ASSUME program' = program, bound' = bound
    PROVE  Live' = Live /\ Linked' = Linked /\ Statements' = Statements
  BY DEF Live, Linked, Statements

LEMMA BlockStarts ==
    ASSUME AgendaInv, NEW b \in Type, StartBlock(b)
    PROVE  AgendaInv'
<1>1. /\ todo' = todo \ {b} /\ running' = Block(b)
      /\ UNCHANGED <<program, registered, awaiting, missing, agenda, bound, resolved>>
  BY DEF StartBlock, deps
<1>2. Block(b) \in Seq(Statements)
  BY BlockKeeps DEF AgendaInv
<1>3. Live' = Live /\ Linked' = Linked /\ Statements' = Statements
  BY <1>1, LiveSame
<1> QED BY <1>1, <1>2, <1>3 DEF AgendaInv

(* A registration is taken from the running block.                         *)
LEMMA StatementTaken ==
    ASSUME AgendaInv, NEW kind, Statement(kind)
    PROVE  /\ Head(running) \in Statements /\ Head(running)[1] = kind
           /\ running' \in Seq(Statements)
           /\ Live' = Live /\ Linked' = Linked /\ Statements' = Statements
           /\ UNCHANGED <<program, todo, bound, resolved>>
           /\ <<>> \in Seq(Items(Live))
<1>1. /\ running # <<>> /\ Head(running)[1] = kind /\ running' = Tail(running)
      /\ UNCHANGED <<program, todo, bound, resolved>>
  BY DEF Statement
<1>2. running \in Seq(Statements)
  BY DEF AgendaInv
<1>3. Head(running) \in Statements /\ Tail(running) \in Seq(Statements)
  BY <1>1, <1>2
<1>4. Live' = Live /\ Linked' = Linked /\ Statements' = Statements
  BY <1>1, LiveSame
<1> QED BY <1>1, <1>3, <1>4

LEMMA EnumRegistered ==
    ASSUME AgendaInv, RegisterEnum
    PROVE  AgendaInv'
<1> DEFINE t == Head(running)[2]
<1>1. /\ Head(running) \in Statements /\ Head(running)[1] = "type"
      /\ running' \in Seq(Statements)
      /\ Live' = Live /\ Linked' = Linked /\ Statements' = Statements
      /\ UNCHANGED <<program, todo, bound, resolved>>
      /\ <<>> \in Seq(Items(Live))
  BY StatementTaken DEF RegisterEnum
<1>2. t \in Type
  BY <1>1, HierarchyAssumption DEF Statements
<1>3. Register(t, <<>>) /\ missing' = missing
  BY DEF RegisterEnum
<1> HIDE DEF t
<1>4. awaiting \in [Type -> Seq(Live)] /\ registered \subseteq Type
  BY DEF AgendaInv
<1>5. /\ awaiting' \in [Type -> Seq(Live)] /\ registered' \subseteq Type
      /\ agenda' \in Seq(Items(Live))
  BY <1>1, <1>2, <1>3, <1>4, RegisterKeeps
<1> QED BY <1>1, <1>3, <1>5 DEF AgendaInv, Items

LEMMA ClassRegistered ==
    ASSUME AgendaInv, RegisterClass
    PROVE  AgendaInv'
<1> DEFINE cb == Head(running)
           types == {Parent[Head(running)[2]]} \ {NoClass}
<1>1. /\ Head(running) \in Statements /\ Head(running)[1] = "class"
      /\ running' \in Seq(Statements)
      /\ Live' = Live /\ Linked' = Linked /\ Statements' = Statements
      /\ UNCHANGED <<program, todo, bound, resolved>>
      /\ <<>> \in Seq(Items(Live))
  BY StatementTaken DEF RegisterClass
<1>2. cb \in {"class"} \X Class
  BY <1>1 DEF Statements
<1>3. cb \in Live /\ types \subseteq Type
  BY <1>2, HierarchyAssumption DEF Live
<1>4. Await(cb, types, <<>>) /\ registered' = registered
  BY DEF RegisterClass
<1> HIDE DEF cb, types
<1>5. /\ awaiting \in [Type -> Seq(Live)] /\ missing \in [Callbacks -> SUBSET Type]
      /\ Live \subseteq Callbacks
  BY LiveAre DEF AgendaInv
<1>6. /\ awaiting' \in [Type -> Seq(Live)] /\ missing' \in [Callbacks -> SUBSET Type]
      /\ agenda' \in Seq(Items(Live))
  BY <1>1, <1>3, <1>4, <1>5, AwaitKeeps
<1> QED BY <1>1, <1>4, <1>6 DEF AgendaInv, Items

LEMMA FunctionRegistered ==
    ASSUME AgendaInv, RegisterFunction
    PROVE  AgendaInv'
<1> DEFINE cb == Head(running)
           types == {Of[Head(running)[2]]}
<1>1. /\ Head(running) \in Statements /\ Head(running)[1] = "bind"
      /\ running' \in Seq(Statements)
      /\ Live' = Live /\ Linked' = Linked /\ Statements' = Statements
      /\ UNCHANGED <<program, todo, bound, resolved>>
      /\ <<>> \in Seq(Items(Live))
  BY StatementTaken DEF RegisterFunction
<1>2. cb \in {"bind"} \X Linked
  BY <1>1 DEF Statements
<1>3. cb \in Live /\ types \subseteq Type
  BY <1>2, LiveAre, FnAssumption, HierarchyAssumption DEF Live
<1>4. Await(cb, types, <<>>) /\ registered' = registered
  BY DEF RegisterFunction
<1> HIDE DEF cb, types
<1>5. /\ awaiting \in [Type -> Seq(Live)] /\ missing \in [Callbacks -> SUBSET Type]
      /\ Live \subseteq Callbacks
  BY LiveAre DEF AgendaInv
<1>6. /\ awaiting' \in [Type -> Seq(Live)] /\ missing' \in [Callbacks -> SUBSET Type]
      /\ agenda' \in Seq(Items(Live))
  BY <1>1, <1>3, <1>4, <1>5, AwaitKeeps
<1> QED BY <1>1, <1>4, <1>6 DEF AgendaInv, Items

(* The first item of the agenda.                                           *)
LEMMA AgendaTaken ==
    ASSUME AgendaInv, agenda # <<>>
    PROVE  /\ Head(agenda).callback \in Live /\ Head(agenda).told \in Type \cup {NoType}
           /\ Tail(agenda) \in Seq(Items(Live))
<1>1. agenda \in Seq(Items(Live))
  BY DEF AgendaInv
<1>2. Head(agenda) \in Items(Live) /\ Tail(agenda) \in Seq(Items(Live))
  BY <1>1
<1> QED BY <1>2 DEF Items

LEMMA TypeCounted ==
    ASSUME AgendaInv, CountType
    PROVE  AgendaInv'
<1>1. /\ agenda # <<>> /\ agenda' = Tail(agenda)
      /\ missing' = [missing EXCEPT ![Head(agenda).callback] = @ \ {Head(agenda).told}]
      /\ UNCHANGED <<program, todo, running, registered, awaiting, bound, resolved>>
  BY DEF CountType
<1>2. Head(agenda).callback \in Callbacks /\ Tail(agenda) \in Seq(Items(Live))
  BY <1>1, AgendaTaken, LiveAre
<1>3. Live' = Live /\ Linked' = Linked /\ Statements' = Statements
  BY <1>1, LiveSame
<1>4. missing' \in [Callbacks -> SUBSET Type]
  <2>1. missing \in [Callbacks -> SUBSET Type]
    BY DEF AgendaInv
  <2> QED BY <1>1, <1>2, <2>1
<1> QED BY <1>1, <1>2, <1>3, <1>4 DEF AgendaInv, Items

LEMMA ClassCompleted ==
    ASSUME AgendaInv, NEW c \in Class, CompleteClass(c)
    PROVE  AgendaInv'
<1> DEFINE rest == Tail(agenda)
<1>1. /\ agenda # <<>> /\ Register(c, rest)
      /\ UNCHANGED <<program, todo, running, missing, bound, resolved>>
  BY DEF CompleteClass, Called
<1>2. rest \in Seq(Items(Live))
  BY <1>1, AgendaTaken
<1> HIDE DEF rest
<1>3. Live' = Live /\ Linked' = Linked /\ Statements' = Statements
  BY <1>1, LiveSame
<1>4. awaiting \in [Type -> Seq(Live)] /\ registered \subseteq Type /\ c \in Type
  BY HierarchyAssumption DEF AgendaInv
<1>5. /\ awaiting' \in [Type -> Seq(Live)] /\ registered' \subseteq Type
      /\ agenda' \in Seq(Items(Live))
  BY <1>1, <1>2, <1>4, RegisterKeeps
<1> QED BY <1>1, <1>3, <1>5 DEF AgendaInv, Items

(* A function is bound: its parameters are awaited.                        *)
LEMMA FunctionBound ==
    ASSUME AgendaInv, NEW f \in Fn, Bind(f)
    PROVE  /\ AgendaInv' /\ f \in Linked /\ Linked' = Linked
           /\ program' = program /\ bound' = bound \cup {f} /\ resolved' = resolved
<1> DEFINE rest == Tail(agenda)
           cb == <<"resolve", f>>
           types == RawArgTypes(f)
           L == Live \cup {cb}
<1>1. /\ agenda # <<>> /\ Head(agenda).callback = <<"bind", f>>
      /\ bound' = bound \cup {f} /\ Await(cb, types, rest)
      /\ UNCHANGED <<program, todo, running, registered, resolved>>
  BY DEF Bind, Called
<1>2. rest \in Seq(Items(Live)) /\ <<"bind", f>> \in Live
  BY <1>1, AgendaTaken
<1>3. f \in Linked
  BY <1>2 DEF Live
<1>4. Linked' = Linked /\ Statements' = Statements
  BY <1>1 DEF Linked, Statements
<1>5. Live' = L
  BY <1>1, <1>4 DEF Live
<1>6. /\ L \subseteq Callbacks /\ cb \in L /\ Live \subseteq L
  BY LiveAre DEF Callbacks
<1>7. types \subseteq Type
  BY InSeq, FnAssumption DEF RawArgTypes
<1>8. /\ awaiting \in [Type -> Seq(Live)] /\ missing \in [Callbacks -> SUBSET Type]
  BY DEF AgendaInv
<1> HIDE DEF rest, cb, types, L
<1>9. awaiting \in [Type -> Seq(L)]
  <2>1. \A t \in Type : awaiting[t] \in Seq(L)
    BY <1>6, <1>8, SeqWider
  <2> QED BY <1>8, <2>1
<1>10. rest \in Seq(Items(L))
  <2>1. Items(Live) \subseteq Items(L)
    BY <1>6 DEF Items
  <2> QED BY <1>2, <2>1, SeqWider
<1>11. /\ awaiting' \in [Type -> Seq(L)] /\ missing' \in [Callbacks -> SUBSET Type]
       /\ agenda' \in Seq(Items(L))
  BY <1>1, <1>6, <1>7, <1>8, <1>9, <1>10, AwaitKeeps
<1>12. AgendaInv'
  <2>1. Items(Live)' = Items(L)
    BY <1>5 DEF Items
  <2>2. resolved' \subseteq bound' /\ bound' \subseteq Linked'
    BY <1>1, <1>3, <1>4 DEF AgendaInv
  <2>3. running' \in Seq(Statements')
    BY <1>1, <1>4 DEF AgendaInv
  <2> QED BY <1>1, <1>5, <1>11, <2>1, <2>2, <2>3 DEF AgendaInv
<1> QED BY <1>1, <1>3, <1>4, <1>12

(* And resolved.                                                           *)
LEMMA FunctionResolved ==
    ASSUME AgendaInv, NEW f \in Fn, Resolve(f)
    PROVE  /\ AgendaInv' /\ f \in bound /\ Linked' = Linked
           /\ program' = program /\ bound' = bound /\ resolved' = resolved \cup {f}
<1>1. /\ agenda # <<>> /\ Head(agenda).callback = <<"resolve", f>>
      /\ agenda' = Tail(agenda) /\ resolved' = resolved \cup {f}
      /\ UNCHANGED <<program, todo, running, registered, awaiting, missing, bound>>
  BY DEF Resolve, Called
<1>2. Tail(agenda) \in Seq(Items(Live)) /\ <<"resolve", f>> \in Live
  BY <1>1, AgendaTaken
<1>3. f \in bound
  BY <1>2 DEF Live
<1>4. Live' = Live /\ Linked' = Linked /\ Statements' = Statements
  BY <1>1, LiveSame
<1>5. resolved' \subseteq bound'
  BY <1>1, <1>3 DEF AgendaInv
<1> QED BY <1>1, <1>2, <1>3, <1>4, <1>5 DEF AgendaInv, Items

-----------------------------------------------------------------------------
(* What binding or resolving a function does to the tables: the slot of    *)
(* its class and arity is written, the table may be copied from a base.    *)
TableStep(f) ==
    LET c == Of[f]
        n == Len(Params[f])
    IN  /\ DOMAIN table' = Class /\ \A d \in Class \ {c} : table'[d] = table[d]
        /\ TableOK(table'[c], c)
        /\ n \in DOMAIN table'[c] /\ table'[c][n].owner \in {NoClass, c}
        /\ \A m \in DOMAIN table[c] :
              m \in DOMAIN table'[c] /\ (m # n => table'[c][m] = table[c][m])

(* And to the dispatchers: only its class's own may change.                *)
DispatcherStep(f) ==
    LET own == <<Of[f], Len(Params[f])>>
    IN  /\ DOMAIN dispatcher' = Dispatchers
        /\ \A d \in Dispatchers \ {own} : dispatcher'[d] = dispatcher[d]
        /\ DispatcherOK(dispatcher'[own], Of[f])

LEMMA LinkedFunction ==
    ASSUME AgendaInv, NEW f \in Linked
    PROVE  /\ Of[f] \in Class /\ Len(Params[f]) \in Arities /\ OfLine(f, Of[f]) /\ f \in Fn
           /\ Of[f] \in In(Line[Of[f]]) /\ <<Of[f], Len(Params[f])>> \in Dispatchers
<1>1. f \in Fn /\ Of[f] \in Class /\ Len(Params[f]) \in Arities
  BY LinkedAre DEF AgendaInv
<1> QED BY <1>1, LineInClass DEF OfLine, Dispatchers

LEMMA OwnSlots ==
    ASSUME NEW c \in Class, c \in In(Line[c]), NEW e, OfLine(e.fn, c)
    PROVE  /\ SlotOK(OwnFunction(e), c) /\ OwnFunction(e).owner = NoClass
           /\ SlotOK(Owned(c), c) /\ Owned(c).owner = c
  BY DEF SlotOK, OwnFunction, Owned

(* A dispatcher made from a slot a class has.                              *)
LEMMA ForkedOK ==
    ASSUME AgendaInv, DispatchersInv, NEW c \in Class, NEW n \in Arities,
           NEW STATE slot, SlotOK(slot, c)
    PROVE  DispatcherOK(Forked(slot, n), c)
<1>1. CASE slot.owner # NoClass
  <2>1. slot.owner \in In(Line[c]) /\ slot.owner \in Class
    BY <1>1, LineInClass DEF SlotOK
  <2>2. In(Line[slot.owner]) \subseteq In(Line[c])
    BY <2>1, LineTransitive
  <2>3. DispatcherOK(dispatcher[<<slot.owner, n>>], slot.owner)
    BY <2>1 DEF DispatchersInv
  <2>4. DispatcherOK(dispatcher[<<slot.owner, n>>], c)
    BY <2>2, <2>3 DEF DispatcherOK, OfLine
  <2> QED BY <1>1, <2>4 DEF Forked
<1>2. CASE slot.owner = NoClass
  <2> DEFINE g == slot.entry.fn
             d == Forked(slot, n)
  <2>1. OfLine(g, c)
    <3>1. NoClass \notin In(Line[c])
      BY LineInClass, HierarchyAssumption
    <3> QED BY <1>2, <3>1 DEF SlotOK
  <2>2. g \in Fn
    BY <2>1, LinkedAre DEF AgendaInv, OfLine
  <2>3. d = [signatures |-> With(<<>>, Signature(slot.entry), slot.entry), order |-> <<g>>]
    BY <1>2 DEF Forked
  <2> HIDE DEF g, d
  <2>4. d.order = <<g>> /\ d = [signatures |-> d.signatures, order |-> d.order]
    BY <2>3
  <2>5. <<g>> \in Seq(Fn) /\ In(<<g>>) = {g}
    BY <2>2 DEF In
  <2>6. DispatcherOK(d, c)
    BY <2>1, <2>4, <2>5 DEF DispatcherOK
  <2> QED BY <2>6 DEF d
<1> QED BY <1>1, <1>2

LEMMA OwnDispatcherOK ==
    ASSUME AgendaInv, DispatchersInv, NEW c \in Class, NEW n \in Arities,
           NEW STATE slot, SlotOK(slot, c)
    PROVE  DispatcherOK(OwnDispatcher(slot, c, n), c)
  BY ForkedOK DEF OwnDispatcher, DispatchersInv

(* A function of the class is added to it.                                 *)
LEMMA OrderedOK ==
    ASSUME AgendaInv, NEW c \in Class, NEW STATE d, DispatcherOK(d, c), NEW f, OfLine(f, c),
           NEW STATE s
    PROVE  DispatcherOK([signatures |-> s, order |-> Append(d.order, f)], c)
<1>1. f \in Fn /\ d.order \in Seq(Fn)
  BY LinkedAre DEF AgendaInv, OfLine, DispatcherOK
<1>2. Append(d.order, f) \in Seq(Fn) /\ In(Append(d.order, f)) = In(d.order) \union {f}
  BY <1>1, InAppend
<1> QED BY <1>2 DEF DispatcherOK

-----------------------------------------------------------------------------
(* The three ways to bind a method.                                        *)
LEMMA FirstIsBound ==
    ASSUME StartInv, NEW f \in Fn, BindFirst(f)
    PROVE  TableStep(f) /\ DispatcherStep(f)
<1> DEFINE c == Of[f]
           n == Len(Params[f])
           own == Owned(c)
           e == Stub(f)
<1>1. /\ Bind(f) /\ Holder(table, c) = NoClass
      /\ table' = [table EXCEPT ![c] = [k \in {n} |-> own]]
      /\ dispatcher' = [dispatcher EXCEPT ![<<c, n>>] = Forked(OwnFunction(e), n)]
  BY DEF BindFirst
<1>2. f \in Linked
  BY <1>1, FunctionBound DEF StartInv
<1>3. /\ c \in Class /\ n \in Arities /\ c \in In(Line[c]) /\ <<c, n>> \in Dispatchers
      /\ OfLine(e.fn, c)
  BY <1>2, LinkedFunction DEF StartInv, Stub
<1>4. SlotOK(OwnFunction(e), c) /\ SlotOK(own, c) /\ own.owner = c
  BY <1>3, OwnSlots
<1>5. table[c] = <<>>
  <2>1. SUFFICES ASSUME table[c] # <<>> PROVE FALSE
    OBVIOUS
  <2>2. PICK i \in DOMAIN Line[c] : Line[c][i] = c
    BY <1>3 DEF In
  <2>3. {j \in DOMAIN Line[c] : table[Line[c][j]] # <<>>} # {}
    BY <2>1, <2>2
  <2>4. {Line[c][j] : j \in DOMAIN Line[c]} \subseteq Class
    BY <1>3, LineInClass DEF In
  <2> DEFINE up == {j \in DOMAIN Line[c] : table[Line[c][j]] # <<>>}
             top == CHOOSE j \in up : \A k \in up : k <= j
  <2>5. Holder(table, c) = Line[c][top]
    BY <2>3 DEF Holder
  <2>6. top \in up
    <3>1. Line[c] \in Seq(Class)
      BY <1>3, LineMembers
    <3>2. Len(Line[c]) \in Nat /\ up \in SUBSET (1 .. Len(Line[c]))
      BY <3>1
    <3>3. up # {}
      BY <2>3
    <3> HIDE DEF up
    <3>4. \E j \in up : \A k \in up : k <= j
      BY <3>2, <3>3, LastOf
    <3> QED BY <3>4
  <2>7. Line[c][top] \in Class
    BY <2>4, <2>6
  <2> QED BY <1>1, <2>5, <2>7, HierarchyAssumption
<1> HIDE DEF e, own
<1>6. TableStep(f)
  <2>1. DOMAIN table = Class
    BY DEF StartInv, TablesInv
  <2> DEFINE new == [k \in {n} |-> own]
  <2>2. DOMAIN new = {n} /\ new[n] = own
    OBVIOUS
  <2> HIDE DEF new
  <2>3. /\ DOMAIN table' = Class /\ (\A d \in Class \ {c} : table'[d] = table[d])
        /\ table'[c] = new
    BY <1>1, <1>3, <2>1 DEF new
  <2>4. TableOK(new, c)
    BY <1>3, <1>4, <2>2 DEF TableOK
  <2>5. DOMAIN table[c] = {}
    <3>1. DOMAIN <<>> = {}
      OBVIOUS
    <3> QED BY <1>5, <3>1
  <2> QED BY <1>4, <2>2, <2>3, <2>4, <2>5 DEF TableStep
<1>7. DispatcherStep(f)
  <2> DEFINE new == Forked(OwnFunction(e), n)
             slot == OwnFunction(e)
  <2>1. DispatcherOK(new, c)
    <3> HIDE DEF slot
    <3>1. SlotOK(slot, c)
      BY <1>4 DEF slot
    <3>2. DispatcherOK(Forked(slot, n), c)
      BY <1>3, <3>1, ForkedOK DEF StartInv
    <3> QED BY <3>2 DEF slot
  <2>2. DOMAIN dispatcher = Dispatchers
    BY DEF StartInv, DispatchersInv
  <2> HIDE DEF new
  <2>3. /\ DOMAIN dispatcher' = Dispatchers
        /\ \A d \in Dispatchers \ {<<c, n>>} : dispatcher'[d] = dispatcher[d]
        /\ dispatcher'[<<c, n>>] = new
    BY <1>1, <1>3, <2>2 DEF new
  <2> QED BY <2>1, <2>3 DEF DispatcherStep
<1> QED BY <1>6, <1>7

LEMMA ArityIsBound ==
    ASSUME StartInv, NEW f \in Fn, BindNewArity(f)
    PROVE  TableStep(f) /\ DispatcherStep(f)
<1> DEFINE c == Of[f]
           n == Len(Params[f])
           own == EnsureOverloadTable(table, c)
           slot == OwnFunction(Stub(f))
           new == With(own[c], n, slot)
<1>1. /\ Bind(f) /\ Holder(table, c) # NoClass /\ dispatcher' = dispatcher
      /\ n \notin DOMAIN table[Holder(table, c)]
      /\ table' = [own EXCEPT ![c] = With(@, n, slot)]
  BY DEF BindNewArity
<1>2. f \in Linked
  BY <1>1, FunctionBound DEF StartInv
<1>3. /\ c \in Class /\ n \in Arities /\ c \in In(Line[c]) /\ <<c, n>> \in Dispatchers
      /\ OfLine(Stub(f).fn, c)
  BY <1>2, LinkedFunction DEF StartInv, Stub
<1>4. SlotOK(slot, c) /\ slot.owner = NoClass
  BY <1>3, OwnSlots
<1>5. /\ DOMAIN own = Class /\ \A d \in Class \ {c} : own[d] = table[d]
      /\ TableOK(own[c], c)
      /\ DOMAIN table[c] \subseteq DOMAIN own[c]
      /\ \A m \in DOMAIN table[c] : own[c][m] = table[c][m]
  BY <1>1, <1>3, Ensured DEF StartInv
<1> HIDE DEF own, slot
<1>6. /\ DOMAIN new = DOMAIN own[c] \union {n} /\ new[n] = slot
      /\ \A m \in DOMAIN own[c] : m # n => new[m] = own[c][m]
  BY DEF With
<1>7. /\ DOMAIN table' = Class /\ (\A d \in Class \ {c} : table'[d] = own[d])
      /\ table'[c] = new
  BY <1>1, <1>3, <1>5
<1> HIDE DEF new
<1>8. TableOK(new, c)
  BY <1>3, <1>4, <1>5, <1>6 DEF TableOK
<1>9. TableStep(f)
  BY <1>4, <1>5, <1>6, <1>7, <1>8 DEF TableStep
<1>10. DispatcherStep(f)
  BY <1>1, <1>3 DEF DispatcherStep, StartInv, DispatchersInv
<1> QED BY <1>9, <1>10

LEMMA OverloadIsBound ==
    ASSUME StartInv, NEW f \in Fn, BindOverload(f)
    PROVE  TableStep(f) /\ DispatcherStep(f)
<1> DEFINE c == Of[f]
           n == Len(Params[f])
           own == EnsureOverloadTable(table, c)
           fork == OwnDispatcher(own[c][n], c, n)
           new == [signatures |-> With(fork.signatures, Params[f], Stub(f)),
                   order |-> Append(fork.order, f)]
<1>1. /\ Bind(f) /\ Holder(table, c) # NoClass
      /\ n \in DOMAIN table[Holder(table, c)]
      /\ table' = [own EXCEPT ![c][n] = Owned(c)]
      /\ dispatcher' = [dispatcher EXCEPT ![<<c, n>>] = new]
  BY DEF BindOverload
<1>2. f \in Linked
  BY <1>1, FunctionBound DEF StartInv
<1>3. /\ c \in Class /\ n \in Arities /\ c \in In(Line[c]) /\ <<c, n>> \in Dispatchers
      /\ OfLine(Stub(f).fn, c) /\ OfLine(f, c)
  BY <1>2, LinkedFunction DEF StartInv, Stub
<1>4. SlotOK(Owned(c), c) /\ Owned(c).owner = c
  BY <1>3, OwnSlots
<1>5. /\ DOMAIN own = Class /\ \A d \in Class \ {c} : own[d] = table[d]
      /\ own[c] = table[Holder(table, c)]
      /\ TableOK(own[c], c)
      /\ DOMAIN table[c] \subseteq DOMAIN own[c]
      /\ \A m \in DOMAIN table[c] : own[c][m] = table[c][m]
  BY <1>1, <1>3, Ensured DEF StartInv
<1> HIDE DEF own
<1>6. n \in DOMAIN own[c]
  BY <1>1, <1>5
<1>7. TableStep(f)
  <2> DEFINE copy == [own[c] EXCEPT ![n] = Owned(c)]
  <2>1. /\ DOMAIN copy = DOMAIN own[c] /\ copy[n] = Owned(c)
        /\ \A m \in DOMAIN own[c] : m # n => copy[m] = own[c][m]
    BY <1>6
  <2>2. /\ DOMAIN table' = Class /\ (\A d \in Class \ {c} : table'[d] = own[d])
        /\ table'[c] = copy
    BY <1>1, <1>3, <1>5
  <2> HIDE DEF copy
  <2>3. TableOK(copy, c)
    BY <1>4, <1>5, <2>1 DEF TableOK
  <2> QED BY <1>4, <1>5, <1>6, <2>1, <2>2, <2>3 DEF TableStep
<1>8. DispatcherStep(f)
  <2>1. SlotOK(own[c][n], c)
    BY <1>5, <1>6 DEF TableOK
  <2> DEFINE slot == own[c][n]
  <2> HIDE DEF slot
  <2>2. DispatcherOK(OwnDispatcher(slot, c, n), c)
    BY <1>3, <2>1, OwnDispatcherOK DEF StartInv, slot
  <2>3. DispatcherOK(fork, c)
    BY <2>2 DEF slot
  <2> DEFINE s == With(fork.signatures, Params[f], Stub(f))
  <2> HIDE DEF fork, s
  <2>4. DispatcherOK([signatures |-> s, order |-> Append(fork.order, f)], c)
    BY <1>3, <2>3, OrderedOK DEF StartInv
  <2>5. DispatcherOK(new, c)
    BY <2>4 DEF s
  <2>6. DOMAIN dispatcher = Dispatchers
    BY DEF StartInv, DispatchersInv
  <2> HIDE DEF new
  <2>7. /\ DOMAIN dispatcher' = Dispatchers
        /\ \A d \in Dispatchers \ {<<c, n>>} : dispatcher'[d] = dispatcher[d]
        /\ dispatcher'[<<c, n>>] = new
    BY <1>1, <1>3, <2>6
  <2> QED BY <2>5, <2>7 DEF DispatcherStep
<1> QED BY <1>7, <1>8

-----------------------------------------------------------------------------
(* The two ways to resolve one.                                            *)
LEMMA SlotIsResolved ==
    ASSUME StartInv, NEW f \in Fn, ResolvePlain(f)
    PROVE  TableStep(f) /\ DispatcherStep(f)
<1> DEFINE c == Of[f]
           n == Len(Params[f])
           slot == OwnFunction(Invoker(f))
<1>1. /\ IsMember(f) /\ Resolve(f) /\ dispatcher' = dispatcher
      /\ table' = [table EXCEPT ![c][n] = slot]
  BY DEF ResolvePlain
<1>2. f \in bound /\ f \in Linked
  BY <1>1, FunctionResolved DEF StartInv, AgendaInv
<1>3. /\ c \in Class /\ n \in Arities /\ c \in In(Line[c]) /\ <<c, n>> \in Dispatchers
      /\ OfLine(Invoker(f).fn, c)
  BY <1>2, LinkedFunction DEF StartInv, Invoker
<1>4. SlotOK(slot, c) /\ slot.owner = NoClass
  BY <1>3, OwnSlots
<1>5. n \in DOMAIN table[c] /\ DOMAIN table = Class /\ TableOK(table[c], c)
  BY <1>1, <1>2, <1>3 DEF StartInv, BoundInv, TablesInv
<1> HIDE DEF slot
<1> DEFINE copy == [table[c] EXCEPT ![n] = slot]
<1>6. /\ DOMAIN copy = DOMAIN table[c] /\ copy[n] = slot
      /\ \A m \in DOMAIN table[c] : m # n => copy[m] = table[c][m]
  BY <1>5
<1>7. /\ DOMAIN table' = Class /\ (\A d \in Class \ {c} : table'[d] = table[d])
      /\ table'[c] = copy
  BY <1>1, <1>3, <1>5
<1> HIDE DEF copy
<1>8. TableOK(copy, c)
  BY <1>4, <1>5, <1>6 DEF TableOK
<1>9. TableStep(f)
  BY <1>4, <1>5, <1>6, <1>7, <1>8 DEF TableStep
<1>10. DispatcherStep(f)
  BY <1>1, <1>3 DEF DispatcherStep, StartInv, DispatchersInv
<1> QED BY <1>9, <1>10

LEMMA EntryIsResolved ==
    ASSUME StartInv, NEW f \in Fn, ResolveOverload(f)
    PROVE  TableStep(f) /\ DispatcherStep(f)
<1> DEFINE c == Of[f]
           n == Len(Params[f])
           old == dispatcher[<<c, n>>]
           s == Resolved(old.signatures, f)
<1>1. /\ IsMember(f) /\ Resolve(f) /\ table' = table /\ table[c][n].owner # NoClass
      /\ dispatcher' = [dispatcher EXCEPT ![<<table[c][n].owner, n>>].signatures =
                          Resolved(@, f)]
  BY DEF ResolveOverload
<1>2. f \in bound /\ f \in Linked
  BY <1>1, FunctionResolved DEF StartInv, AgendaInv
<1>3. /\ c \in Class /\ n \in Arities /\ <<c, n>> \in Dispatchers
  BY <1>2, LinkedFunction DEF StartInv
<1>4. n \in DOMAIN table[c] /\ table[c][n].owner = c
  BY <1>1, <1>2 DEF StartInv, BoundInv
<1>5. dispatcher' = [dispatcher EXCEPT ![<<c, n>>].signatures = Resolved(@, f)]
  BY <1>1, <1>4
<1>6. DOMAIN dispatcher = Dispatchers /\ DispatcherOK(old, c)
  BY <1>3 DEF StartInv, DispatchersInv
<1> DEFINE new == [old EXCEPT !.signatures = s]
<1>7. /\ DOMAIN dispatcher' = Dispatchers
      /\ \A d \in Dispatchers \ {<<c, n>>} : dispatcher'[d] = dispatcher[d]
      /\ dispatcher'[<<c, n>>] = new
  BY <1>3, <1>5, <1>6
<1>8. DispatcherOK(new, c)
  <2>1. old = [signatures |-> old.signatures, order |-> old.order]
    BY <1>6 DEF DispatcherOK
  <2> HIDE DEF old, s
  <2>2. new = [signatures |-> s, order |-> old.order]
    BY <2>1
  <2> HIDE DEF new
  <2>3. new = [signatures |-> new.signatures, order |-> new.order] /\ new.order = old.order
    BY <2>2
  <2> QED BY <1>6, <2>3 DEF DispatcherOK
<1> HIDE DEF new
<1>9. DispatcherStep(f)
  BY <1>7, <1>8 DEF DispatcherStep
<1>10. TableStep(f)
  BY <1>1, <1>3, <1>4 DEF TableStep, StartInv, TablesInv
<1> QED BY <1>9, <1>10

-----------------------------------------------------------------------------
(* Either leaves what the invariant says of the tables.                    *)
LEMMA MethodSteps ==
    ASSUME StartInv, NEW f \in Linked, IsMember(f), TableStep(f), DispatcherStep(f),
           program' = program, bound' \subseteq bound \cup {f}
    PROVE  TablesInv' /\ DispatchersInv' /\ BoundInv'
<1> DEFINE c == Of[f]
           n == Len(Params[f])
<1>1. c \in Class /\ n \in Arities /\ <<c, n>> \in Dispatchers
  BY LinkedFunction DEF StartInv
<1>2. Linked' = Linked
  BY DEF Linked
<1>3. TablesInv'
  <2>1. \A d \in Class : TableOK(table'[d], d)
    BY DEF TableStep, StartInv, TablesInv
  <2> QED BY <1>2, <2>1 DEF TableStep, TablesInv, TableOK, SlotOK, OfLine
<1>4. DispatchersInv'
  <2>1. ASSUME NEW d \in Class, NEW m \in Arities
        PROVE  DispatcherOK(dispatcher'[<<d, m>>], d)
    <3>1. CASE d = c /\ m = n
      BY <3>1 DEF DispatcherStep
    <3>2. CASE ~ (d = c /\ m = n)
      <4>1. <<d, m>> # <<c, n>> /\ <<d, m>> \in Dispatchers
        BY <3>2 DEF Dispatchers
      <4>2. dispatcher'[<<d, m>>] = dispatcher[<<d, m>>]
        BY <4>1 DEF DispatcherStep
      <4> QED BY <4>2 DEF StartInv, DispatchersInv
    <3> QED BY <3>1, <3>2
  <2> QED BY <1>2, <2>1 DEF DispatcherStep, DispatchersInv, DispatcherOK, OfLine
<1>5. BoundInv'
  <2> SUFFICES ASSUME NEW g \in bound', IsMember(g)'
               PROVE  /\ Len(Params[g]) \in DOMAIN table'[Of[g]]
                      /\ table'[Of[g]][Len(Params[g])].owner \in {NoClass, Of[g]}
    BY DEF BoundInv
  <2>1. CASE Of[g] = c /\ Len(Params[g]) = n
    BY <2>1 DEF TableStep
  <2>2. CASE ~ (Of[g] = c /\ Len(Params[g]) = n)
    <3>1. g \in bound /\ IsMember(g)
      BY <2>2 DEF IsMember
    <3>2. /\ Len(Params[g]) \in DOMAIN table[Of[g]]
          /\ table[Of[g]][Len(Params[g])].owner \in {NoClass, Of[g]}
          /\ Of[g] \in Class
      BY <3>1, LinkedFunction DEF StartInv, BoundInv, AgendaInv
    <3>3. CASE Of[g] = c
      BY <2>2, <3>2, <3>3 DEF TableStep
    <3>4. CASE Of[g] # c
      BY <3>2, <3>4 DEF TableStep
    <3> QED BY <3>3, <3>4
  <2> QED BY <2>1, <2>2
<1> QED BY <1>3, <1>4, <1>5

(* A step that leaves tables and dispatchers alone.                        *)
LEMMA TablesSame ==
    ASSUME StartInv, program' = program, UNCHANGED tables,
           \A f \in bound' \ bound : ~ IsMember(f)
    PROVE  TablesInv' /\ DispatchersInv' /\ BoundInv'
<1>1. Linked' = Linked /\ table' = table /\ dispatcher' = dispatcher
  BY DEF Linked, tables
<1>2. TablesInv' /\ DispatchersInv'
  BY <1>1 DEF StartInv, TablesInv, TableOK, SlotOK, OfLine, DispatchersInv, DispatcherOK
<1>3. BoundInv'
  BY <1>1 DEF StartInv, BoundInv, IsMember
<1> QED BY <1>2, <1>3

LEMMA BodiesSame ==
    ASSUME BodiesInv, ctor' = ctor, early' = early
    PROVE  BodiesInv'
  BY DEF BodiesInv

LEMMA NotedEarly ==
    ASSUME BodiesInv, ctor' = ctor, NEW c \in Class, NoteEarly(c)
    PROVE  BodiesInv'
  BY DEF BodiesInv, NoteEarly

(* The two steps of a constructor.                                         *)
LEMMA CtorIsBound ==
    ASSUME StartInv, NEW f \in Fn, BindCtor(f)
    PROVE  BodiesInv'
<1> DEFINE c == Of[f]
           n == Len(Params[f])
           old == ctor[c][n]
           body == IF n \notin DOMAIN ctor[c]
                   THEN [func |-> Stub(f),
                         signatures |-> With(<<>>, Params[f], Stub(f)),
                         order |-> <<f>>]
                   ELSE [func |-> NoEntry,
                         signatures |-> With(old.signatures, Params[f], Stub(f)),
                         order |-> Append(old.order, f)]
           new == With(ctor[c], n, body)
<1>1. c \in Class /\ n \in Arities
  BY FnAssumption DEF Arities
<1>2. ctor' = [ctor EXCEPT ![c] = new] /\ early' = early
  BY DEF BindCtor
<1> HIDE DEF body
<1>3. DOMAIN new = DOMAIN ctor[c] \union {n}
  BY DEF With
<1> HIDE DEF new
<1>4. DOMAIN ctor = Class /\ \A d \in Class : DOMAIN ctor[d] \subseteq Arities
  BY DEF StartInv, BodiesInv
<1>5. DOMAIN ctor' = Class /\ \A d \in Class : ctor'[d] = IF d = c THEN new ELSE ctor[d]
  BY <1>2, <1>4
<1> QED BY <1>1, <1>2, <1>3, <1>4, <1>5 DEF StartInv, BodiesInv

LEMMA CtorIsResolved ==
    ASSUME StartInv, NEW f \in Fn, ResolveCtor(f)
    PROVE  BodiesInv'
<1> DEFINE c == Of[f]
           n == Len(Params[f])
           old == ctor[c][n]
           body == [func |-> IF old.func = NoEntry THEN NoEntry ELSE Invoker(f),
                    signatures |-> Resolved(old.signatures, f),
                    order |-> old.order]
           new == [ctor[c] EXCEPT ![n] = body]
<1>1. ctor' = [ctor EXCEPT ![c] = new] /\ early' = early
  BY DEF ResolveCtor, Resolve
<1>2. DOMAIN new = DOMAIN ctor[c]
  OBVIOUS
<1> HIDE DEF new
<1>3. DOMAIN ctor = Class /\ \A d \in Class : DOMAIN ctor[d] \subseteq Arities
  BY DEF StartInv, BodiesInv
<1>4. DOMAIN ctor' = Class /\ \A d \in Class : DOMAIN ctor'[d] = DOMAIN ctor[d]
  BY <1>1, <1>2, <1>3
<1> QED BY <1>1, <1>3, <1>4 DEF StartInv, BodiesInv

-----------------------------------------------------------------------------
(* The inductive invariant.                                                *)
LEMMA StartInvInit == StartInit => StartInv
<1> SUFFICES ASSUME StartInit PROVE StartInv
  OBVIOUS
<1>1. program \in Programs /\ bound = {} /\ resolved = {}
  BY DEF StartInit
<1>2. AgendaInv
  <2>1. /\ running = <<>> /\ agenda = <<>> /\ registered = {} /\ todo \subseteq Type
        /\ awaiting = [t \in Type |-> <<>>] /\ missing = [cb \in Callbacks |-> {}]
    BY DEF StartInit
  <2>2. /\ awaiting \in [Type -> Seq(Live)] /\ missing \in [Callbacks -> SUBSET Type]
        /\ running \in Seq(Statements) /\ agenda \in Seq(Items(Live))
    BY <2>1
  <2> QED BY <1>1, <2>1, <2>2 DEF AgendaInv
<1>3. DOMAIN <<>> = {}
  OBVIOUS
<1>4. TablesInv
  <2>1. table = [c \in Class |-> <<>>]
    BY DEF StartInit
  <2> QED BY <1>3, <2>1 DEF TablesInv, TableOK
<1>5. DispatchersInv
  <2>1. dispatcher = [d \in Dispatchers |-> NoDispatcher]
    BY DEF StartInit
  <2>2. \A c \in Class : \A n \in Arities : dispatcher[<<c, n>>] = NoDispatcher
    BY <2>1 DEF Dispatchers
  <2>3. NoDispatcher.order = <<>> /\ <<>> \in Seq(Fn)
    BY DEF NoDispatcher
  <2>4. NoDispatcher = [signatures |-> NoDispatcher.signatures, order |-> NoDispatcher.order]
    BY DEF NoDispatcher
  <2>5. \A c \in Class : DispatcherOK(NoDispatcher, c)
    <3> HIDE DEF NoDispatcher
    <3>1. In(NoDispatcher.order) = {}
      BY <1>3, <2>3 DEF In
    <3> QED BY <2>3, <2>4, <3>1 DEF DispatcherOK
  <2> QED BY <2>1, <2>2, <2>5 DEF DispatchersInv
<1>6. BodiesInv
  <2>1. ctor = [c \in Class |-> <<>>] /\ early = {}
    BY DEF StartInit
  <2> QED BY <1>3, <2>1 DEF BodiesInv
<1> QED BY <1>1, <1>2, <1>4, <1>5, <1>6 DEF StartInv, BoundInv

(* A step that binds and resolves nothing.                                 *)
LEMMA OnlyAgenda ==
    ASSUME StartInv, AgendaInv', program' = program, bound' = bound, UNCHANGED tables,
           ctor' = ctor, early' = early
    PROVE  StartInv'
<1>1. TablesInv' /\ DispatchersInv' /\ BoundInv'
  BY TablesSame
<1>2. BodiesInv'
  BY BodiesSame DEF StartInv
<1> QED BY <1>1, <1>2 DEF StartInv

(* What the step of a function comes to.                                   *)
FunctionStep(f) ==
    /\ StartInv' /\ program' = program
    /\ bound' \subseteq bound \cup {f}
    /\ resolved \subseteq resolved' /\ resolved' \subseteq resolved \cup {f}
    /\ \/ TableStep(f) /\ DispatcherStep(f)
       \/ UNCHANGED tables

LEMMA MethodBound ==
    ASSUME StartInv, NEW f \in Fn, BindFirst(f) \/ BindNewArity(f) \/ BindOverload(f)
    PROVE  FunctionStep(f)
<1>1. Bind(f) /\ IsMember(f) /\ ctor' = ctor /\ NoteEarly(Of[f])
  BY DEF BindFirst, BindNewArity, BindOverload
<1>2. /\ AgendaInv' /\ f \in Linked
      /\ program' = program /\ bound' = bound \cup {f} /\ resolved' = resolved
  BY <1>1, FunctionBound DEF StartInv
<1>3. TableStep(f) /\ DispatcherStep(f)
  BY FirstIsBound, ArityIsBound, OverloadIsBound
<1>4. TablesInv' /\ DispatchersInv' /\ BoundInv'
  BY <1>1, <1>2, <1>3, MethodSteps
<1>5. BodiesInv'
  BY <1>1, <1>2, LinkedFunction, NotedEarly DEF StartInv
<1> QED BY <1>2, <1>3, <1>4, <1>5 DEF StartInv, FunctionStep

LEMMA CtorBound ==
    ASSUME StartInv, NEW f \in Fn, BindCtor(f)
    PROVE  FunctionStep(f)
<1>1. Bind(f) /\ ~ IsMember(f) /\ UNCHANGED tables
  BY DEF BindCtor
<1>2. /\ AgendaInv'
      /\ program' = program /\ bound' = bound \cup {f} /\ resolved' = resolved
  BY <1>1, FunctionBound DEF StartInv
<1>3. TablesInv' /\ DispatchersInv' /\ BoundInv'
  BY <1>1, <1>2, TablesSame
<1>4. BodiesInv'
  BY CtorIsBound
<1> QED BY <1>1, <1>2, <1>3, <1>4 DEF StartInv, FunctionStep

LEMMA MethodResolved ==
    ASSUME StartInv, NEW f \in Fn, ResolvePlain(f) \/ ResolveOverload(f)
    PROVE  FunctionStep(f)
<1>1. Resolve(f) /\ IsMember(f) /\ ctor' = ctor /\ early' = early
  BY DEF ResolvePlain, ResolveOverload, Resolve
<1>2. /\ AgendaInv' /\ f \in bound
      /\ program' = program /\ bound' = bound /\ resolved' = resolved \cup {f}
  BY <1>1, FunctionResolved DEF StartInv
<1>3. f \in Linked
  BY <1>2 DEF StartInv, AgendaInv
<1>4. TableStep(f) /\ DispatcherStep(f)
  BY SlotIsResolved, EntryIsResolved
<1>5. TablesInv' /\ DispatchersInv' /\ BoundInv'
  BY <1>1, <1>2, <1>3, <1>4, MethodSteps
<1>6. BodiesInv'
  BY <1>1, BodiesSame DEF StartInv
<1> QED BY <1>2, <1>4, <1>5, <1>6 DEF StartInv, FunctionStep

LEMMA CtorResolved ==
    ASSUME StartInv, NEW f \in Fn, ResolveCtor(f)
    PROVE  FunctionStep(f)
<1>1. Resolve(f) /\ UNCHANGED tables
  BY DEF ResolveCtor
<1>2. /\ AgendaInv'
      /\ program' = program /\ bound' = bound /\ resolved' = resolved \cup {f}
  BY <1>1, FunctionResolved DEF StartInv
<1>3. TablesInv' /\ DispatchersInv' /\ BoundInv'
  BY <1>1, <1>2, TablesSame
<1>4. BodiesInv'
  BY CtorIsResolved
<1> QED BY <1>1, <1>2, <1>3, <1>4 DEF StartInv, FunctionStep

(* What a step comes to: it binds and resolves nothing, or one function.   *)
Quiet == StartInv' /\ UNCHANGED <<bound, resolved>>

LEMMA StartSteps ==
    ASSUME StartInv, [StartNext]_startVars
    PROVE  Quiet \/ \E f \in Fn : FunctionStep(f)
<1>1. ASSUME NEW b \in Type, StartBlock(b) PROVE Quiet
  <2>1. AgendaInv'
    BY <1>1, BlockStarts DEF StartInv
  <2>2. UNCHANGED <<program, bound, resolved, tables, ctor, early>>
    BY <1>1 DEF StartBlock
  <2> QED BY <2>1, <2>2, OnlyAgenda DEF Quiet
<1>2. ASSUME RegisterEnum \/ RegisterClass \/ RegisterFunction PROVE Quiet
  <2>1. AgendaInv'
    BY <1>2, EnumRegistered, ClassRegistered, FunctionRegistered DEF StartInv
  <2>2. UNCHANGED <<program, bound, resolved, tables, ctor, early>>
    BY <1>2 DEF RegisterEnum, RegisterClass, RegisterFunction, Statement
  <2> QED BY <2>1, <2>2, OnlyAgenda DEF Quiet
<1>3. ASSUME CountType PROVE Quiet
  <2>1. AgendaInv'
    BY <1>3, TypeCounted DEF StartInv
  <2>2. UNCHANGED <<program, bound, resolved, tables, ctor, early>>
    BY <1>3 DEF CountType
  <2> QED BY <2>1, <2>2, OnlyAgenda DEF Quiet
<1>4. ASSUME NEW c \in Class, CompleteClass(c) PROVE Quiet
  <2>1. AgendaInv'
    BY <1>4, ClassCompleted DEF StartInv
  <2>2. UNCHANGED <<program, bound, resolved, tables, ctor, early>>
    BY <1>4 DEF CompleteClass, Called
  <2> QED BY <2>1, <2>2, OnlyAgenda DEF Quiet
<1>5. ASSUME UNCHANGED startVars PROVE Quiet
  <2>1. UNCHANGED <<program, bound, resolved, tables, ctor, early>>
    BY <1>5 DEF startVars
  <2>2. UNCHANGED <<todo, running, registered, awaiting, missing, agenda>>
    BY <1>5 DEF startVars, deps
  <2>3. AgendaInv'
    BY <2>1, <2>2, LiveSame DEF StartInv, AgendaInv, Items
  <2> QED BY <2>1, <2>3, OnlyAgenda DEF Quiet
<1>6. ASSUME NEW f \in Fn, \/ BindFirst(f) \/ BindNewArity(f) \/ BindOverload(f)
                           \/ BindCtor(f)
                           \/ ResolvePlain(f) \/ ResolveOverload(f) \/ ResolveCtor(f)
      PROVE  FunctionStep(f)
  BY <1>6, MethodBound, CtorBound, MethodResolved, CtorResolved
<1> QED BY <1>1, <1>2, <1>3, <1>4, <1>5, <1>6 DEF StartNext

(* While a module starts, what a class holds of a name (slots, dispatchers *)
(* and the functions they choose from) is its own or its bases', and a     *)
(* bound function is in a slot of its own class.                           *)
THEOREM HeldByTheLine == StartSpec => []StartInv
<1>1. StartInv /\ [StartNext]_startVars => StartInv'
  BY StartSteps DEF Quiet, FunctionStep
<1> QED BY StartInvInit, <1>1, PTL DEF StartSpec

(* Every variable of a starting module keeps its type.                     *)
THEOREM DispatchTyped == StartSpec => []DispatchTypeOK
<1>1. StartInv => DispatchTypeOK
  <2> SUFFICES ASSUME StartInv PROVE DispatchTypeOK
    OBVIOUS
  <2>1. Live \subseteq Callbacks /\ Linked \subseteq Fn
    BY LiveAre DEF StartInv
  <2>2. /\ program \in Programs /\ todo \subseteq Type /\ registered \subseteq Type
        /\ running \in Seq(Statements) /\ awaiting \in [Type -> Seq(Live)]
        /\ missing \in [Callbacks -> SUBSET Type] /\ agenda \in Seq(Items(Live))
        /\ resolved \subseteq bound /\ bound \subseteq Linked
    BY DEF StartInv, AgendaInv
  <2>3. running \in Seq(({"class"} \X Class) \cup ({"type"} \X Type) \cup ({"bind"} \X Fn))
    <3> DEFINE S == ({"class"} \X Class) \cup ({"type"} \X Type) \cup ({"bind"} \X Fn)
    <3>1. Statements \subseteq S
      BY <2>1 DEF Statements
    <3> HIDE DEF S
    <3>2. running \in Seq(S)
      BY <2>2, <3>1, SeqWider
    <3> QED BY <3>2 DEF S
  <2>4. awaiting \in [Type -> Seq(Callbacks)]
    <3>1. \A t \in Type : awaiting[t] \in Seq(Callbacks)
      BY <2>1, <2>2, SeqWider
    <3> QED BY <2>2, <3>1
  <2>5. agenda \in Seq([callback : Callbacks, told : Type \cup {NoType}])
    <3> DEFINE S == [callback : Callbacks, told : Type \cup {NoType}]
    <3>1. Items(Live) \subseteq S
      BY <2>1 DEF Items
    <3> HIDE DEF S
    <3>2. agenda \in Seq(S)
      BY <2>2, <3>1, SeqWider
    <3> QED BY <3>2 DEF S
  <2>6. \A c \in Class :
          /\ DOMAIN table[c] \subseteq Arities /\ DOMAIN ctor[c] \subseteq Arities
          /\ \A n \in DOMAIN table[c] :
               \/ table[c][n].owner \in In(Line[c]) /\ table[c][n].entry = NoEntry
               \/ table[c][n].owner = NoClass /\ table[c][n].entry.fn \in Linked
    BY DEF StartInv, TablesInv, TableOK, SlotOK, OfLine, BodiesInv
  <2>7. \A d \in Dispatchers : In(dispatcher[d].order) \subseteq Linked
    <3>1. \A c \in Class : \A n \in Arities : In(dispatcher[<<c, n>>].order) \subseteq Linked
      BY DEF StartInv, DispatchersInv, DispatcherOK, OfLine
    <3> QED BY <3>1 DEF Dispatchers
  <2>8. early \subseteq Class
    BY DEF StartInv, BodiesInv
  <2> QED BY <2>2, <2>3, <2>4, <2>5, <2>6, <2>7, <2>8 DEF DispatchTypeOK
<1> QED BY HeldByTheLine, <1>1, PTL

(* A function of a class outside the line of another: what that one sees   *)
(* is in the tables and the dispatchers of its line.                       *)
LEMMA SeenKept ==
    ASSUME StartInv, NEW f \in Fn, FunctionStep(f),
           NEW c \in Class, Of[f] \notin In(Line[c])
    PROVE  Seen(c)' = Seen(c)
<1> DEFINE line == In(Line[c])
<1>1. line \subseteq Class
  BY LineInClass
<1>2. \A d \in line : table'[d] = table[d]
  BY <1>1 DEF FunctionStep, TableStep, tables
<1>3. \A d \in line : \A n \in Arities : dispatcher'[<<d, n>>] = dispatcher[<<d, n>>]
  <2>1. CASE TableStep(f) /\ DispatcherStep(f)
    BY <1>1, <2>1 DEF DispatcherStep, Dispatchers
  <2>2. CASE UNCHANGED tables
    BY <2>2 DEF tables
  <2> QED BY <2>1, <2>2 DEF FunctionStep
<1>4. \A g : OfLine(g, c) => SignatureArray(g)' = SignatureArray(g)
  BY DEF OfLine, FunctionStep, SignatureArray
<1>5. Holder(table', c) = Holder(table, c)
  BY <1>2, HolderSame
<1>6. CASE Holder(table, c) = NoClass
  BY <1>5, <1>6 DEF Seen
<1>7. CASE Holder(table, c) # NoClass
  <2> DEFINE own == table[Holder(table, c)]
  <2>1. Holder(table, c) \in line
    BY <1>7, HolderHas
  <2>2. TableOK(own, c)
    BY <1>1, <2>1, SlotOfLine DEF StartInv, TablesInv
  <2>3. table'[Holder(table', c)] = own
    BY <1>2, <1>5, <2>1
  <2>4. ASSUME NEW n \in DOMAIN own, own[n].owner # NoClass
        PROVE  LET d == dispatcher[<<own[n].owner, n>>]
               IN  /\ dispatcher'[<<own[n].owner, n>>] = d
                   /\ \A g \in In(d.order) : SignatureArray(g)' = SignatureArray(g)
    <3> DEFINE b == own[n].owner
               d == dispatcher[<<b, n>>]
    <3>1. b \in line /\ n \in Arities
      BY <2>2, <2>4 DEF TableOK, SlotOK
    <3>2. DispatcherOK(d, b)
      BY <1>1, <3>1 DEF StartInv, DispatchersInv
    <3>3. In(Line[b]) \subseteq line
      BY <3>1, LineTransitive
    <3>4. \A g \in In(d.order) : OfLine(g, c)
      BY <3>2, <3>3 DEF DispatcherOK, OfLine
    <3>5. dispatcher'[<<b, n>>] = d
      BY <1>3, <3>1
    <3> QED BY <1>4, <3>4, <3>5
  <2> DEFINE d(n) == dispatcher[<<own[n].owner, n>>]
             then(n) == dispatcher'[<<own[n].owner, n>>]
             array(g) == IF g \in resolved THEN Key(g) ELSE Params[g]
             after(g) == IF g \in resolved' THEN Key(g) ELSE Params[g]
  <2>5. Seen(c) = [n \in DOMAIN own |->
                     IF own[n].owner = NoClass THEN own[n]
                     ELSE <<d(n).signatures, [i \in DOMAIN d(n).order |-> array(d(n).order[i])]>>]
    BY <1>7 DEF Seen, SignatureArray
  <2>6. Seen(c)' = [n \in DOMAIN own |->
                      IF own[n].owner = NoClass THEN own[n]
                      ELSE <<then(n).signatures,
                             [i \in DOMAIN then(n).order |-> after(then(n).order[i])]>>]
    BY <1>5, <1>7, <2>3 DEF Seen, SignatureArray
  <2>7. \A n \in DOMAIN own : own[n].owner # NoClass =>
          then(n) = d(n) /\ \A i \in DOMAIN d(n).order : after(d(n).order[i]) = array(d(n).order[i])
    BY <2>4 DEF SignatureArray, In
  <2> HIDE DEF own, d, then, array, after
  <2> QED BY <2>5, <2>6, <2>7
<1> QED BY <1>6, <1>7

(* Binding or resolving a function of a class never changes anything that  *)
(* a call on an instance of a class outside its subtree depends on: no     *)
(* table of a base or a sibling is written through an inherited reference. *)
THEOREM SiblingsApart == StartSpec => SiblingsAreIsolated
<1> DEFINE A == \A c \in Class : \A f \in (bound' \ bound) \cup (resolved' \ resolved) :
                  Of[f] \notin In(Line[c]) => Seen(c)' = Seen(c)
<1>1. StartInv /\ [StartNext]_startVars => A
  <2> SUFFICES ASSUME StartInv, [StartNext]_startVars, NEW c \in Class,
                      NEW f \in (bound' \ bound) \cup (resolved' \ resolved),
                      Of[f] \notin In(Line[c])
               PROVE  Seen(c)' = Seen(c)
    OBVIOUS
  <2>1. CASE Quiet
    BY <2>1 DEF Quiet
  <2>2. CASE \E g \in Fn : FunctionStep(g)
    <3>1. PICK g \in Fn : FunctionStep(g)
      BY <2>2
    <3>2. f = g
      BY <3>1 DEF FunctionStep
    <3> QED BY <3>1, <3>2, SeenKept
  <2> QED BY <2>1, <2>2, StartSteps
<1>2. StartInv /\ [StartNext]_startVars => [A]_startVars
  BY <1>1
<1> HIDE DEF A
<1>3. StartSpec => [][A]_startVars
  BY HeldByTheLine, <1>2, PTL DEF StartSpec
<1> QED BY <1>3 DEF A, SiblingsAreIsolated

-----------------------------------------------------------------------------
(* EmbindOverloads: callbacks.  What a callback waits for, whether its     *)
(* registration was made, and whether it was called.                       *)
Needs(cb) == IF cb[1] = "class" THEN {Parent[cb[2]]} \ {NoClass}
             ELSE IF cb[1] = "bind" THEN {Of[cb[2]]} ELSE RawArgTypes(cb[2])
Said(cb) ==
    \/ cb[1] = "class" /\ cb[2] \notin todo /\ cb \notin In(running)
    \/ cb[1] = "bind" /\ cb[2] \in Linked /\ Of[cb[2]] \notin todo /\ cb \notin In(running)
    \/ cb[1] = "resolve" /\ cb[2] \in bound
Over(cb) == \/ cb[1] = "class" /\ cb[2] \in registered
            \/ cb[1] = "bind" /\ cb[2] \in bound
            \/ cb[1] = "resolve" /\ cb[2] \in resolved
Pending(cb) == Said(cb) /\ ~ Over(cb)

(* Where a callback is to be found.                                        *)
Waits(cb, t) == cb \in In(awaiting[t])
Told(cb, t) == [callback |-> cb, told |-> t] \in In(agenda)
Once(s) == \A i, j \in DOMAIN s : s[i] = s[j] => i = j

(* A pending callback is to be told of each type that it misses, once:     *)
(* when that type is registered, or next.                                  *)
CallbackOK(cb) ==
    /\ Over(cb) => Said(cb) /\ Needs(cb) \subseteq registered
    /\ Pending(cb) => /\ Needs(cb) \ registered \subseteq missing[cb]
                      /\ missing[cb] \subseteq Needs(cb)
    /\ \A t \in Type :
         /\ Waits(cb, t) <=> Pending(cb) /\ t \in missing[cb] \ registered
         /\ Told(cb, t) <=> Pending(cb) /\ t \in missing[cb] \cap registered
    /\ Told(cb, NoType) <=> Pending(cb) /\ missing[cb] = {}
CallbacksInv ==
    /\ \A cb \in Callbacks : CallbackOK(cb)
    /\ Once(agenda) /\ \A t \in Type : Once(awaiting[t])

(* What remains of the running block belongs to a class that has started,  *)
(* and every type is still to come or registered.                          *)
BlocksInv ==
    /\ Once(running)
    /\ \A x \in In(running) :
         /\ x[1] = "class" => x[2] \notin todo
         /\ x[1] = "bind" => Of[x[2]] \notin todo
         /\ x[1] = "type" => x[2] \notin todo \cup Class \cup Absent
    /\ (todo \cup registered) \cap Absent = {}
    /\ \A t \in Type \ (Class \cup Absent) :
         t \in todo \/ t \in registered \/ <<"type", t>> \in In(running)

(* The functions of a class in the order of the source.                    *)
Precedes(x, y) == x[1] = "bind" /\ y[1] = "bind" /\ Before(x[2], y[2])
InOrder(s) == \A i, j \in DOMAIN s : Precedes(s[i], s[j]) => i < j
Callees(s) == [i \in DOMAIN s |-> s[i].callback]

(* They are registered and bound in that order.                            *)
OrderInv ==
    /\ InOrder(running) /\ InOrder(Callees(agenda)) /\ \A t \in Type : InOrder(awaiting[t])
    /\ \A f, g \in Linked : Before(f, g) =>
         /\ Said(<<"bind", g>>) => Said(<<"bind", f>>)
         /\ g \in bound => f \in bound

(* The constructors of a class that are bound, in that order, each under   *)
(* the key that its signature array has now.                               *)
BoundCtors(c, n) == {f \in In(program.ctors[c]) : f \in bound /\ Len(Params[f]) = n}
Present(f) == IF f \in resolved THEN Invoker(f) ELSE Stub(f)
BodyOf(body, fns) ==
    /\ body = [func |-> body.func, signatures |-> body.signatures, order |-> body.order]
    /\ body.order \in Seq(Fn) /\ In(body.order) = fns /\ Once(body.order)
    /\ \A i, j \in DOMAIN body.order : i < j => Before(body.order[i], body.order[j])
    /\ DOMAIN body.signatures = {SignatureArray(f) : f \in fns}
    /\ \A f \in fns : body.signatures[SignatureArray(f)] = Present(f)
    /\ \/ \E f \in fns : body.order = <<f>> /\ body.func = Present(f)
       \/ Len(body.order) > 1 /\ body.func = NoEntry
BodyOK(c, n) ==
    /\ n \in DOMAIN ctor[c] <=> BoundCtors(c, n) # {}
    /\ n \in DOMAIN ctor[c] => BodyOf(ctor[c][n], BoundCtors(c, n))
CtorsInv == \A c \in Class : \A n \in Arities : BodyOK(c, n)

-----------------------------------------------------------------------------
(* The elements of sequences, and sequences without a repetition.          *)
LEMMA InNone == In(<<>>) = {} /\ Once(<<>>) /\ \A e : In(<<e>>) = {e} /\ Once(<<e>>)
  BY DEF In, Once

LEMMA InTail ==
    ASSUME NEW E, NEW s \in Seq(E), s # <<>>
    PROVE  /\ In(s) = {Head(s)} \cup In(Tail(s)) /\ Tail(s) \in Seq(E)
           /\ Once(s) => Once(Tail(s)) /\ Head(s) \notin In(Tail(s))
<1>1. /\ Len(s) \in Nat \ {0} /\ DOMAIN s = 1 .. Len(s) /\ Tail(s) \in Seq(E)
      /\ DOMAIN Tail(s) = 1 .. Len(s) - 1 /\ Head(s) = s[1]
      /\ \A i \in 1 .. Len(s) - 1 : Tail(s)[i] = s[i + 1]
  OBVIOUS
<1> DEFINE n == Len(s)
           rest == Tail(s)
           first == Head(s)
<1> HIDE DEF n, rest, first
<1>2. /\ n \in Nat \ {0} /\ DOMAIN s = 1 .. n
      /\ DOMAIN rest = 1 .. n - 1 /\ first = s[1]
      /\ \A i \in 1 .. n - 1 : rest[i] = s[i + 1]
  BY <1>1 DEF n, rest, first
<1>3. \A i \in 1 .. n : i = 1 \/ (i - 1 \in 1 .. n - 1 /\ rest[i - 1] = s[i])
  BY <1>2
<1>4. \A i \in 1 .. n - 1 : i + 1 \in 1 .. n /\ i + 1 # 1
  BY <1>2
<1>5. In(s) = {first} \cup In(rest)
  <2>1. \A x \in In(s) : x \in {first} \cup In(rest)
    <3>1. TAKE x \in In(s)
    <3>2. PICK i \in 1 .. n : x = s[i]
      BY <1>2 DEF In
    <3>3. CASE i = 1
      BY <1>2, <3>2, <3>3
    <3>4. CASE i - 1 \in 1 .. n - 1 /\ rest[i - 1] = s[i]
      BY <1>2, <3>2, <3>4 DEF In
    <3> QED BY <1>3, <3>3, <3>4
  <2>2. \A x \in In(rest) : x \in In(s)
    BY <1>2, <1>4 DEF In
  <2>3. first \in In(s)
    BY <1>2 DEF In
  <2> QED BY <2>1, <2>2, <2>3
<1>6. ASSUME Once(s) PROVE Once(rest) /\ first \notin In(rest)
  <2>1. \A i, j \in 1 .. n - 1 : rest[i] = rest[j] => i + 1 = j + 1
    BY <1>2, <1>4, <1>6 DEF Once
  <2>2. Once(rest)
    BY <1>2, <2>1 DEF Once
  <2>3. first \notin In(rest)
    BY <1>2, <1>4, <1>6 DEF Once, In
  <2> QED BY <2>2, <2>3
<1> QED BY <1>1, <1>5, <1>6 DEF rest, first

LEMMA InConcat ==
    ASSUME NEW E, NEW s \in Seq(E), NEW u \in Seq(E)
    PROVE  /\ In(s \o u) = In(s) \cup In(u) /\ s \o u \in Seq(E)
           /\ Once(s) /\ Once(u) /\ In(s) \cap In(u) = {} => Once(s \o u)
<1> DEFINE m == Len(s)
           n == Len(u)
           w == s \o u
<1>1. /\ m \in Nat /\ n \in Nat /\ DOMAIN s = 1 .. m /\ DOMAIN u = 1 .. n
      /\ DOMAIN w = 1 .. m + n /\ w \in Seq(E)
      /\ \A i \in 1 .. m : w[i] = s[i]
      /\ \A i \in m + 1 .. m + n : w[i] = u[i - m]
  OBVIOUS
<1> HIDE DEF m, n, w
<1>2. \A i \in 1 .. n : m + i \in 1 .. m + n /\ w[m + i] = u[i]
  <2>1. \A i \in 1 .. n : m + i \in m + 1 .. m + n /\ (m + i) - m = i
    BY <1>1
  <2> QED BY <1>1, <2>1
<1>3. \A i \in 1 .. m : i \in 1 .. m + n
  BY <1>1
<1>4. \A i \in 1 .. m + n : i \in 1 .. m \/ (i - m \in 1 .. n /\ i \in m + 1 .. m + n)
  BY <1>1
<1>5. In(w) = In(s) \cup In(u)
  <2>1. \A x \in In(s) : x \in In(w)
    BY <1>1, <1>3 DEF In
  <2>2. \A x \in In(u) : x \in In(w)
    <3>1. TAKE x \in In(u)
    <3>2. PICK i \in 1 .. n : x = u[i]
      BY <1>1 DEF In
    <3> QED BY <1>1, <1>2, <3>2 DEF In
  <2>3. ASSUME NEW x \in In(w) PROVE x \in In(s) \cup In(u)
    <3>1. PICK i \in 1 .. m + n : x = w[i]
      BY <1>1, <2>3 DEF In
    <3>2. CASE i \in 1 .. m
      BY <1>1, <3>1, <3>2 DEF In
    <3>3. CASE i - m \in 1 .. n /\ i \in m + 1 .. m + n
      BY <1>1, <3>1, <3>3 DEF In
    <3> QED BY <1>4, <3>2, <3>3
  <2> QED BY <2>1, <2>2, <2>3
<1>6. ASSUME Once(s), Once(u), In(s) \cap In(u) = {} PROVE Once(w)
  <2>1. SUFFICES ASSUME NEW i \in 1 .. m + n, NEW j \in 1 .. m + n, w[i] = w[j]
                 PROVE  i = j
    BY <1>1 DEF Once
  <2>2. CASE i \in 1 .. m /\ j \in 1 .. m
    BY <1>1, <1>6, <2>1, <2>2 DEF Once
  <2>3. CASE i - m \in 1 .. n /\ i \in m + 1 .. m + n /\ j - m \in 1 .. n /\ j \in m + 1 .. m + n
    <3>1. i - m = j - m
      BY <1>1, <1>6, <2>1, <2>3 DEF Once
    <3> QED BY <1>1, <3>1
  <2>4. \A k \in 1 .. m : w[k] \in In(s)
    BY <1>1 DEF In
  <2>5. \A k \in m + 1 .. m + n : k - m \in 1 .. n => w[k] \in In(u)
    BY <1>1 DEF In
  <2> QED BY <1>4, <1>6, <2>1, <2>2, <2>3, <2>4, <2>5
<1> QED BY <1>1, <1>5, <1>6 DEF w

LEMMA OnceAppend ==
    ASSUME NEW E, NEW s \in Seq(E), NEW e \in E, Once(s), e \notin In(s)
    PROVE  Once(Append(s, e))
<1>1. <<e>> \in Seq(E) /\ Once(<<e>>) /\ In(<<e>>) = {e} /\ Append(s, e) = s \o <<e>>
  BY InNone
<1> DEFINE u == <<e>>
<1> HIDE DEF u
<1>2. u \in Seq(E) /\ Once(u) /\ In(u) = {e} /\ Append(s, e) = s \o u
  BY <1>1 DEF u
<1> QED BY <1>2, InConcat

-----------------------------------------------------------------------------
(* What awaiting types, and registering one, does to the callbacks.        *)
Awaited(cb, types, rest) ==
    /\ missing'[cb] = types \ registered
    /\ \A x \in Callbacks : x # cb => missing'[x] = missing[x]
    /\ \A x : \A t \in Type :
         Waits(x, t)' <=> Waits(x, t) \/ (x = cb /\ t \in types \ registered)
    /\ \A x, t : Told(x, t)' <=>
         \/ [callback |-> x, told |-> t] \in In(rest)
         \/ types \subseteq registered /\ x = cb /\ t = NoType
    /\ (\A t \in Type : Once(awaiting[t]) /\ ~ Waits(cb, t)) =>
         \A t \in Type : Once(awaiting'[t])
    /\ Once(rest) /\ [callback |-> cb, told |-> NoType] \notin In(rest) => Once(agenda')

Announced(t, rest) ==
    /\ registered' = registered \cup {t}
    /\ \A x : \A u \in Type : Waits(x, u)' <=> Waits(x, u) /\ u # t
    /\ \A x, u : Told(x, u)' <=>
         \/ [callback |-> x, told |-> u] \in In(rest)
         \/ u = t /\ Waits(x, t)
    /\ (\A u \in Type : Once(awaiting[u])) => \A u \in Type : Once(awaiting'[u])
    /\ Once(rest) /\ Once(awaiting[t]) /\ (\A i \in In(rest) : i.told # t)
         => Once(agenda')

LEMMA AwaitTells ==
    ASSUME NEW STATE L, awaiting \in [Type -> Seq(L)],
           missing \in [Callbacks -> SUBSET Type],
           NEW cb \in Callbacks, cb \in L, NEW types \in SUBSET Type,
           NEW STATE rest, rest \in Seq(Items(L)),
           Await(cb, types, rest)
    PROVE  Awaited(cb, types, rest)
<1> DEFINE open == types \ registered
           item == [callback |-> cb, told |-> NoType]
<1>1. /\ missing' = [missing EXCEPT ![cb] = open]
      /\ awaiting' = [t \in Type |-> IF t \in open THEN Append(awaiting[t], cb) ELSE awaiting[t]]
      /\ agenda' = (IF open = {} THEN <<item>> ELSE <<>>) \o rest
  BY DEF Await
<1>2. open \subseteq Type /\ item \in Items(L)
  BY DEF Items
<1> HIDE DEF open, item
<1>3. missing'[cb] = open /\ \A x \in Callbacks : x # cb => missing'[x] = missing[x]
  BY <1>1
<1>4. \A t \in Type : awaiting[t] \in Seq(L)
  OBVIOUS
<1>5. \A t \in Type : In(awaiting'[t]) = In(awaiting[t]) \cup IF t \in open THEN {cb} ELSE {}
  BY <1>1, <1>4, InAppend
<1>6. ASSUME \A t \in Type : Once(awaiting[t]) /\ ~ Waits(cb, t), NEW t \in Type
      PROVE  Once(awaiting'[t])
  <2>1. CASE t \in open
    BY <1>1, <1>4, <1>6, <2>1, OnceAppend DEF Waits
  <2>2. CASE t \notin open
    BY <1>1, <1>6, <2>2
  <2> QED BY <2>1, <2>2
<1>7. /\ In(agenda') = In(rest) \cup IF open = {} THEN {item} ELSE {}
      /\ Once(rest) /\ item \notin In(rest) => Once(agenda')
  <2> DEFINE first == IF open = {} THEN <<item>> ELSE <<>>
  <2>1. first \in Seq(Items(L)) /\ Once(first) /\ In(first) = IF open = {} THEN {item} ELSE {}
    <3>1. \A S : <<>> \in Seq(S)
      OBVIOUS
    <3>2. <<item>> \in Seq(Items(L))
      BY <1>2
    <3> QED BY <3>1, <3>2, InNone
  <2>2. agenda' = first \o rest
    BY <1>1
  <2> HIDE DEF first
  <2> QED BY <2>1, <2>2, InConcat
<1>8. \A x, t : [callback |-> x, told |-> t] = item <=> x = cb /\ t = NoType
  BY DEF item
<1>9. \A x : \A t \in Type : Waits(x, t)' <=> Waits(x, t) \/ (x = cb /\ t \in open)
  BY <1>5 DEF Waits
<1>10. \A x, t : Told(x, t)' <=>
         \/ [callback |-> x, told |-> t] \in In(rest)
         \/ open = {} /\ x = cb /\ t = NoType
  <2>1. TAKE x, t
  <2> DEFINE i == [callback |-> x, told |-> t]
  <2>2. i = item <=> x = cb /\ t = NoType
    BY <1>8
  <2>3. Told(x, t)' <=> i \in In(agenda')
    BY DEF Told
  <2> HIDE DEF i
  <2> QED BY <1>7, <2>2, <2>3 DEF i
<1>11. open = {} <=> types \subseteq registered
  BY DEF open
<1>12. \A x, t : Told(x, t)' <=>
         \/ [callback |-> x, told |-> t] \in In(rest)
         \/ types \subseteq registered /\ x = cb /\ t = NoType
  BY <1>10, <1>11
<1> QED BY <1>3, <1>6, <1>7, <1>9, <1>12 DEF open, item, Awaited

LEMMA RegisterTells ==
    ASSUME NEW STATE L, awaiting \in [Type -> Seq(L)], NEW t \in Type,
           NEW STATE rest, rest \in Seq(Items(L)),
           Register(t, rest)
    PROVE  Announced(t, rest)
<1> DEFINE s == awaiting[t]
           first == [i \in DOMAIN s |-> [callback |-> s[i], told |-> t]]
<1>1. /\ registered' = registered \cup {t} /\ agenda' = first \o rest
      /\ awaiting' = [awaiting EXCEPT ![t] = <<>>]
  BY DEF Register
<1>2. s \in Seq(L)
  OBVIOUS
<1> HIDE DEF s
<1>3. DOMAIN s = 1 .. Len(s) /\ Len(s) \in Nat /\ \A i \in 1 .. Len(s) : s[i] \in L
  BY <1>2
<1>4. first \in Seq(Items(L))
  <2> DEFINE n == Len(s)
  <2> HIDE DEF n
  <2>1. n \in Nat /\ DOMAIN s = 1 .. n /\ \A i \in 1 .. n : s[i] \in L
    BY <1>3 DEF n
  <2>2. first \in [1 .. n -> Items(L)]
    BY <2>1 DEF Items
  <2> QED BY <2>1, <2>2
<1>5. \A x, u : [callback |-> x, told |-> u] \in In(first) <=> u = t /\ x \in In(s)
  BY DEF In
<1>6. Once(s) => Once(first)
  BY DEF Once
<1>7. \A i \in In(first) : i.told = t
  BY DEF In
<1> HIDE DEF first
<1>8. In(agenda') = In(first) \cup In(rest)
  BY <1>1, <1>4, InConcat
<1>9. ASSUME Once(rest), Once(s), \A i \in In(rest) : i.told # t PROVE Once(agenda')
  BY <1>1, <1>4, <1>6, <1>7, <1>9, InConcat
<1>10. \A u \in Type : awaiting'[u] = IF u = t THEN <<>> ELSE awaiting[u]
  BY <1>1
<1>11. \A x : \A u \in Type : Waits(x, u)' <=> Waits(x, u) /\ u # t
  BY <1>10, InNone DEF Waits
<1>12. \A x, u : Told(x, u)' <=>
         \/ [callback |-> x, told |-> u] \in In(rest)
         \/ u = t /\ Waits(x, t)
  BY <1>5, <1>8 DEF Told, Waits, s
<1> QED BY <1>1, <1>9, <1>10, <1>11, <1>12, InNone DEF s, Announced

-----------------------------------------------------------------------------
(* The callbacks, step by step.                                            *)
CallInv == StartInv /\ CallbacksInv /\ BlocksInv

LEMMA CallbackKinds ==
    ASSUME NEW cb \in Callbacks
    PROVE  /\ cb = <<cb[1], cb[2]>> /\ Needs(cb) \in SUBSET Type
           /\ \/ cb[1] = "class" /\ cb[2] \in Class
              \/ cb[1] = "bind" /\ cb[2] \in Fn
              \/ cb[1] = "resolve" /\ cb[2] \in Fn
<1>1. /\ cb = <<cb[1], cb[2]>>
      /\ \/ cb[1] = "class" /\ cb[2] \in Class
         \/ cb[1] = "bind" /\ cb[2] \in Fn
         \/ cb[1] = "resolve" /\ cb[2] \in Fn
  BY DEF Callbacks
<1>2. \A f \in Fn : Of[f] \in Type /\ RawArgTypes(f) \subseteq Type
  BY FnAssumption, HierarchyAssumption, InSeq DEF RawArgTypes
<1>3. \A c \in Class : {Parent[c]} \ {NoClass} \subseteq Type
  BY HierarchyAssumption
<1>4. Needs(cb) \subseteq Type
  BY <1>1, <1>2, <1>3 DEF Needs
<1> QED BY <1>1, <1>4

LEMMA QuietAgenda ==
    ASSUME agenda = <<>>
    PROVE  \A cb, t : ~ Told(cb, t)
  BY InNone DEF Told

(* The callback of the item that is called was told of the last type.      *)
LastTold(cb, rest) ==
    /\ Pending(cb) /\ Needs(cb) \subseteq registered /\ Once(rest)
    /\ \A t \in Type : ~ Waits(cb, t)
    /\ \A t : [callback |-> cb, told |-> t] \notin In(rest)
    /\ \A x, t : x # cb => (Told(x, t) <=> [callback |-> x, told |-> t] \in In(rest))

LEMMA LastCall ==
    ASSUME AgendaInv, CallbacksInv, agenda # <<>>,
           NEW cb \in Callbacks, Head(agenda).callback = cb,
           missing[cb] \subseteq {Head(agenda).told}
    PROVE  LastTold(cb, Tail(agenda))
<1> DEFINE item == Head(agenda)
           rest == Tail(agenda)
<1>1. /\ agenda \in Seq(Items(Live)) /\ Once(agenda) /\ CallbackOK(cb)
      /\ missing[cb] \subseteq Type
  BY DEF AgendaInv, CallbacksInv
<1>2. /\ In(agenda) = {item} \cup In(rest) /\ rest \in Seq(Items(Live))
      /\ Once(rest) /\ item \notin In(rest)
  BY <1>1, InTail
<1>3. item \in Items(Live)
  BY <1>1
<1> HIDE DEF item, rest
<1>4. item = [callback |-> cb, told |-> item.told] /\ item.told \in Type \cup {NoType}
  BY <1>3 DEF Items, item
<1>5. Told(cb, item.told)
  BY <1>2, <1>4 DEF Told
<1>6. NoType \notin Type
  BY HierarchyAssumption
<1>7. Pending(cb) /\ missing[cb] \subseteq registered /\ missing[cb] \subseteq {item.told}
  BY <1>1, <1>4, <1>5 DEF CallbackOK, item
<1>8. Needs(cb) \subseteq registered /\ \A t \in Type : ~ Waits(cb, t)
  BY <1>1, <1>7 DEF CallbackOK
<1>9. ASSUME NEW t, [callback |-> cb, told |-> t] \in In(rest) PROVE FALSE
  <2>1. Told(cb, t)
    BY <1>2, <1>9 DEF Told
  <2>2. t \in Type \cup {NoType}
    <3>1. [callback |-> cb, told |-> t] \in Items(Live)
      BY <1>2, <1>9, InSeq
    <3> QED BY <3>1 DEF Items
  <2>3. t = item.told
    BY <1>1, <1>4, <1>5, <1>6, <1>7, <2>1, <2>2 DEF CallbackOK
  <2> QED BY <1>2, <1>4, <1>9, <2>3
<1>10. ASSUME NEW x, NEW t, x # cb
       PROVE  Told(x, t) <=> [callback |-> x, told |-> t] \in In(rest)
  <2>1. [callback |-> x, told |-> t] # item
    BY <1>4, <1>10
  <2> QED BY <1>2, <2>1 DEF Told
<1> QED BY <1>2, <1>7, <1>8, <1>9, <1>10 DEF rest, LastTold

(* A registration that leaves a callback.                                  *)
LEMMA CallbackLeft ==
    ASSUME CallInv, NEW cb \in Callbacks, cb \in Live \cap Statements,
           In(running) = {cb} \cup In(running'), cb \notin In(running'),
           \A x, t : ~ Told(x, t),
           NEW STATE none, In(none) = {}, Once(none), Awaited(cb, Needs(cb), none),
           UNCHANGED <<program, todo, registered, bound, resolved>>
    PROVE  CallbacksInv'
<1>1. AgendaInv /\ CallbacksInv /\ BlocksInv
  BY DEF CallInv, StartInv
<1>2. UNCHANGED <<program, todo, registered, bound, resolved>>
  OBVIOUS
<1>4. In(running) = {cb} \cup In(running') /\ cb \notin In(running')
  OBVIOUS
<1>5. cb \in Statements /\ cb \in Live /\ cb[1] \in {"class", "bind"}
  BY DEF Statements, Live
<1>6. Linked' = Linked
  BY <1>2, LiveSame
<1>7. /\ cb[1] = "class" => cb[2] \notin todo
      /\ cb[1] = "bind" => Of[cb[2]] \notin todo /\ cb[2] \in Linked
  BY <1>1, <1>4, <1>5 DEF BlocksInv, Statements
<1>8. ASSUME NEW x \in Callbacks
      PROVE  (Said(x)' <=> Said(x) \/ x = cb) /\ (Over(x)' <=> Over(x))
  <2>1. Over(x)' <=> Over(x)
    BY <1>2 DEF Over
  <2>2. Said(x)' <=> Said(x) \/ x = cb
    <3>1. CASE x = cb
      BY <1>2, <1>4, <1>5, <1>6, <1>7, <3>1 DEF Said
    <3>2. CASE x # cb
      BY <1>2, <1>4, <1>6, <3>2 DEF Said
    <3> QED BY <3>1, <3>2
  <2> QED BY <2>1, <2>2
<1>9. ~ Said(cb)
  BY <1>4, <1>5 DEF Said
<1>10. Needs(cb) \in SUBSET Type
  BY CallbackKinds
<1>11. /\ awaiting \in [Type -> Seq(Live)] /\ missing \in [Callbacks -> SUBSET Type]
  BY <1>1 DEF AgendaInv
<1>12. CallbackOK(cb) /\ ~ Over(cb) /\ \A t \in Type : ~ Waits(cb, t)
  BY <1>1, <1>9 DEF CallbacksInv, CallbackOK, Pending
<1>13. /\ missing'[cb] = Needs(cb) \ registered
       /\ \A x \in Callbacks : x # cb => missing'[x] = missing[x]
       /\ \A x : \A t \in Type :
            Waits(x, t)' <=> Waits(x, t) \/ (x = cb /\ t \in Needs(cb) \ registered)
       /\ \A x, t : Told(x, t)' <=> Needs(cb) \subseteq registered /\ x = cb /\ t = NoType
       /\ \A t \in Type : Once(awaiting'[t])
       /\ Once(agenda')
  <2>2. \A t \in Type : Once(awaiting[t]) /\ ~ Waits(cb, t)
    BY <1>1, <1>12 DEF CallbacksInv
  <2> QED BY <2>2 DEF Awaited
<1>14. ASSUME NEW x \in Callbacks PROVE CallbackOK(x)'
  <2>1. CallbackOK(x) /\ \A t : ~ Told(x, t)
    BY <1>1 DEF CallbacksInv
  <2>2. NoType \notin Type
    BY HierarchyAssumption
  <2>3. Pending(x)' <=> ~ Over(x) /\ (Said(x) \/ x = cb)
    BY <1>8 DEF Pending
  <2>4. CASE x = cb
    <3>1. ~ Over(x)' /\ Pending(x)' /\ missing'[x] = Needs(x) \ registered
      BY <1>8, <1>12, <1>13, <2>3, <2>4
    <3>2. \A t \in Type : /\ Waits(x, t)' <=> t \in Needs(x) \ registered
                          /\ ~ Told(x, t)'
      BY <1>12, <1>13, <2>2, <2>4
    <3>3. Told(x, NoType)' <=> Needs(x) \subseteq registered
      BY <1>13, <2>4
    <3> QED BY <3>1, <3>2, <3>3 DEF CallbackOK
  <2>5. CASE x # cb
    <3>1. (Over(x)' <=> Over(x)) /\ (Said(x)' <=> Said(x)) /\ (Pending(x)' <=> Pending(x))
      BY <1>8, <2>3, <2>5 DEF Pending
    <3>2. missing'[x] = missing[x] /\ \A t \in Type : Waits(x, t)' <=> Waits(x, t)
      BY <1>13, <2>5
    <3>3. \A t : ~ Told(x, t)'
      BY <1>13, <2>5
    <3> QED BY <2>1, <3>1, <3>2, <3>3 DEF CallbackOK
  <2> QED BY <2>4, <2>5
<1> QED BY <1>13, <1>14 DEF CallbacksInv

(* A type that is not a class is registered.                               *)
LEMMA TypeAnnounced ==
    ASSUME CallInv, NEW t \in Type \ Class, NEW STATE none, In(none) = {}, Once(none),
           Announced(t, none), \A x, u : ~ Told(x, u), missing' = missing,
           UNCHANGED <<program, todo, bound, resolved>>,
           \A x \in Callbacks : x \in In(running') <=> x \in In(running)
    PROVE  CallbacksInv'
<1>1. AgendaInv /\ CallbacksInv
  BY DEF CallInv, StartInv
<1>2. ASSUME NEW x \in Callbacks PROVE CallbackOK(x)'
  <2>1. CallbackOK(x) /\ missing[x] \subseteq Type
    BY <1>1 DEF CallbacksInv, AgendaInv
  <2>2. NoType \notin Type
    BY HierarchyAssumption
  <2>3. registered' = registered \cup {t}
    BY DEF Announced
  <2>4. Over(x)' <=> Over(x)
    BY <2>3, CallbackKinds DEF Over
  <2>5. Said(x)' <=> Said(x)
    BY LiveSame DEF Said, Linked
  <2>6. Pending(x)' <=> Pending(x)
    BY <2>4, <2>5 DEF Pending
  <2>7. \A u \in Type : Waits(x, u)' <=> Waits(x, u) /\ u # t
    BY DEF Announced
  <2>8. \A u : Told(x, u)' <=> u = t /\ Waits(x, t)
    BY DEF Announced
  <2>9. missing'[x] = missing[x] /\ \A u : ~ Told(x, u)
    OBVIOUS
  <2> HIDE DEF Needs
  <2>10. Pending(x) => missing[x] # {} /\ \A u \in Type : u \in missing[x] => u \notin registered
    BY <2>1, <2>9 DEF CallbackOK
  <2>11. /\ Over(x)' => Said(x)' /\ Needs(x) \subseteq registered'
         /\ Pending(x)' => /\ Needs(x) \ registered' \subseteq missing'[x]
                           /\ missing'[x] \subseteq Needs(x)
    BY <2>1, <2>3, <2>4, <2>5, <2>6, <2>9 DEF CallbackOK
  <2>12. ASSUME NEW u \in Type
         PROVE  /\ Waits(x, u)' <=> Pending(x)' /\ u \in missing'[x] \ registered'
                /\ Told(x, u)' <=> Pending(x)' /\ u \in missing'[x] \cap registered'
    BY <2>1, <2>3, <2>6, <2>7, <2>8, <2>9, <2>10 DEF CallbackOK
  <2>13. Told(x, NoType)' <=> Pending(x)' /\ missing'[x] = {}
    BY <2>2, <2>6, <2>8, <2>9, <2>10
  <2> QED BY <2>11, <2>12, <2>13 DEF CallbackOK
<1>3. Once(agenda') /\ \A u \in Type : Once(awaiting'[u])
  BY <1>1 DEF CallbacksInv, Announced
<1> QED BY <1>2, <1>3 DEF CallbacksInv

(* A class is: its own callback is over.                                   *)
LEMMA ClassAnnounced ==
    ASSUME CallInv, NEW c \in Class, NEW STATE rest, LastTold(<<"class", c>>, rest),
           Announced(c, rest), \A i \in In(rest) : i.told # c, missing' = missing,
           UNCHANGED <<program, todo, running, bound, resolved>>
    PROVE  CallbacksInv'
<1> DEFINE cb == <<"class", c>>
<1>1. AgendaInv /\ CallbacksInv /\ c \in Type /\ cb \in Callbacks
  BY HierarchyAssumption DEF CallInv, StartInv, Callbacks
<1>2. cb[1] = "class" /\ cb[2] = c /\ LastTold(cb, rest)
  OBVIOUS
<1>3. \A x \in Callbacks : x = cb <=> x[1] = "class" /\ x[2] = c
  BY CallbackKinds
<1> HIDE DEF cb
<1>4. ASSUME NEW x \in Callbacks PROVE CallbackOK(x)'
  <2>1. CallbackOK(x) /\ missing[x] \subseteq Type
    BY <1>1 DEF CallbacksInv, AgendaInv
  <2>2. NoType \notin Type
    BY HierarchyAssumption
  <2>3. registered' = registered \cup {c}
    BY DEF Announced
  <2>4. Over(x)' <=> Over(x) \/ x = cb
    BY <1>2, <1>3, <2>3 DEF Over
  <2>5. Said(x)' <=> Said(x)
    BY LiveSame DEF Said, Linked
  <2>6. Pending(x)' <=> Pending(x) /\ x # cb
    BY <2>4, <2>5 DEF Pending
  <2>7. \A u \in Type : Waits(x, u)' <=> Waits(x, u) /\ u # c
    BY DEF Announced
  <2>8. \A u : Told(x, u)' <=> \/ [callback |-> x, told |-> u] \in In(rest)
                               \/ u = c /\ Waits(x, c)
    BY DEF Announced
  <2>9. missing'[x] = missing[x]
    OBVIOUS
  <2> HIDE DEF Needs
  <2>10. CASE x = cb
    <3>1. Over(x)' /\ Said(x)' /\ ~ Pending(x)' /\ Needs(x) \subseteq registered
      BY <1>2, <2>4, <2>5, <2>6, <2>10 DEF LastTold, Pending
    <3>2. \A u \in Type : ~ Waits(x, u)
      BY <2>10, <1>2 DEF LastTold
    <3>3. \A u : ~ Told(x, u)'
      BY <1>1, <1>2, <2>8, <2>10, <3>2 DEF LastTold
    <3> QED BY <2>3, <2>7, <3>1, <3>2, <3>3 DEF CallbackOK
  <2>11. CASE x # cb
    <3>1. \A u : Told(x, u)' <=> Told(x, u) \/ (u = c /\ Waits(x, c))
      BY <1>2, <2>8, <2>11 DEF LastTold
    <3>2. (Pending(x)' <=> Pending(x)) /\ (Over(x)' <=> Over(x))
      BY <2>4, <2>6, <2>11
    <3>3. /\ Over(x)' => Said(x)' /\ Needs(x) \subseteq registered'
          /\ Pending(x)' => /\ Needs(x) \ registered' \subseteq missing'[x]
                            /\ missing'[x] \subseteq Needs(x)
      BY <2>1, <2>3, <2>5, <2>9, <3>2 DEF CallbackOK
    <3>4. ASSUME NEW u \in Type
          PROVE  /\ Waits(x, u)' <=> Pending(x)' /\ u \in missing'[x] \ registered'
                 /\ Told(x, u)' <=> Pending(x)' /\ u \in missing'[x] \cap registered'
      BY <1>1, <2>1, <2>3, <2>7, <2>9, <3>1, <3>2 DEF CallbackOK
    <3>5. Told(x, NoType)' <=> Pending(x)' /\ missing'[x] = {}
      BY <1>1, <2>1, <2>2, <2>9, <3>1, <3>2 DEF CallbackOK
    <3> QED BY <3>3, <3>4, <3>5 DEF CallbackOK
  <2> QED BY <2>10, <2>11
<1>5. Once(agenda') /\ \A u \in Type : Once(awaiting'[u])
  BY <1>1, <1>2 DEF CallbacksInv, Announced, LastTold
<1> QED BY <1>4, <1>5 DEF CallbacksInv

(* A callback is told of a type, but not of the last one.                  *)
LEMMA TypeTold ==
    ASSUME CallInv, CountType
    PROVE  CallbacksInv'
<1>1. PICK item \in Items(Live) : item = Head(agenda)
  BY AgendaTaken DEF CallInv, StartInv, AgendaInv, CountType
<1>2. /\ agenda \in Seq(Items(Live)) /\ agenda # <<>> /\ CallbacksInv /\ Live \subseteq Callbacks
      /\ missing \in [Callbacks -> SUBSET Type]
  BY LiveAre DEF CallInv, StartInv, AgendaInv, CountType
<1>3. /\ ~ (missing[item.callback] \subseteq {item.told}) /\ agenda' = Tail(agenda)
      /\ missing' = [missing EXCEPT ![item.callback] = @ \ {item.told}]
      /\ UNCHANGED <<program, todo, running, registered, awaiting, bound, resolved>>
  BY <1>1 DEF CountType
<1>4. In(agenda) = {item} \cup In(agenda') /\ Once(agenda') /\ item \notin In(agenda')
  <2>1. Once(agenda)
    BY <1>2 DEF CallbacksInv
  <2> QED BY <1>1, <1>2, <1>3, <2>1, InTail
<1> DEFINE cb == item.callback
           u == item.told
<1>5. cb \in Callbacks /\ item = [callback |-> cb, told |-> u] /\ u \in Type \cup {NoType}
  BY <1>1, <1>2 DEF Items
<1>6. \A x, t : Told(x, t)' <=> Told(x, t) /\ ~ (x = cb /\ t = u)
  <2>1. TAKE x, t
  <2> DEFINE i == [callback |-> x, told |-> t]
  <2>2. i = item <=> x = cb /\ t = u
    BY <1>5
  <2>3. (Told(x, t)' <=> i \in In(agenda')) /\ (Told(x, t) <=> i \in In(agenda))
    BY DEF Told
  <2> HIDE DEF i, cb, u
  <2> QED BY <1>4, <2>2, <2>3
<1>7. Told(cb, u)
  BY <1>4, <1>5 DEF Told
<1>8. ASSUME NEW x \in Callbacks
      PROVE  (Said(x)' <=> Said(x)) /\ (Over(x)' <=> Over(x)) /\ (Pending(x)' <=> Pending(x))
  BY <1>3 DEF Said, Over, Pending, Linked
<1>9. \A x, t : Waits(x, t)' <=> Waits(x, t)
  BY <1>3 DEF Waits
<1>10. /\ \A x \in Callbacks : missing'[x] = missing[x] \ IF x = cb THEN {u} ELSE {}
       /\ ~ (missing[cb] \subseteq {u}) /\ registered' = registered
  BY <1>2, <1>3
<1> HIDE DEF cb, u
<1>11. NoType \notin Type
  BY HierarchyAssumption
<1>12. u \in Type
  BY <1>2, <1>5, <1>7, <1>10 DEF CallbacksInv, CallbackOK
<1>13. u \in missing[cb] /\ u \in registered
  BY <1>2, <1>5, <1>7, <1>12 DEF CallbacksInv, CallbackOK
<1>14. ASSUME NEW x \in Callbacks PROVE CallbackOK(x)'
  <2>1. CallbackOK(x) /\ missing[x] \subseteq Type
    BY <1>2 DEF CallbacksInv
  <2> HIDE DEF Needs
  <2>2. CASE x = cb
    <3>1. missing'[x] = missing[x] \ {u} /\ missing[x] # {} /\ missing'[x] # {}
      BY <1>10, <2>2
    <3>2. /\ Over(x)' => Said(x)' /\ Needs(x) \subseteq registered'
          /\ Pending(x)' => /\ Needs(x) \ registered' \subseteq missing'[x]
                            /\ missing'[x] \subseteq Needs(x)
      BY <1>8, <1>10, <1>13, <2>1, <3>1 DEF CallbackOK
    <3>3. ASSUME NEW t \in Type
          PROVE  /\ Waits(x, t)' <=> Pending(x)' /\ t \in missing'[x] \ registered'
                 /\ Told(x, t)' <=> Pending(x)' /\ t \in missing'[x] \cap registered'
      BY <1>6, <1>8, <1>9, <1>10, <1>13, <2>1, <2>2, <3>1 DEF CallbackOK
    <3>4. Told(x, NoType)' <=> Pending(x)' /\ missing'[x] = {}
      BY <1>6, <1>8, <1>11, <1>12, <2>1, <2>2, <3>1 DEF CallbackOK
    <3> QED BY <3>2, <3>3, <3>4 DEF CallbackOK
  <2>3. CASE x # cb
    <3>1. missing'[x] = missing[x] /\ \A t : Told(x, t)' <=> Told(x, t)
      BY <1>6, <1>10, <2>3
    <3> QED BY <1>8, <1>9, <1>10, <2>1, <3>1 DEF CallbackOK
  <2> QED BY <2>2, <2>3
<1> QED BY <1>2, <1>3, <1>4, <1>14 DEF CallbacksInv

(* A function is bound: its callback is over, that of its parameters is    *)
(* left.                                                                   *)
LEMMA BoundTold ==
    ASSUME CallInv, NEW f \in Fn, Bind(f)
    PROVE  CallbacksInv'
<1> DEFINE cb == <<"bind", f>>
           next == <<"resolve", f>>
           rest == Tail(agenda)
           L == Live \cup {next}
<1>1. AgendaInv /\ CallbacksInv
  BY DEF CallInv, StartInv
<1>2. /\ agenda # <<>> /\ Head(agenda).callback = cb
      /\ missing[cb] \subseteq {Head(agenda).told}
      /\ bound' = bound \cup {f} /\ Await(next, RawArgTypes(f), rest)
      /\ UNCHANGED <<program, todo, running, registered, resolved>>
  BY DEF Bind, Called
<1>3. cb \in Callbacks /\ next \in Callbacks
  BY DEF Callbacks
<1>4. LastTold(cb, rest)
  BY <1>1, <1>2, <1>3, LastCall
<1>5. /\ cb[1] = "bind" /\ cb[2] = f /\ next[1] = "resolve" /\ next[2] = f
      /\ RawArgTypes(f) = Needs(next) /\ cb # next
  BY DEF Needs
<1>6. \A x \in Callbacks : /\ x = cb <=> x[1] = "bind" /\ x[2] = f
                           /\ x = next <=> x[1] = "resolve" /\ x[2] = f
  BY CallbackKinds
<1>7. L \subseteq Callbacks /\ Live \subseteq L /\ next \in L
  BY <1>1, <1>3, LiveAre
<1>8. /\ awaiting \in [Type -> Seq(Live)] /\ missing \in [Callbacks -> SUBSET Type]
      /\ agenda \in Seq(Items(Live)) /\ resolved \subseteq bound
  BY <1>1 DEF AgendaInv
<1>9. rest \in Seq(Items(Live))
  BY <1>1, <1>2, AgendaTaken
<1> HIDE DEF cb, next, rest, L
<1>10. awaiting \in [Type -> Seq(L)]
  <2>1. \A t \in Type : awaiting[t] \in Seq(L)
    BY <1>7, <1>8, SeqWider
  <2> QED BY <1>8, <2>1
<1>11. rest \in Seq(Items(L))
  <2>1. Items(Live) \subseteq Items(L)
    BY <1>7 DEF Items
  <2> QED BY <1>9, <2>1, SeqWider
<1>12. Needs(next) \in SUBSET Type
  BY <1>3, CallbackKinds
<1>13. Awaited(next, Needs(next), rest)
  BY <1>2, <1>3, <1>5, <1>7, <1>8, <1>10, <1>11, <1>12, AwaitTells
<1>14. f \notin bound /\ ~ Over(next) /\ ~ Pending(next)
  <2>1. f \notin bound
    BY <1>4, <1>5 DEF LastTold, Pending, Over
  <2> QED BY <1>5, <1>8, <2>1 DEF Pending, Said, Over
<1>15. \A t \in Type : ~ Waits(next, t) /\ ~ Told(next, t)
  BY <1>1, <1>3, <1>14 DEF CallbacksInv, CallbackOK
<1>16. ~ Told(next, NoType)
  BY <1>1, <1>3, <1>14 DEF CallbacksInv, CallbackOK
<1>17. \A x, t : x # cb => (Told(x, t) <=> [callback |-> x, told |-> t] \in In(rest))
  BY <1>4 DEF LastTold
<1>18. ASSUME NEW x \in Callbacks
       PROVE  /\ Said(x)' <=> Said(x) \/ x = next
              /\ Over(x)' <=> Over(x) \/ x = cb
              /\ Pending(x)' <=> (Pending(x) /\ x # cb) \/ x = next
  <2>1. Linked' = Linked
    BY <1>2 DEF Linked
  <2>2. Said(x)' <=> Said(x) \/ x = next
    BY <1>2, <1>6, <2>1 DEF Said
  <2>3. Over(x)' <=> Over(x) \/ x = cb
    BY <1>2, <1>6 DEF Over
  <2> QED BY <1>5, <1>14, <2>2, <2>3 DEF Pending
<1>19. registered' = registered
  BY <1>2
<1>20. /\ missing'[next] = Needs(next) \ registered
       /\ \A x \in Callbacks : x # next => missing'[x] = missing[x]
       /\ \A x : \A t \in Type :
            Waits(x, t)' <=> Waits(x, t) \/ (x = next /\ t \in Needs(next) \ registered)
       /\ \A x, t : Told(x, t)' <=>
            \/ [callback |-> x, told |-> t] \in In(rest)
            \/ Needs(next) \subseteq registered /\ x = next /\ t = NoType
  BY <1>13 DEF Awaited
<1>21. \A t \in Type : Once(awaiting'[t])
  BY <1>1, <1>13, <1>15 DEF Awaited, CallbacksInv
<1>22. Once(agenda')
  <2>1. Once(rest) /\ [callback |-> next, told |-> NoType] \notin In(rest)
    BY <1>4, <1>5, <1>16, <1>17 DEF LastTold
  <2> QED BY <1>13, <2>1 DEF Awaited
<1>23. NoType \notin Type
  BY HierarchyAssumption
<1>24. ASSUME NEW x \in Callbacks PROVE CallbackOK(x)'
  <2>1. CallbackOK(x)
    BY <1>1 DEF CallbacksInv
  <2> HIDE DEF Needs
  <2>2. CASE x = next
    <3>1. ~ Over(x)' /\ Pending(x)' /\ missing'[x] = Needs(x) \ registered
      BY <1>5, <1>14, <1>18, <1>20, <2>2
    <3>2. \A t \in Type : /\ Waits(x, t)' <=> t \in Needs(x) \ registered
                          /\ ~ Told(x, t)'
      BY <1>5, <1>15, <1>17, <1>20, <1>23, <2>2
    <3>3. Told(x, NoType)' <=> Needs(x) \subseteq registered
      BY <1>5, <1>16, <1>17, <1>20, <2>2
    <3> QED BY <1>19, <3>1, <3>2, <3>3 DEF CallbackOK
  <2>3. CASE x = cb
    <3>1. Over(x)' /\ Said(x)' /\ ~ Pending(x)' /\ Needs(x) \subseteq registered
      BY <1>4, <1>5, <1>18, <2>3 DEF LastTold, Pending
    <3>2. \A t \in Type : ~ Waits(x, t)'
      BY <1>4, <1>5, <1>20, <2>3 DEF LastTold
    <3>3. ASSUME NEW t PROVE ~ Told(cb, t)'
      <4>1. [callback |-> cb, told |-> t] \notin In(rest)
        BY <1>4 DEF LastTold
      <4> QED BY <1>5, <1>20, <4>1
    <3> QED BY <1>19, <2>3, <3>1, <3>2, <3>3 DEF CallbackOK
  <2>4. CASE x # next /\ x # cb
    <3>1. (Over(x)' <=> Over(x)) /\ (Said(x)' <=> Said(x)) /\ (Pending(x)' <=> Pending(x))
      BY <1>18, <2>4
    <3>2. missing'[x] = missing[x] /\ \A t \in Type : Waits(x, t)' <=> Waits(x, t)
      BY <1>20, <2>4
    <3>3. \A t : Told(x, t)' <=> Told(x, t)
      BY <1>17, <1>20, <2>4
    <3> QED BY <1>19, <2>1, <3>1, <3>2, <3>3 DEF CallbackOK
  <2> QED BY <2>2, <2>3, <2>4
<1> QED BY <1>21, <1>22, <1>24 DEF CallbacksInv

(* And resolved.                                                           *)
LEMMA ResolvedTold ==
    ASSUME CallInv, NEW f \in Fn, Resolve(f)
    PROVE  CallbacksInv'
<1> DEFINE cb == <<"resolve", f>>
           rest == Tail(agenda)
<1>1. AgendaInv /\ CallbacksInv
  BY DEF CallInv, StartInv
<1>2. /\ agenda # <<>> /\ Head(agenda).callback = cb
      /\ missing[cb] \subseteq {Head(agenda).told}
      /\ resolved' = resolved \cup {f} /\ agenda' = rest
      /\ UNCHANGED <<program, todo, running, registered, awaiting, missing, bound>>
  BY DEF Resolve, Called
<1>3. cb \in Callbacks
  BY DEF Callbacks
<1>4. LastTold(cb, rest)
  BY <1>1, <1>2, <1>3, LastCall
<1>5. \A x \in Callbacks : x = cb <=> x[1] = "resolve" /\ x[2] = f
  BY CallbackKinds
<1> HIDE DEF cb, rest
<1>6. \A x, t : x # cb => (Told(x, t)' <=> Told(x, t))
  BY <1>2, <1>4 DEF LastTold, Told
<1>7. \A t : ~ Told(cb, t)'
  BY <1>2, <1>4 DEF LastTold, Told
<1>8. \A x, t : Waits(x, t)' <=> Waits(x, t)
  BY <1>2 DEF Waits
<1>9. missing' = missing /\ registered' = registered
  BY <1>2
<1>10. ASSUME NEW x \in Callbacks PROVE CallbackOK(x)'
  <2>1. CallbackOK(x)
    BY <1>1 DEF CallbacksInv
  <2>2. Said(x)' <=> Said(x)
    BY <1>2 DEF Said, Linked
  <2>3. Over(x)' <=> Over(x) \/ x = cb
    BY <1>2, <1>5 DEF Over
  <2>4. Pending(x)' <=> Pending(x) /\ x # cb
    BY <2>2, <2>3 DEF Pending
  <2> HIDE DEF Needs
  <2>5. CASE x = cb
    <3>1. Over(x)' /\ Said(x)' /\ ~ Pending(x)' /\ Needs(x) \subseteq registered
      BY <1>4, <2>2, <2>3, <2>4, <2>5 DEF LastTold, Pending
    <3>2. \A t \in Type : ~ Waits(x, t)'
      BY <1>4, <1>8, <2>5 DEF LastTold
    <3>3. \A t : ~ Told(x, t)'
      BY <1>7, <2>5
    <3> QED BY <1>9, <3>1, <3>2, <3>3 DEF CallbackOK
  <2>6. CASE x # cb
    <3>1. (Over(x)' <=> Over(x)) /\ (Pending(x)' <=> Pending(x))
      BY <2>3, <2>4, <2>6
    <3>2. \A t : Told(x, t)' <=> Told(x, t)
      BY <1>6, <2>6
    <3> QED BY <1>8, <1>9, <2>1, <2>2, <3>1, <3>2 DEF CallbackOK
  <2> QED BY <2>5, <2>6
<1>11. Once(agenda') /\ \A t \in Type : Once(awaiting'[t])
  BY <1>1, <1>2, <1>4 DEF CallbacksInv, LastTold
<1> QED BY <1>10, <1>11 DEF CallbacksInv

-----------------------------------------------------------------------------
(* The functions of a class, each once.                                    *)
LEMMA SourceOf ==
    ASSUME program \in Programs, NEW c \in Class
    PROVE  /\ Source(c) \in Seq(Linked) /\ Once(Source(c))
           /\ In(Source(c)) = {g \in Linked : Of[g] = c}
           /\ In(program.ctors[c]) \cap In(program.methods[c]) = {}
<1> DEFINE ctors == program.ctors[c]
           methods == program.methods[c]
           s == ctors \o methods
           F == {g \in Linked : Of[g] = c}
<1>1. ctors \in Seq(Linked) /\ methods \in Seq(Linked)
  BY LinkedAre
<1>2. Once(ctors) /\ Once(methods) /\ In(ctors) \cap In(methods) = {}
  <2>1. \A u \in {methods, ctors} : \A i, j \in DOMAIN u : i # j => Key(u[i]) # Key(u[j])
    BY ProgramsAssumption
  <2>2. In(ctors) \cap In(methods) = {}
    BY ProgramsAssumption
  <2> HIDE DEF ctors, methods
  <2> QED BY <2>1, <2>2 DEF Once
<1>3. /\ \A f \in In(ctors) \cup In(methods) : Of[f] = c
      /\ In(ctors) \subseteq Linked /\ In(methods) \subseteq Linked
  <2>1. /\ \A i \in DOMAIN ctors : Of[ctors[i]] = c
        /\ \A i \in DOMAIN methods : Of[methods[i]] = c
    BY ProgramsAssumption
  <2> QED BY <1>1, <2>1, InSeq DEF In
<1>4. F = In(ctors) \cup In(methods)
  <2>1. ASSUME NEW f \in F PROVE f \in In(ctors) \cup In(methods)
    <3>1. PICK d \in Class : f \in In(program.methods[d]) \cup In(program.ctors[d])
      BY DEF Linked
    <3>2. Of[f] = d
      <4>1. /\ \A i \in DOMAIN program.methods[d] : Of[program.methods[d][i]] = d
            /\ \A i \in DOMAIN program.ctors[d] : Of[program.ctors[d][i]] = d
        BY ProgramsAssumption
      <4> QED BY <3>1, <4>1 DEF In
    <3> QED BY <3>1, <3>2
  <2> QED BY <1>3, <2>1
<1> HIDE DEF ctors, methods, F
<1>5. In(s) = F /\ s \in Seq(Linked) /\ Once(s)
  BY <1>1, <1>2, <1>4, InConcat
<1> QED BY <1>2, <1>5 DEF Source, s, ctors, methods, F

(* The registrations of a block.                                           *)
LEMMA BlockIs ==
    ASSUME program \in Programs, NEW b \in Type
    PROVE  /\ b \notin Class => In(Block(b)) = {<<"type", b>>}
           /\ b \in Class => In(Block(b)) = {<<"class", b>>}
                               \cup {<<"bind", f>> : f \in {g \in Linked : Of[g] = b}}
           /\ Once(Block(b))
<1>1. CASE b \notin Class
  <2> DEFINE x == <<"type", b>>
  <2>1. Block(b) = <<x>>
    BY <1>1 DEF Block
  <2> HIDE DEF x
  <2>2. In(Block(b)) = {x} /\ Once(Block(b))
    BY <2>1, InNone
  <2> QED BY <1>1, <2>2 DEF x
<1>2. CASE b \in Class
  <2> DEFINE s == Source(b)
             own == <<"class", b>>
             call(f) == <<"bind", f>>
             others == [i \in DOMAIN s |-> call(s[i])]
             first == <<own>>
             E == Statements
             F == {g \in Linked : Of[g] = b}
  <2>1. Block(b) = first \o others
    BY <1>2 DEF Block, Source
  <2>2. In(s) = F /\ s \in Seq(Linked) /\ Once(s)
    BY <1>2, SourceOf
  <2> HIDE DEF s, F
  <2>3. /\ \A f \in Linked : call(f) \in E
        /\ \A f, g : call(f) = call(g) => f = g
        /\ \A f : call(f) # own
    BY DEF Statements
  <2>4. own \in E
    BY <1>2 DEF Statements
  <2> HIDE DEF E, own, call
  <2>5. first \in Seq(E) /\ In(first) = {own} /\ Once(first)
    BY <2>4, InNone
  <2>6. DOMAIN s = 1 .. Len(s) /\ Len(s) \in Nat /\ \A i \in DOMAIN s : s[i] \in Linked
    BY <2>2
  <2>7. others \in Seq(E)
    BY <2>3, <2>6
  <2>8. DOMAIN others = DOMAIN s /\ \A i \in DOMAIN s : others[i] = call(s[i])
    OBVIOUS
  <2> HIDE DEF first, others
  <2>9. In(others) = {call(f) : f \in F} /\ Once(others)
    BY <2>2, <2>3, <2>8 DEF In, Once
  <2>10. own \notin In(others)
    BY <2>3, <2>9
  <2>11. In(Block(b)) = {own} \cup {call(f) : f \in F} /\ Once(Block(b))
    BY <2>1, <2>5, <2>7, <2>9, <2>10, InConcat
  <2> QED BY <1>2, <2>11 DEF own, call, F
<1> QED BY <1>1, <1>2

(* A block starts: what it will register was not, and is not.              *)
LEMMA BlockTold ==
    ASSUME CallInv, NEW b \in Type, StartBlock(b)
    PROVE  CallbacksInv' /\ BlocksInv' /\ \A x \in Callbacks : Said(x)' <=> Said(x)
<1>1. AgendaInv /\ CallbacksInv /\ BlocksInv
  BY DEF CallInv, StartInv
<1>2. /\ running = <<>> /\ b \in todo /\ todo' = todo \ {b} /\ running' = Block(b)
      /\ UNCHANGED <<program, registered, awaiting, missing, agenda, bound, resolved>>
  BY DEF StartBlock, deps
<1>3. /\ b \notin Class => In(running') = {<<"type", b>>}
      /\ b \in Class => In(running') = {<<"class", b>>}
                          \cup {<<"bind", f>> : f \in {g \in Linked : Of[g] = b}}
      /\ Once(running')
  BY <1>1, <1>2, BlockIs DEF AgendaInv
<1>4. In(running) = {} /\ Linked' = Linked /\ (\A f \in Linked : Of[f] \in Class)
  BY <1>1, <1>2, InNone, LinkedAre DEF Linked, AgendaInv
<1>5. ASSUME NEW x \in Callbacks PROVE Said(x)' <=> Said(x)
  <2>1. CASE x[1] = "class" /\ x[2] \in Class
    <3>1. x \in In(running') <=> x[2] = b
      BY <1>3, <2>1, CallbackKinds
    <3> QED BY <1>2, <1>4, <2>1, <3>1 DEF Said
  <2>2. CASE x[1] = "bind" /\ x[2] \in Fn
    <3>1. x[2] \in Linked => (x \in In(running') <=> Of[x[2]] = b)
      BY <1>3, <1>4, <2>2, CallbackKinds
    <3> QED BY <1>2, <1>4, <2>2, <3>1 DEF Said
  <2>3. CASE x[1] = "resolve"
    BY <1>2, <2>3 DEF Said
  <2> QED BY <2>1, <2>2, <2>3, CallbackKinds
<1>6. ASSUME NEW x \in Callbacks PROVE CallbackOK(x)'
  <2>1. CallbackOK(x)
    BY <1>1 DEF CallbacksInv
  <2>2. (Over(x)' <=> Over(x)) /\ (Pending(x)' <=> Pending(x))
    BY <1>2, <1>5 DEF Over, Pending
  <2>3. \A t : (Waits(x, t)' <=> Waits(x, t)) /\ (Told(x, t)' <=> Told(x, t))
    BY <1>2 DEF Waits, Told
  <2> QED BY <1>2, <1>5, <2>1, <2>2, <2>3 DEF CallbackOK
<1>7. CallbacksInv'
  BY <1>1, <1>2, <1>6 DEF CallbacksInv
<1>8. BlocksInv'
  <2>1. b \notin Absent /\ (todo' \cup registered') \cap Absent = {}
    BY <1>1, <1>2 DEF BlocksInv
  <2>2. ASSUME NEW x \in In(running')
        PROVE  /\ x[1] = "class" => x[2] \notin todo'
               /\ x[1] = "bind" => Of[x[2]] \notin todo'
               /\ x[1] = "type" => x[2] \notin todo' \cup Class \cup Absent
    BY <1>2, <1>3, <2>1, <2>2
  <2>3. ASSUME NEW t \in Type \ (Class \cup Absent)
        PROVE  t \in todo' \/ t \in registered' \/ <<"type", t>> \in In(running')
    BY <1>1, <1>2, <1>3, <1>4 DEF BlocksInv
  <2> QED BY <1>3, <2>1, <2>2, <2>3 DEF BlocksInv
<1> QED BY <1>5, <1>7, <1>8

(* A registration is taken from the running block.                         *)
LEMMA StatementSteps ==
    ASSUME CallInv, NEW kind, Statement(kind)
    PROVE  /\ In(running) = {Head(running)} \cup In(running')
           /\ Head(running) \notin In(running') /\ Once(running')
           /\ Head(running) \in Statements /\ Head(running)[1] = kind
           /\ \A x, t : ~ Told(x, t)
           /\ UNCHANGED <<program, todo, bound, resolved>>
<1>1. running \in Seq(Statements) /\ Once(running)
  BY DEF CallInv, StartInv, AgendaInv, BlocksInv
<1>2. /\ agenda = <<>> /\ running # <<>> /\ Head(running)[1] = kind
      /\ running' = Tail(running) /\ UNCHANGED <<program, todo, bound, resolved>>
  BY DEF Statement
<1>3. Head(running) \in Statements
  BY <1>1, <1>2
<1> QED BY <1>1, <1>2, <1>3, InTail, QuietAgenda

LEMMA EnumTold ==
    ASSUME CallInv, RegisterEnum
    PROVE  CallbacksInv' /\ BlocksInv'
<1> DEFINE x == Head(running)
           none == <<>>
<1>1. AgendaInv /\ CallbacksInv /\ BlocksInv
  BY DEF CallInv, StartInv
<1>2. /\ In(running) = {x} \cup In(running') /\ x \notin In(running') /\ Once(running')
      /\ x \in Statements /\ x[1] = "type" /\ \A y, u : ~ Told(y, u)
      /\ UNCHANGED <<program, todo, bound, resolved>>
  BY StatementSteps DEF RegisterEnum
<1>3. Register(x[2], none) /\ missing' = missing
  BY DEF RegisterEnum
<1>4. In(none) = {} /\ Once(none) /\ none \in Seq(Items(Live))
  BY InNone
<1> HIDE DEF x, none
<1>5. PICK t \in Type : x = <<"type", t>>
  BY <1>2 DEF Statements
<1>6. t \notin todo \cup Class \cup Absent
  BY <1>1, <1>2, <1>5 DEF BlocksInv
<1>7. awaiting \in [Type -> Seq(Live)] /\ \A u \in Type : Once(awaiting[u])
  BY <1>1 DEF AgendaInv, CallbacksInv
<1>8. Register(t, none) /\ t \in Type \ Class
  BY <1>3, <1>5, <1>6
<1>9. Announced(t, none)
  BY <1>4, <1>7, <1>8, RegisterTells
<1>10. \A y \in Callbacks : y \in In(running') <=> y \in In(running)
  BY <1>2, CallbackKinds
<1>11. CallbacksInv'
  BY <1>2, <1>3, <1>4, <1>8, <1>9, <1>10, TypeAnnounced
<1>12. BlocksInv'
  <2>1. registered' = registered \cup {t}
    BY <1>9 DEF Announced
  <2> QED BY <1>1, <1>2, <1>5, <1>6, <2>1 DEF BlocksInv
<1> QED BY <1>11, <1>12

LEMMA CallbackTold ==
    ASSUME CallInv, RegisterClass \/ RegisterFunction
    PROVE  CallbacksInv' /\ BlocksInv'
<1> DEFINE cb == Head(running)
           none == <<>>
<1>1. AgendaInv /\ CallbacksInv /\ BlocksInv
  BY DEF CallInv, StartInv
<1>2. PICK kind \in {"class", "bind"} : Statement(kind)
  BY DEF RegisterClass, RegisterFunction
<1>3. /\ In(running) = {cb} \cup In(running') /\ cb \notin In(running') /\ Once(running')
      /\ cb \in Statements /\ cb[1] \in {"class", "bind"} /\ \A y, u : ~ Told(y, u)
      /\ UNCHANGED <<program, todo, bound, resolved>>
  BY <1>2, StatementSteps
<1>4. Await(cb, Needs(cb), none) /\ registered' = registered
  BY DEF RegisterClass, RegisterFunction, Statement, Needs
<1>5. In(none) = {} /\ Once(none) /\ none \in Seq(Items(Live))
  BY InNone
<1> HIDE DEF cb, none
<1>6. cb \in Live \cap Statements /\ Live \subseteq Callbacks
  BY <1>1, <1>3, LiveAre DEF Statements, Live
<1>7. awaiting \in [Type -> Seq(Live)] /\ missing \in [Callbacks -> SUBSET Type]
  BY <1>1 DEF AgendaInv
<1>8. Needs(cb) \in SUBSET Type
  BY <1>6, CallbackKinds
<1>9. Awaited(cb, Needs(cb), none)
  BY <1>4, <1>5, <1>6, <1>7, <1>8, AwaitTells
<1>10. CallbacksInv'
  BY <1>3, <1>4, <1>5, <1>6, <1>9, CallbackLeft
<1>11. BlocksInv'
  <2>1. \A t : <<"type", t>> # cb
    BY <1>3
  <2> QED BY <1>1, <1>3, <1>4, <2>1 DEF BlocksInv
<1> QED BY <1>10, <1>11

LEMMA ClassTold ==
    ASSUME CallInv, NEW c \in Class, CompleteClass(c)
    PROVE  CallbacksInv' /\ BlocksInv'
<1> DEFINE cb == <<"class", c>>
           rest == Tail(agenda)
<1>1. AgendaInv /\ CallbacksInv /\ BlocksInv
  BY DEF CallInv, StartInv
<1>2. /\ agenda # <<>> /\ Head(agenda).callback = cb
      /\ missing[cb] \subseteq {Head(agenda).told} /\ Register(c, rest)
      /\ UNCHANGED <<program, todo, running, missing, bound, resolved>>
  BY DEF CompleteClass, Called
<1>3. cb \in Callbacks /\ cb[1] = "class" /\ cb[2] = c
  BY DEF Callbacks
<1>4. LastTold(cb, rest)
  BY <1>1, <1>2, <1>3, LastCall
<1>5. rest \in Seq(Items(Live))
  BY <1>1, <1>2, AgendaTaken
<1> HIDE DEF rest
<1>6. awaiting \in [Type -> Seq(Live)] /\ c \in Type /\ c \notin Absent
  BY <1>1, HierarchyAssumption DEF AgendaInv
<1>7. Announced(c, rest)
  BY <1>2, <1>5, <1>6, RegisterTells
<1>8. c \notin registered
  BY <1>3, <1>4 DEF LastTold, Pending, Over
<1>9. ASSUME NEW i \in In(rest), i.told = c PROVE FALSE
  <2>1. PICK x \in Live : i = [callback |-> x, told |-> c]
    <3>1. i \in Items(Live)
      BY <1>5, <1>9, InSeq
    <3> QED BY <1>9, <3>1 DEF Items
  <2>2. x # cb
    BY <1>4, <1>9, <2>1 DEF LastTold
  <2>3. Told(x, c)
    BY <1>4, <1>9, <2>1, <2>2 DEF LastTold
  <2>4. CallbackOK(x)
    BY <1>1, <2>1, LiveAre DEF CallbacksInv
  <2> QED BY <1>6, <1>8, <2>3, <2>4 DEF CallbackOK
<1>10. CallbacksInv'
  BY <1>2, <1>4, <1>7, <1>9, ClassAnnounced
<1>11. BlocksInv'
  <2>1. registered' = registered \cup {c}
    BY <1>7 DEF Announced
  <2> QED BY <1>1, <1>2, <1>6, <2>1 DEF BlocksInv
<1> QED BY <1>10, <1>11

(* What leaves the blocks and the registered types alone.                  *)
LEMMA BlocksSame ==
    ASSUME CallInv, UNCHANGED <<todo, running, registered>>
    PROVE  BlocksInv'
  BY DEF CallInv, BlocksInv

LEMMA CallInvInit == StartInit => CallInv
<1> SUFFICES ASSUME StartInit PROVE CallInv
  OBVIOUS
<1>1. /\ todo = Type \ Absent /\ running = <<>> /\ registered = {} /\ agenda = <<>>
      /\ awaiting = [t \in Type |-> <<>>] /\ missing = [cb \in Callbacks |-> {}]
      /\ bound = {} /\ resolved = {}
  BY DEF StartInit
<1>2. In(running) = {} /\ Once(running) /\ Once(agenda)
  BY <1>1, InNone
<1>3. \A t \in Type : Once(awaiting[t]) /\ \A x : ~ Waits(x, t)
  BY <1>1, InNone DEF Waits
<1>4. \A x, t : ~ Told(x, t)
  BY <1>1, QuietAgenda
<1>5. StartInv /\ \A f \in Linked : Of[f] \in Class
  BY StartInvInit, LinkedAre DEF StartInit
<1>6. Class \subseteq todo
  BY <1>1, HierarchyAssumption
<1>7. ASSUME NEW x \in Callbacks PROVE CallbackOK(x)
  <2>1. ~ Said(x) /\ ~ Over(x)
    BY <1>1, <1>5, <1>6, CallbackKinds DEF Said, Over
  <2> QED BY <1>3, <1>4, <2>1 DEF CallbackOK, Pending
<1>8. CallbacksInv
  BY <1>2, <1>3, <1>7 DEF CallbacksInv
<1>9. BlocksInv
  BY <1>1, <1>2 DEF BlocksInv
<1> QED BY <1>5, <1>8, <1>9 DEF CallInv

LEMMA CallSteps ==
    ASSUME CallInv, [StartNext]_startVars
    PROVE  CallInv'
<1>1. StartInv'
  BY StartSteps DEF CallInv, Quiet, FunctionStep
<1>2. ASSUME NEW f \in Fn, BindFirst(f) \/ BindNewArity(f) \/ BindOverload(f) \/ BindCtor(f)
      PROVE  CallbacksInv' /\ BlocksInv'
  <2>1. Bind(f)
    BY <1>2 DEF BindFirst, BindNewArity, BindOverload, BindCtor
  <2>2. UNCHANGED <<todo, running, registered>>
    BY <2>1 DEF Bind, Called
  <2> QED BY <2>1, <2>2, BoundTold, BlocksSame
<1>3. ASSUME NEW f \in Fn, ResolvePlain(f) \/ ResolveOverload(f) \/ ResolveCtor(f)
      PROVE  CallbacksInv' /\ BlocksInv'
  <2>1. Resolve(f)
    BY <1>3 DEF ResolvePlain, ResolveOverload, ResolveCtor
  <2>2. UNCHANGED <<todo, running, registered>>
    BY <2>1 DEF Resolve, Called
  <2> QED BY <2>1, <2>2, ResolvedTold, BlocksSame
<1>4. ASSUME CountType PROVE CallbacksInv' /\ BlocksInv'
  <2>1. UNCHANGED <<todo, running, registered>>
    BY <1>4 DEF CountType
  <2> QED BY <1>4, <2>1, TypeTold, BlocksSame
<1>5. ASSUME UNCHANGED startVars PROVE CallbacksInv' /\ BlocksInv'
  <2>1. UNCHANGED <<program, todo, running, registered, awaiting, missing, agenda, bound, resolved>>
    BY <1>5 DEF startVars, deps
  <2>2. ASSUME NEW x \in Callbacks PROVE CallbackOK(x)'
    <3>1. CallbackOK(x)
      BY DEF CallInv, CallbacksInv
    <3>2. (Said(x)' <=> Said(x)) /\ (Over(x)' <=> Over(x)) /\ (Pending(x)' <=> Pending(x))
      BY <2>1 DEF Said, Over, Pending, Linked
    <3>3. \A t : (Waits(x, t)' <=> Waits(x, t)) /\ (Told(x, t)' <=> Told(x, t))
      BY <2>1 DEF Waits, Told
    <3> QED BY <2>1, <3>1, <3>2, <3>3 DEF CallbackOK
  <2>3. CallbacksInv'
    BY <2>1, <2>2 DEF CallInv, CallbacksInv
  <2> QED BY <2>1, <2>3, BlocksSame
<1>6. CallbacksInv' /\ BlocksInv'
  BY <1>2, <1>3, <1>4, <1>5, BlockTold, EnumTold, CallbackTold, ClassTold DEF StartNext
<1> QED BY <1>1, <1>6 DEF CallInv

(* A callback is over before nothing is left to be called, unless a type   *)
(* is missing.                                                             *)
LEMMA NothingPending ==
    ASSUME CallInv, Started, NEW cb \in Callbacks, Pending(cb)
    PROVE  ~ (Needs(cb) \subseteq registered)
<1>1. CallbackOK(cb) /\ \A t : ~ Told(cb, t)
  BY QuietAgenda DEF CallInv, CallbacksInv, Started
<1>2. Needs(cb) \subseteq Type
  BY CallbackKinds
<1> HIDE DEF Needs
<1> QED BY <1>1, <1>2 DEF CallbackOK

(* What a module has come to when it has started.                          *)
LEMMA AllCalled ==
    ASSUME CallInv, Started
    PROVE  /\ registered = Type \ Absent
           /\ bound = Linked /\ resolved = {f \in Linked : Resolvable(f)}
<1>1. AgendaInv /\ CallbacksInv /\ BlocksInv
  BY DEF CallInv, StartInv
<1>2. todo = {} /\ In(running) = {}
  BY InNone DEF Started
<1>3. /\ Linked \subseteq Fn /\ bound \subseteq Linked /\ registered \subseteq Type
      /\ resolved \subseteq bound
      /\ \A f \in Linked : Of[f] \in Class /\ RawArgTypes(f) \subseteq Type
  BY <1>1, LinkedAre, FnAssumption, InSeq DEF AgendaInv, RawArgTypes
<1>4. Class \subseteq registered
  <2> DEFINE S == Class \ registered
  <2>1. SUFFICES ASSUME S # {} PROVE FALSE
    OBVIOUS
  <2>2. PICK c \in S : Parent[c] \notin S
    BY <2>1, AcyclicAssumption
  <2> DEFINE cb == <<"class", c>>
  <2>3. cb \in Callbacks /\ cb[1] = "class" /\ cb[2] = c
    BY DEF Callbacks
  <2> HIDE DEF cb
  <2>4. Pending(cb)
    BY <1>2, <2>2, <2>3 DEF Pending, Said, Over
  <2>5. Needs(cb) \subseteq registered
    BY <2>2, <2>3, HierarchyAssumption DEF Needs
  <2> QED BY <2>3, <2>4, <2>5, NothingPending
<1>5. registered = Type \ Absent
  BY <1>1, <1>2, <1>3, <1>4 DEF BlocksInv
<1>6. ASSUME NEW f \in Linked PROVE f \in bound
  <2> DEFINE cb == <<"bind", f>>
  <2>1. cb \in Callbacks /\ cb[1] = "bind" /\ cb[2] = f
    BY <1>3 DEF Callbacks
  <2> HIDE DEF cb
  <2>2. Said(cb) /\ Needs(cb) \subseteq registered
    BY <1>2, <1>3, <1>4, <2>1 DEF Said, Needs
  <2>3. Over(cb)
    BY <2>1, <2>2, NothingPending DEF Pending
  <2> QED BY <2>1, <2>3 DEF Over
<1>7. ASSUME NEW f \in Linked PROVE f \in resolved <=> Resolvable(f)
  <2> DEFINE cb == <<"resolve", f>>
  <2>1. cb \in Callbacks /\ cb[1] = "resolve" /\ cb[2] = f /\ CallbackOK(cb)
    BY <1>1, <1>3 DEF Callbacks, CallbacksInv
  <2> HIDE DEF cb
  <2>2. /\ Said(cb) /\ (Over(cb) <=> f \in resolved)
        /\ Needs(cb) = RawArgTypes(f)
    BY <1>6, <2>1 DEF Said, Over, Needs
  <2>3. Needs(cb) \subseteq registered <=> Resolvable(f)
    BY <1>3, <1>5, <2>2 DEF Resolvable
  <2>4. Over(cb) => Needs(cb) \subseteq registered
    BY <2>1 DEF CallbackOK
  <2> HIDE DEF Needs
  <2>5. Needs(cb) \subseteq registered => Over(cb)
    BY <2>1, <2>2, NothingPending DEF Pending
  <2> QED BY <2>2, <2>3, <2>4, <2>5
<1>8. bound = Linked
  BY <1>3, <1>6
<1>9. resolved = {f \in Linked : Resolvable(f)}
  BY <1>3, <1>7
<1> QED BY <1>5, <1>8, <1>9

(* While a module starts, every callback that was left is still to be told *)
(* of each type that it misses, once: by the registration of that type, or *)
(* by the agenda.                                                          *)
THEOREM CallbacksWait == StartSpec => []CallInv
<1>1. CallInv /\ [StartNext]_startVars => CallInv'
  BY CallSteps
<1> QED BY CallInvInit, <1>1, PTL DEF StartSpec

(* A module that has started has bound all its functions and has resolved  *)
(* exactly those all of whose types it registers (of parameters, result    *)
(* and `this`), whatever the order of the blocks: no callback was lost,    *)
(* and none was called too early.                                          *)
THEOREM CallbacksCome == StartSpec => []NoCallbackIsLost
<1>1. CallInv => NoCallbackIsLost
  BY AllCalled DEF NoCallbackIsLost
<1> QED BY CallbacksWait, <1>1, PTL

-----------------------------------------------------------------------------
(* Sequences in the order of the source.                                   *)
LEMMA OrderTail ==
    ASSUME NEW E, NEW s \in Seq(E), s # <<>>, InOrder(s)
    PROVE  InOrder(Tail(s)) /\ \A x \in In(Tail(s)) : ~ Precedes(x, Head(s))
<1> DEFINE n == Len(s)
           rest == Tail(s)
           first == Head(s)
<1>1. /\ n \in Nat \ {0} /\ DOMAIN s = 1 .. n /\ first = s[1]
      /\ DOMAIN rest = 1 .. n - 1 /\ \A i \in 1 .. n - 1 : rest[i] = s[i + 1]
  OBVIOUS
<1> HIDE DEF n, rest, first
<1>2. \A i \in 1 .. n - 1 : i + 1 \in 1 .. n /\ 1 \in 1 .. n
  BY <1>1
<1>3. InOrder(rest)
  <2>1. SUFFICES ASSUME NEW i \in 1 .. n - 1, NEW j \in 1 .. n - 1, Precedes(rest[i], rest[j])
                 PROVE  i < j
    BY <1>1 DEF InOrder
  <2>2. i + 1 < j + 1
    BY <1>1, <1>2, <2>1 DEF InOrder
  <2> QED BY <1>1, <2>2
<1>4. ASSUME NEW x \in In(rest), Precedes(x, first) PROVE FALSE
  <2>1. PICK i \in 1 .. n - 1 : x = rest[i]
    BY <1>1 DEF In
  <2>2. i + 1 < 1
    BY <1>1, <1>2, <1>4, <2>1 DEF InOrder
  <2> QED BY <1>1, <2>2
<1> QED BY <1>3, <1>4 DEF rest, first

LEMMA OrderConcat ==
    ASSUME NEW E, NEW s \in Seq(E), NEW u \in Seq(E), InOrder(s), InOrder(u),
           \A x \in In(s) : \A y \in In(u) : ~ Precedes(y, x)
    PROVE  InOrder(s \o u)
<1> DEFINE m == Len(s)
           n == Len(u)
           w == s \o u
<1>1. /\ m \in Nat /\ n \in Nat /\ DOMAIN s = 1 .. m /\ DOMAIN u = 1 .. n
      /\ DOMAIN w = 1 .. m + n
      /\ \A i \in 1 .. m : w[i] = s[i]
      /\ \A i \in m + 1 .. m + n : w[i] = u[i - m]
  OBVIOUS
<1> HIDE DEF m, n, w
<1>2. \A i \in 1 .. m + n : i \in 1 .. m \/ (i - m \in 1 .. n /\ i \in m + 1 .. m + n)
  BY <1>1
<1>3. SUFFICES ASSUME NEW i \in 1 .. m + n, NEW j \in 1 .. m + n, Precedes(w[i], w[j])
               PROVE  i < j
  BY <1>1 DEF InOrder, w
<1>4. CASE i \in 1 .. m /\ j \in 1 .. m
  BY <1>1, <1>3, <1>4 DEF InOrder
<1>5. CASE i - m \in 1 .. n /\ i \in m + 1 .. m + n /\ j - m \in 1 .. n /\ j \in m + 1 .. m + n
  <2>1. i - m < j - m
    BY <1>1, <1>3, <1>5 DEF InOrder
  <2> QED BY <1>1, <2>1
<1>6. CASE i \in 1 .. m /\ j \in m + 1 .. m + n
  BY <1>1, <1>6
<1>7. CASE i - m \in 1 .. n /\ i \in m + 1 .. m + n /\ j \in 1 .. m
  <2>1. w[i] \in In(u) /\ w[j] \in In(s)
    BY <1>1, <1>7 DEF In
  <2> QED BY <1>3, <2>1
<1> QED BY <1>2, <1>4, <1>5, <1>6, <1>7

(* One element, and none, are in order.                                    *)
LEMMA OrderNone == InOrder(<<>>) /\ \A x : ~ Precedes(x, x) => InOrder(<<x>>)
  BY DEF InOrder

LEMMA SameSeq ==
    ASSUME NEW E, NEW s \in Seq(E), NEW u \in Seq(E), Len(s) = Len(u),
           \A i \in 1 .. Len(s) : s[i] = u[i]
    PROVE  s = u
<1>1. s = [i \in 1 .. Len(s) |-> s[i]] /\ u = [i \in 1 .. Len(u) |-> u[i]]
  OBVIOUS
<1> QED BY <1>1

(* What the agenda calls, in its order.                                    *)
LEMMA CalleesSeq ==
    ASSUME NEW L, NEW s \in Seq(Items(L))
    PROVE  /\ Callees(s) \in Seq(L) /\ Len(Callees(s)) = Len(s)
           /\ \A i \in 1 .. Len(s) : Callees(s)[i] = s[i].callback
<1> DEFINE n == Len(s)
           k == Callees(s)
<1>1. n \in Nat /\ DOMAIN s = 1 .. n /\ \A i \in 1 .. n : s[i] \in Items(L)
  OBVIOUS
<1>2. \A i \in 1 .. n : s[i].callback \in L
  BY <1>1 DEF Items
<1>3. k = [i \in 1 .. n |-> s[i].callback]
  BY <1>1 DEF Callees
<1> HIDE DEF n, k
<1>4. k \in Seq(L) /\ Len(k) = n /\ \A i \in 1 .. n : k[i] = s[i].callback
  BY <1>1, <1>2, <1>3
<1> QED BY <1>4 DEF n, k

LEMMA CalleesOf ==
    ASSUME NEW L, NEW s \in Seq(Items(L))
    PROVE  /\ In(Callees(s)) = {i.callback : i \in In(s)}
           /\ s # <<>> => /\ Callees(s) # <<>> /\ Head(Callees(s)) = Head(s).callback
                          /\ Callees(Tail(s)) = Tail(Callees(s))
<1> DEFINE n == Len(s)
           k == Callees(s)
<1>1. n \in Nat /\ DOMAIN s = 1 .. n
  OBVIOUS
<1>2. k \in Seq(L) /\ Len(k) = n /\ \A i \in 1 .. n : k[i] = s[i].callback
  BY CalleesSeq
<1> HIDE DEF k
<1>3. DOMAIN k = 1 .. n
  BY <1>2
<1>4. In(k) = {i.callback : i \in In(s)}
  BY <1>1, <1>2, <1>3 DEF In
<1>5. ASSUME s # <<>>
      PROVE  k # <<>> /\ Head(k) = Head(s).callback /\ Callees(Tail(s)) = Tail(k)
  <2> DEFINE r == Tail(s)
  <2>1. /\ n \in Nat \ {0} /\ Head(s) = s[1] /\ r \in Seq(Items(L)) /\ Len(r) = n - 1
        /\ \A i \in 1 .. n - 1 : r[i] = s[i + 1]
    BY <1>5
  <2> HIDE DEF r, n
  <2>2. k # <<>> /\ Head(k) = k[1]
    BY <1>2, <2>1
  <2>3. Tail(k) \in Seq(L) /\ Len(Tail(k)) = n - 1 /\ \A i \in 1 .. n - 1 : Tail(k)[i] = k[i + 1]
    BY <1>2, <2>1, <2>2
  <2>4. /\ Callees(r) \in Seq(L) /\ Len(Callees(r)) = n - 1
        /\ \A i \in 1 .. n - 1 : Callees(r)[i] = r[i].callback
    BY <2>1, CalleesSeq
  <2>5. 1 \in 1 .. n /\ \A i \in 1 .. n - 1 : i + 1 \in 1 .. n
    BY <2>1
  <2>6. \A i \in 1 .. n - 1 : Callees(r)[i] = Tail(k)[i]
    BY <1>2, <2>1, <2>3, <2>4, <2>5
  <2> DEFINE one == Callees(r)
             two == Tail(k)
  <2>7. one = two
    <3> HIDE DEF one, two
    <3> QED BY <2>3, <2>4, <2>6, SameSeq DEF one, two
  <2> QED BY <1>2, <2>1, <2>2, <2>5, <2>7 DEF r
<1> QED BY <1>4, <1>5 DEF k

LEMMA CalleesConcat ==
    ASSUME NEW L, NEW s \in Seq(Items(L)), NEW u \in Seq(Items(L))
    PROVE  Callees(s \o u) = Callees(s) \o Callees(u)
<1> DEFINE m == Len(s)
           n == Len(u)
           w == s \o u
           k == Callees(s)
           l == Callees(u)
           c == Callees(w)
           d == k \o l
<1>1. /\ m \in Nat /\ n \in Nat /\ w \in Seq(Items(L)) /\ Len(w) = m + n
      /\ \A i \in 1 .. m : w[i] = s[i]
      /\ \A i \in m + 1 .. m + n : w[i] = u[i - m]
  OBVIOUS
<1>2. /\ k \in Seq(L) /\ Len(k) = m /\ (\A i \in 1 .. m : k[i] = s[i].callback)
      /\ l \in Seq(L) /\ Len(l) = n /\ (\A i \in 1 .. n : l[i] = u[i].callback)
  BY CalleesSeq
<1> HIDE DEF m, n, w, k, l
<1>3. /\ c \in Seq(L) /\ Len(c) = m + n
      /\ \A i \in 1 .. m + n : c[i] = w[i].callback
  BY <1>1, CalleesSeq
<1>4. d \in Seq(L) /\ Len(d) = m + n
  <2>1. k \in Seq(L) /\ l \in Seq(L) /\ Len(k) = m /\ Len(l) = n
    BY <1>2
  <2> QED BY <2>1
<1>5. /\ \A i \in 1 .. m : d[i] = k[i]
      /\ \A i \in m + 1 .. m + n : d[i] = l[i - m]
  BY <1>1, <1>2
<1> HIDE DEF c, d
<1>6. \A i \in 1 .. m + n : c[i] = d[i]
  <2>1. TAKE i \in 1 .. m + n
  <2>2. CASE i \in 1 .. m
    <3>1. c[i] = w[i].callback /\ w[i] = s[i] /\ d[i] = k[i] /\ k[i] = s[i].callback
      BY <1>1, <1>2, <1>3, <1>5, <2>2
    <3> QED BY <3>1
  <2>3. CASE i \in m + 1 .. m + n
    <3>1. i - m \in 1 .. n
      BY <1>1, <2>3
    <3>2. c[i] = w[i].callback /\ w[i] = u[i - m]
      BY <1>1, <1>3, <2>3
    <3>3. d[i] = l[i - m] /\ l[i - m] = u[i - m].callback
      BY <1>2, <1>5, <2>3, <3>1
    <3> QED BY <3>2, <3>3
  <2> QED BY <1>1, <2>2, <2>3
<1>7. c = d
  BY <1>3, <1>4, <1>6, SameSeq
<1> QED BY <1>7 DEF c, d, w, k, l

-----------------------------------------------------------------------------
(* The order of the source among the functions of a class.                 *)
LEMMA BeforeIs ==
    ASSUME program \in Programs
    PROVE  /\ \A f, g \in Linked : Before(f, g) => Of[f] = Of[g] /\ f # g /\ ~ Before(g, f)
           /\ \A f, g \in Linked : Of[f] = Of[g] /\ f # g => Before(f, g) \/ Before(g, f)
           /\ \A c \in Class : \A i, j \in DOMAIN Source(c) :
                i < j <=> Before(Source(c)[i], Source(c)[j])
<1>1. \A f \in Linked : Of[f] \in Class
  BY LinkedAre
<1>2. ASSUME NEW c \in Class
      PROVE  /\ \A i, j \in DOMAIN Source(c) : Source(c)[i] = Source(c)[j] => i = j
             /\ \A f \in Linked : Of[f] = c <=> \E i \in DOMAIN Source(c) : Source(c)[i] = f
             /\ \A i \in DOMAIN Source(c) : i \in Nat /\ Source(c)[i] \in Linked
  <2>1. /\ Source(c) \in Seq(Linked) /\ Once(Source(c))
        /\ In(Source(c)) = {g \in Linked : Of[g] = c}
    BY SourceOf
  <2>2. \A i \in DOMAIN Source(c) : i \in Nat
    BY <2>1
  <2> QED BY <2>1, <2>2 DEF In, Once
<1> HIDE DEF Source
<1>3. ASSUME NEW c \in Class, NEW i \in DOMAIN Source(c), NEW j \in DOMAIN Source(c)
      PROVE  i < j <=> Before(Source(c)[i], Source(c)[j])
  <2>1. Of[Source(c)[i]] = c
    BY <1>2, <1>3
  <2> QED BY <1>2, <1>3, <2>1 DEF Before
<1>4. ASSUME NEW f \in Linked, NEW g \in Linked, Of[f] = Of[g]
      PROVE  \E i, j \in DOMAIN Source(Of[f]) :
               /\ i \in Nat /\ j \in Nat /\ f = Source(Of[f])[i] /\ g = Source(Of[f])[j]
               /\ Before(f, g) <=> i < j
               /\ Before(g, f) <=> j < i
  <2> DEFINE c == Of[f]
  <2>1. c \in Class /\ Of[g] = c
    BY <1>1, <1>4
  <2> HIDE DEF c
  <2>2. PICK i \in DOMAIN Source(c) : Source(c)[i] = f
    BY <1>2, <2>1 DEF c
  <2>3. PICK j \in DOMAIN Source(c) : Source(c)[j] = g
    BY <1>2, <2>1
  <2>4. (Before(f, g) <=> i < j) /\ (Before(g, f) <=> j < i) /\ i \in Nat /\ j \in Nat
    BY <1>2, <1>3, <2>1, <2>2, <2>3
  <2> QED BY <2>2, <2>3, <2>4 DEF c
<1>5. ASSUME NEW f \in Linked, NEW g \in Linked, Before(f, g) PROVE Of[f] = Of[g]
  <2>1. PICK j \in DOMAIN Source(Of[f]) : Source(Of[f])[j] = g
    BY <1>5 DEF Before
  <2> QED BY <1>1, <1>2, <2>1
<1>6. ASSUME NEW f \in Linked, NEW g \in Linked, Before(f, g) PROVE f # g /\ ~ Before(g, f)
  <2>1. PICK i \in Nat, j \in Nat : /\ Before(f, g) <=> i < j
                                    /\ Before(g, f) <=> j < i
    BY <1>4, <1>5, <1>6
  <2>2. ~ Before(g, f)
    BY <1>6, <2>1
  <2> QED BY <1>6, <2>2
<1>7. ASSUME NEW f \in Linked, NEW g \in Linked, Of[f] = Of[g], f # g
      PROVE  Before(f, g) \/ Before(g, f)
  <2>1. PICK i \in DOMAIN Source(Of[f]), j \in DOMAIN Source(Of[f]) :
               /\ i \in Nat /\ j \in Nat /\ f = Source(Of[f])[i] /\ g = Source(Of[f])[j]
               /\ Before(f, g) <=> i < j
               /\ Before(g, f) <=> j < i
    BY <1>4, <1>7
  <2>2. i # j
    BY <1>7, <2>1
  <2> QED BY <2>1, <2>2
<1> QED BY <1>3, <1>5, <1>6, <1>7

(* Callbacks that bind precede one another only.                           *)
LEMMA PrecedesIs ==
    ASSUME program \in Programs, NEW E, E \subseteq Live \cup Statements
    PROVE  /\ \A x \in E : ~ Precedes(x, x)
           /\ \A x, y : Precedes(x, y) => x[1] = "bind" /\ y[1] = "bind" /\ Before(x[2], y[2])
<1>1. \A x \in E : x[1] = "bind" => x[2] \in Linked
  BY DEF Live, Statements
<1> QED BY <1>1, BeforeIs DEF Precedes

LEMMA OrderAppend ==
    ASSUME NEW E, NEW s \in Seq(E), NEW e \in E, InOrder(s), ~ Precedes(e, e),
           \A x \in In(s) : ~ Precedes(e, x)
    PROVE  InOrder(Append(s, e))
<1> DEFINE u == <<e>>
<1>1. u \in Seq(E) /\ In(u) = {e} /\ InOrder(u) /\ Append(s, e) = s \o u
  BY InNone, OrderNone
<1> HIDE DEF u
<1> QED BY <1>1, OrderConcat

(* What is in order after a step.                                          *)
Ordered == /\ InOrder(running') /\ InOrder(Callees(agenda'))
           /\ \A t \in Type : InOrder(awaiting'[t])

LEMMA AwaitOrders ==
    ASSUME NEW STATE L, awaiting \in [Type -> Seq(L)],
           NEW cb \in L, ~ Precedes(cb, cb), NEW types \in SUBSET Type,
           NEW STATE rest, rest \in Seq(Items(L)), Await(cb, types, rest),
           \A t \in Type : InOrder(awaiting[t]), InOrder(Callees(rest)),
           \A t \in Type : \A x \in In(awaiting[t]) : ~ Precedes(cb, x),
           \A i \in In(rest) : ~ Precedes(i.callback, cb)
    PROVE  InOrder(Callees(agenda')) /\ \A t \in Type : InOrder(awaiting'[t])
<1> DEFINE open == types \ registered
           item == [callback |-> cb, told |-> NoType]
           one == <<item>>
           none == <<>>
<1>1. /\ awaiting' = [t \in Type |-> IF t \in open THEN Append(awaiting[t], cb) ELSE awaiting[t]]
      /\ agenda' = (IF open = {} THEN one ELSE none) \o rest
  BY DEF Await
<1>2. /\ item \in Items(L) /\ one \in Seq(Items(L)) /\ none \in Seq(Items(L))
      /\ item.callback = cb
  BY DEF Items
<1>3. In(one) = {item} /\ In(none) = {} /\ one # <<>>
  BY InNone
<1>4. Callees(one) = <<cb>> /\ Callees(none) = <<>>
  BY DEF Callees
<1>5. InOrder(Callees(one)) /\ InOrder(Callees(none))
  BY <1>4, OrderNone
<1> HIDE DEF open, item, one, none
<1>6. ASSUME NEW first \in {one, none} PROVE InOrder(Callees(first \o rest))
  <2> DEFINE k == Callees(first)
             l == Callees(rest)
  <2>1. first \in Seq(Items(L))
    BY <1>2
  <2>2. /\ k \in Seq(L) /\ l \in Seq(L) /\ In(k) \subseteq {cb}
        /\ In(l) = {i.callback : i \in In(rest)}
    BY <1>2, <1>3, <2>1, CalleesSeq, CalleesOf
  <2>3. Callees(first \o rest) = k \o l
    BY <2>1, CalleesConcat
  <2>4. InOrder(k) /\ InOrder(l)
    BY <1>5
  <2> HIDE DEF k, l
  <2>5. InOrder(k \o l)
    BY <2>2, <2>4, OrderConcat
  <2> QED BY <2>3, <2>5
<1>7. ASSUME NEW t \in Type PROVE InOrder(awaiting'[t])
  <2>1. awaiting[t] \in Seq(L)
    OBVIOUS
  <2>2. InOrder(Append(awaiting[t], cb))
    BY <2>1, OrderAppend
  <2> QED BY <1>1, <2>2
<1>8. InOrder(Callees(agenda'))
  <2>1. agenda' = one \o rest \/ agenda' = none \o rest
    BY <1>1
  <2> QED BY <1>6, <2>1
<1> QED BY <1>7, <1>8

LEMMA RegisterOrders ==
    ASSUME NEW STATE L, awaiting \in [Type -> Seq(L)], NEW t \in Type,
           NEW STATE rest, rest \in Seq(Items(L)), Register(t, rest),
           \A u \in Type : InOrder(awaiting[u]), InOrder(Callees(rest)),
           \A x \in In(awaiting[t]) : \A i \in In(rest) : ~ Precedes(i.callback, x)
    PROVE  InOrder(Callees(agenda')) /\ \A u \in Type : InOrder(awaiting'[u])
<1> DEFINE s == awaiting[t]
           first == [i \in DOMAIN s |-> [callback |-> s[i], told |-> t]]
           k == Callees(first)
           l == Callees(rest)
<1>1. s \in Seq(L) /\ InOrder(s)
  OBVIOUS
<1>2. agenda' = first \o rest
  BY DEF Register
<1>3. awaiting' = [awaiting EXCEPT ![t] = <<>>]
  BY DEF Register
<1>4. ASSUME NEW u \in Type PROVE InOrder(awaiting'[u])
  <2> DEFINE none == <<>>
  <2>1. awaiting'[u] = IF u = t THEN none ELSE awaiting[u]
    BY <1>3
  <2>2. InOrder(none)
    BY OrderNone
  <2> HIDE DEF none
  <2> QED BY <2>1, <2>2
<1> HIDE DEF s
<1>5. DOMAIN s = 1 .. Len(s) /\ Len(s) \in Nat /\ \A i \in 1 .. Len(s) : s[i] \in L
  BY <1>1
<1>6. \A i \in 1 .. Len(s) : [callback |-> s[i], told |-> t] \in Items(L)
  BY <1>5 DEF Items
<1>7. first \in Seq(Items(L))
  BY <1>5, <1>6
<1>8. k = [i \in DOMAIN s |-> s[i]]
  BY DEF Callees
<1>9. k = s
  BY <1>1, <1>8
<1>10. l \in Seq(L) /\ In(l) = {i.callback : i \in In(rest)}
  BY CalleesSeq, CalleesOf
<1>11. Callees(first \o rest) = k \o l
  BY <1>7, CalleesConcat
<1> HIDE DEF first, k, l
<1>12. InOrder(s \o l)
  <2>1. \A x \in In(s) : \A y \in In(l) : ~ Precedes(y, x)
    BY <1>10 DEF s
  <2>2. InOrder(l)
    BY DEF l
  <2> QED BY <1>1, <1>10, <2>1, <2>2, OrderConcat
<1> QED BY <1>2, <1>4, <1>9, <1>11, <1>12

(* It is in order in the next state, if the order is that of the program.  *)
LEMMA OrderKept ==
    ASSUME OrderInv, program' = program, Ordered,
           \A f, g \in Linked : Before(f, g) =>
             /\ Said(<<"bind", g>>)' => Said(<<"bind", f>>)'
             /\ g \in bound' => f \in bound'
    PROVE  OrderInv'
<1>1. Linked' = Linked
  BY DEF Linked
<1>2. \A f, g : Before(f, g)' <=> Before(f, g)
  BY DEF Before, Source
<1>3. \A x, y : Precedes(x, y)' <=> Precedes(x, y)
  BY <1>2 DEF Precedes
<1>4. ASSUME NEW s PROVE InOrder(s)' <=> InOrder(s)
  BY <1>3 DEF InOrder
<1>5. \A s : InOrder(s)' <=> InOrder(s)
  BY <1>4
<1>6. InOrder(running)' /\ InOrder(Callees(agenda))' /\ \A t \in Type : InOrder(awaiting[t])'
  BY <1>3 DEF Ordered, InOrder, Callees
<1> QED BY <1>1, <1>2, <1>6 DEF OrderInv

(* The parts of a state that the steps need.                               *)
LEMMA OrderFacts ==
    ASSUME CallInv, OrderInv
    PROVE  /\ program \in Programs /\ running \in Seq(Statements)
           /\ awaiting \in [Type -> Seq(Live)] /\ agenda \in Seq(Items(Live))
           /\ bound \subseteq Linked /\ Live \subseteq Callbacks
           /\ InOrder(running) /\ InOrder(Callees(agenda))
           /\ \A t \in Type : InOrder(awaiting[t])
           /\ \A f, g \in Linked : Before(f, g) =>
                /\ Said(<<"bind", g>>) => Said(<<"bind", f>>)
                /\ g \in bound => f \in bound
           /\ \A x, y : Precedes(x, y) => x[1] = "bind" /\ y[1] = "bind" /\ Before(x[2], y[2])
           /\ \A x \in Live \cup Statements : ~ Precedes(x, x)
  BY LiveAre, PrecedesIs DEF CallInv, StartInv, AgendaInv, OrderInv

(* What remains to be called, after the first.                             *)
LEMMA RestOrders ==
    ASSUME CallInv, OrderInv, agenda # <<>>
    PROVE  /\ Tail(agenda) \in Seq(Items(Live)) /\ InOrder(Callees(Tail(agenda)))
           /\ \A i \in In(Tail(agenda)) : ~ Precedes(i.callback, Head(agenda).callback)
<1> DEFINE k == Callees(agenda)
           rest == Tail(agenda)
<1>1. k \in Seq(Live) /\ InOrder(k) /\ agenda \in Seq(Items(Live))
  BY OrderFacts, CalleesSeq
<1>2. rest \in Seq(Items(Live))
  BY <1>1
<1>3. k # <<>> /\ Head(k) = Head(agenda).callback /\ Callees(rest) = Tail(k)
  BY <1>1, CalleesOf
<1>4. In(Callees(rest)) = {i.callback : i \in In(rest)}
  BY <1>2, CalleesOf
<1> HIDE DEF k, rest
<1>5. InOrder(Tail(k)) /\ \A x \in In(Tail(k)) : ~ Precedes(x, Head(k))
  BY <1>1, <1>3, OrderTail
<1> QED BY <1>2, <1>3, <1>4, <1>5 DEF rest

LEMMA BlockOrders ==
    ASSUME CallInv, OrderInv, NEW b \in Type, StartBlock(b)
    PROVE  OrderInv'
<1>1. /\ running' = Block(b) /\ UNCHANGED <<program, awaiting, agenda, bound>>
  BY DEF StartBlock, deps
<1>2. \A x \in Callbacks : Said(x)' <=> Said(x)
  BY BlockTold
<1>3. \A f \in Linked : <<"bind", f>> \in Callbacks
  BY OrderFacts, LinkedAre DEF Callbacks
<1>4. InOrder(Block(b))
  <2>1. CASE b \notin Class
    <3> DEFINE x == <<"type", b>>
    <3>1. Block(b) = <<x>> /\ x \in Statements
      BY <2>1 DEF Block, Statements
    <3>2. ~ Precedes(x, x)
      BY <3>1, OrderFacts
    <3> HIDE DEF x
    <3> QED BY <3>1, <3>2, OrderNone
  <2>2. CASE b \in Class
    <3> DEFINE s == Source(b)
               own == <<"class", b>>
               call(f) == <<"bind", f>>
               others == [i \in DOMAIN s |-> call(s[i])]
               first == <<own>>
    <3>1. Block(b) = first \o others
      BY <2>2 DEF Block, Source
    <3>2. s \in Seq(Linked) /\ \A i, j \in DOMAIN s : Before(s[i], s[j]) => i < j
      BY <2>2, OrderFacts, SourceOf, BeforeIs
    <3>3. /\ \A f, g : Precedes(call(f), call(g)) => Before(f, g)
          /\ \A x : ~ Precedes(x, own)
          /\ own \in Statements /\ \A f \in Linked : call(f) \in Statements
      BY <2>2 DEF Precedes, Statements
    <3> HIDE DEF s, own, call
    <3>4. DOMAIN s = 1 .. Len(s) /\ Len(s) \in Nat /\ \A i \in DOMAIN s : s[i] \in Linked
      BY <3>2
    <3>5. others \in Seq(Statements)
      BY <3>3, <3>4
    <3>6. InOrder(others)
      BY <3>2, <3>3 DEF InOrder
    <3>7. first \in Seq(Statements) /\ In(first) = {own} /\ InOrder(first)
      BY <3>3, InNone, OrderNone
    <3> HIDE DEF first, others
    <3> QED BY <3>1, <3>3, <3>5, <3>6, <3>7, OrderConcat
  <2> QED BY <2>1, <2>2
<1>5. Ordered
  BY <1>1, <1>4, OrderFacts DEF Ordered
<1> QED BY <1>1, <1>2, <1>3, <1>5, OrderKept, OrderFacts

LEMMA EnumOrders ==
    ASSUME CallInv, OrderInv, RegisterEnum
    PROVE  OrderInv'
<1> DEFINE x == Head(running)
           none == <<>>
<1>1. /\ In(running) = {x} \cup In(running') /\ x \notin In(running')
      /\ x \in Statements /\ x[1] = "type"
      /\ UNCHANGED <<program, todo, bound>>
  BY StatementSteps DEF RegisterEnum
<1>2. Register(x[2], none) /\ running # <<>> /\ running' = Tail(running)
  BY DEF RegisterEnum, Statement
<1>3. In(none) = {} /\ none \in Seq(Items(Live)) /\ Callees(none) = none
  BY InNone DEF Callees
<1>4. InOrder(none)
  BY OrderNone
<1> HIDE DEF x, none
<1>5. x[2] \in Type
  BY <1>1 DEF Statements
<1>6. InOrder(Callees(agenda')) /\ \A t \in Type : InOrder(awaiting'[t])
  BY <1>2, <1>3, <1>4, <1>5, OrderFacts, RegisterOrders
<1>7. InOrder(running')
  BY <1>2, OrderFacts, OrderTail
<1>8. \A f : Said(<<"bind", f>>)' <=> Said(<<"bind", f>>)
  <2>1. \A f : <<"bind", f>> # x
    BY <1>1
  <2>2. \A f : <<"bind", f>> \in In(running') <=> <<"bind", f>> \in In(running)
    BY <1>1, <2>1
  <2> QED BY <1>1, <2>2 DEF Said, Linked
<1> QED BY <1>1, <1>6, <1>7, <1>8, OrderKept, OrderFacts DEF Ordered

(* The functions of a class are registered in the order of the source.     *)
LEMMA CallbackOrders ==
    ASSUME CallInv, OrderInv, RegisterClass \/ RegisterFunction
    PROVE  OrderInv'
<1> DEFINE cb == Head(running)
           none == <<>>
<1>1. AgendaInv /\ CallbacksInv /\ BlocksInv
  BY DEF CallInv, StartInv
<1>2. PICK kind \in {"class", "bind"} : Statement(kind)
  BY DEF RegisterClass, RegisterFunction
<1>3. /\ In(running) = {cb} \cup In(running') /\ cb \notin In(running')
      /\ cb \in Statements /\ cb[1] \in {"class", "bind"}
      /\ UNCHANGED <<program, todo, bound>>
  BY <1>2, StatementSteps
<1>4. Await(cb, Needs(cb), none) /\ running # <<>> /\ running' = Tail(running)
  BY DEF RegisterClass, RegisterFunction, Statement, Needs
<1>5. In(none) = {} /\ none \in Seq(Items(Live)) /\ Callees(none) = none
  BY InNone DEF Callees
<1>6. InOrder(none)
  BY OrderNone
<1>7. InOrder(running') /\ \A x \in In(running') : ~ Precedes(x, cb)
  BY <1>4, OrderFacts, OrderTail
<1> HIDE DEF cb, none
<1>8. cb \in Live /\ ~ Precedes(cb, cb)
  BY <1>3, OrderFacts DEF Statements, Live
<1>9. Needs(cb) \in SUBSET Type
  BY <1>8, OrderFacts, CallbackKinds
<1>10. ~ Said(cb)
  BY <1>3 DEF Said
<1>11. ASSUME NEW t \in Type, NEW x \in In(awaiting[t]), Precedes(cb, x) PROVE FALSE
  <2>1. x \in Live /\ CallbackOK(x) /\ Waits(x, t)
    BY <1>1, OrderFacts, InSeq DEF CallbacksInv, Waits
  <2>2. Said(x)
    BY <2>1 DEF CallbackOK, Pending
  <2>3. PICK f \in Linked, g \in Linked : x = <<"bind", g>> /\ cb = <<"bind", f>> /\ Before(f, g)
    <3>1. x[1] = "bind" /\ cb[1] = "bind" /\ Before(cb[2], x[2])
      BY <1>11, OrderFacts
    <3> QED BY <1>8, <2>1, <3>1 DEF Live
  <2> QED BY <1>10, <2>2, <2>3, OrderFacts
<1>12. InOrder(Callees(agenda')) /\ \A t \in Type : InOrder(awaiting'[t])
  BY <1>4, <1>5, <1>6, <1>8, <1>9, <1>11, OrderFacts, AwaitOrders
<1>13. ASSUME NEW f \in Linked
       PROVE  Said(<<"bind", f>>)' <=> Said(<<"bind", f>>) \/ <<"bind", f>> = cb
  <2> DEFINE x == <<"bind", f>>
  <2>1. x[1] = "bind" /\ x[2] = f
    OBVIOUS
  <2>2. x \in In(running') <=> x \in In(running) /\ x # cb
    BY <1>3
  <2>3. x = cb => Of[f] \notin todo
    BY <1>1, <1>3, <2>1 DEF BlocksInv
  <2> HIDE DEF x
  <2>4. Said(x)' <=> Of[f] \notin todo /\ x \notin In(running')
    BY <1>3, <2>1 DEF Said, Linked
  <2>5. Said(x) <=> Of[f] \notin todo /\ x \notin In(running)
    BY <2>1 DEF Said
  <2> QED BY <2>2, <2>3, <2>4, <2>5 DEF x
<1>14. ASSUME NEW f \in Linked, NEW g \in Linked, Before(f, g), Said(<<"bind", g>>)'
       PROVE  Said(<<"bind", f>>)'
  <2> DEFINE x == <<"bind", f>>
             y == <<"bind", g>>
  <2>1. CASE Said(y)
    BY <1>13, <1>14, <2>1, OrderFacts
  <2>2. CASE y = cb
    <3>1. Precedes(x, y) /\ x[1] = "bind" /\ x[2] = f
      BY <1>14 DEF Precedes
    <3>2. x \notin In(running')
      BY <1>7, <2>2, <3>1
    <3>3. Of[f] \notin todo
      <4>1. y[1] = "bind" /\ y[2] = g
        OBVIOUS
      <4>2. Of[g] \notin todo
        BY <1>1, <1>3, <2>2, <4>1 DEF BlocksInv
      <4>3. Of[f] = Of[g]
        BY <1>14, BeforeIs, OrderFacts
      <4> QED BY <4>2, <4>3
    <3> HIDE DEF x, y
    <3>4. Said(x)'
      BY <1>3, <3>1, <3>2, <3>3 DEF Said, Linked
    <3> QED BY <3>4 DEF x
  <2> QED BY <1>13, <1>14, <2>1, <2>2
<1>15. Ordered
  BY <1>7, <1>12 DEF Ordered
<1>16. \A f, g \in Linked : Before(f, g) => (g \in bound' => f \in bound')
  BY <1>3, OrderFacts
<1> QED BY <1>3, <1>14, <1>15, <1>16, OrderKept

LEMMA AgendaOrders ==
    ASSUME CallInv, OrderInv, agenda # <<>>, agenda' = Tail(agenda),
           UNCHANGED <<program, todo, running, awaiting, bound>>
    PROVE  OrderInv'
<1>1. Ordered
  BY RestOrders, OrderFacts DEF Ordered
<1>2. \A f : Said(<<"bind", f>>)' <=> Said(<<"bind", f>>)
  BY DEF Said, Linked
<1> QED BY <1>1, <1>2, OrderKept, OrderFacts

LEMMA ClassOrders ==
    ASSUME CallInv, OrderInv, NEW c \in Class, CompleteClass(c)
    PROVE  OrderInv'
<1> DEFINE cb == <<"class", c>>
           rest == Tail(agenda)
<1>1. AgendaInv /\ CallbacksInv
  BY DEF CallInv, StartInv
<1>2. /\ agenda # <<>> /\ Head(agenda).callback = cb
      /\ missing[cb] \subseteq {Head(agenda).told} /\ Register(c, rest)
      /\ UNCHANGED <<program, todo, running, bound>>
  BY DEF CompleteClass, Called
<1>3. cb \in Callbacks /\ cb[1] = "class" /\ cb[2] = c
  BY DEF Callbacks
<1>4. LastTold(cb, rest)
  BY <1>1, <1>2, <1>3, LastCall
<1>5. rest \in Seq(Items(Live)) /\ InOrder(Callees(rest))
  BY <1>2, RestOrders
<1> HIDE DEF cb, rest
<1>6. c \in Type /\ c \notin registered /\ NoType \notin Type
  BY <1>3, <1>4, HierarchyAssumption DEF LastTold, Pending, Over
<1>7. ASSUME NEW x \in In(awaiting[c]), NEW i \in In(rest), Precedes(i.callback, x)
      PROVE  FALSE
  <2> DEFINE y == i.callback
             t == i.told
  <2>1. i \in Items(Live)
    BY <1>5, InSeq
  <2>2. y \in Live /\ t \in Type \cup {NoType} /\ i = [callback |-> y, told |-> t]
    BY <2>1 DEF Items
  <2>3. y[1] = "bind" /\ x[1] = "bind" /\ Before(y[2], x[2])
    BY <1>7, OrderFacts
  <2> HIDE DEF y, t
  <2>4. x \in Live /\ Waits(x, c)
    BY <1>6, <1>7, OrderFacts, InSeq DEF Waits
  <2>5. CallbackOK(x) /\ CallbackOK(y)
    BY <1>1, <2>2, <2>4, OrderFacts DEF CallbacksInv
  <2>6. c \in Needs(x)
    BY <1>6, <2>4, <2>5 DEF CallbackOK
  <2>7. Needs(x) = {Of[x[2]]} /\ Needs(y) = {Of[y[2]]}
    BY <2>3 DEF Needs
  <2>8. Of[y[2]] = Of[x[2]]
    <3>1. x[2] \in Linked /\ y[2] \in Linked
      BY <2>2, <2>3, <2>4 DEF Live
    <3> QED BY <2>3, <3>1, BeforeIs, OrderFacts
  <2>9. Needs(y) = {c}
    BY <2>6, <2>7, <2>8
  <2>10. Told(y, t)
    <3>1. y # cb
      BY <1>3, <2>3
    <3> QED BY <1>4, <1>7, <2>2, <3>1 DEF LastTold
  <2>11. Pending(y)
    BY <2>2, <2>5, <2>10 DEF CallbackOK
  <2>12. missing[y] = {c}
    BY <1>6, <2>5, <2>9, <2>11 DEF CallbackOK
  <2> QED BY <1>6, <2>2, <2>5, <2>10, <2>12 DEF CallbackOK
<1>8. InOrder(Callees(agenda')) /\ \A t \in Type : InOrder(awaiting'[t])
  BY <1>2, <1>5, <1>6, <1>7, OrderFacts, RegisterOrders
<1>9. \A f : Said(<<"bind", f>>)' <=> Said(<<"bind", f>>)
  BY <1>2 DEF Said, Linked
<1> QED BY <1>2, <1>8, <1>9, OrderKept, OrderFacts DEF Ordered

(* The functions of a class are bound in the order of the source.          *)
LEMMA BoundOrders ==
    ASSUME CallInv, OrderInv, NEW f \in Fn, Bind(f)
    PROVE  OrderInv' /\ f \in Linked \ bound /\ \A g \in Linked : Before(g, f) => g \in bound
<1> DEFINE cb == <<"bind", f>>
           next == <<"resolve", f>>
           rest == Tail(agenda)
           L == Live \cup {next}
<1>1. AgendaInv /\ CallbacksInv
  BY DEF CallInv, StartInv
<1>2. /\ agenda # <<>> /\ Head(agenda).callback = cb
      /\ missing[cb] \subseteq {Head(agenda).told}
      /\ bound' = bound \cup {f} /\ Await(next, RawArgTypes(f), rest)
      /\ UNCHANGED <<program, todo, running, registered>>
  BY DEF Bind, Called
<1>3. cb \in Callbacks /\ cb[1] = "bind" /\ cb[2] = f /\ next[1] = "resolve"
  BY DEF Callbacks
<1>4. LastTold(cb, rest)
  BY <1>1, <1>2, <1>3, LastCall
<1>5. /\ rest \in Seq(Items(Live)) /\ InOrder(Callees(rest))
      /\ \A i \in In(rest) : ~ Precedes(i.callback, cb)
  BY <1>2, RestOrders
<1>6. f \in Linked \ bound /\ Of[f] \in registered /\ Said(cb)
  <2>1. f \in Linked
    BY <1>1, FunctionBound
  <2> QED BY <1>3, <1>4, <2>1 DEF LastTold, Pending, Over, Needs
<1> HIDE DEF cb, next, rest, L
<1>7. ASSUME NEW g \in Linked, Before(g, f), g \notin bound PROVE FALSE
  <2> DEFINE x == <<"bind", g>>
  <2>1. x \in Callbacks /\ x[1] = "bind" /\ x[2] = g
    BY OrderFacts, LinkedAre DEF Callbacks
  <2>2. Said(x)
    BY <1>6, <1>7, OrderFacts DEF cb
  <2> HIDE DEF x
  <2>3. Pending(x) /\ Needs(x) = {Of[g]} /\ CallbackOK(x)
    BY <1>1, <1>7, <2>1, <2>2 DEF Pending, Over, Needs, CallbacksInv
  <2>4. Of[g] = Of[f]
    BY <1>6, <1>7, BeforeIs, OrderFacts
  <2>5. missing[x] \subseteq registered /\ missing[x] \subseteq Type
    <3>1. Needs(x) \subseteq Type
      BY <2>1, CallbackKinds
    <3> QED BY <1>6, <2>3, <2>4, <3>1 DEF CallbackOK
  <2>6. PICK t : Told(x, t)
    BY <2>3, <2>5 DEF CallbackOK
  <2>7. x # cb
    BY <1>6, <1>7, <2>1, <1>3, BeforeIs, OrderFacts
  <2>8. [callback |-> x, told |-> t] \in In(rest)
    BY <1>4, <2>6, <2>7 DEF LastTold
  <2>9. Precedes(x, cb)
    BY <1>3, <1>7, <2>1 DEF Precedes
  <2> QED BY <1>5, <2>8, <2>9
<1>8. Live \subseteq L /\ next \in L
  BY DEF L
<1>9. awaiting \in [Type -> Seq(L)]
  <2>1. \A t \in Type : awaiting[t] \in Seq(L)
    BY <1>8, OrderFacts, SeqWider
  <2> QED BY <2>1, OrderFacts
<1>10. rest \in Seq(Items(L))
  <2>1. Items(Live) \subseteq Items(L)
    BY <1>8 DEF Items
  <2> QED BY <1>5, <2>1, SeqWider
<1>11. RawArgTypes(f) \in SUBSET Type
  BY InSeq, FnAssumption DEF RawArgTypes
<1>12. \A x : ~ Precedes(next, x) /\ ~ Precedes(x, next)
  BY <1>3, OrderFacts
<1>13. InOrder(Callees(agenda')) /\ \A t \in Type : InOrder(awaiting'[t])
  BY <1>2, <1>5, <1>8, <1>9, <1>10, <1>11, <1>12, OrderFacts, AwaitOrders
<1>14. \A g : Said(<<"bind", g>>)' <=> Said(<<"bind", g>>)
  BY <1>2 DEF Said, Linked
<1>15. Ordered
  BY <1>2, <1>13, OrderFacts DEF Ordered
<1>16. OrderInv'
  BY <1>2, <1>7, <1>14, <1>15, OrderKept, OrderFacts
<1> QED BY <1>6, <1>7, <1>16

LEMMA OrderInit == StartInit => OrderInv
<1> SUFFICES ASSUME StartInit PROVE OrderInv
  OBVIOUS
<1> DEFINE none == <<>>
<1>1. /\ todo = Type \ Absent /\ running = none /\ agenda = none
      /\ awaiting = [t \in Type |-> none] /\ bound = {}
  BY DEF StartInit
<1>2. InOrder(none) /\ Callees(none) = none
  BY OrderNone DEF Callees
<1>3. \A f \in Linked : Of[f] \in Class
  BY LinkedAre DEF StartInit
<1>4. Class \subseteq todo
  BY <1>1, HierarchyAssumption
<1> HIDE DEF none
<1>5. \A f \in Linked : ~ Said(<<"bind", f>>)
  BY <1>3, <1>4 DEF Said
<1> QED BY <1>1, <1>2, <1>5 DEF OrderInv

LEMMA OrderSteps ==
    ASSUME CallInv, OrderInv, [StartNext]_startVars
    PROVE  OrderInv'
<1>1. ASSUME NEW f \in Fn, BindFirst(f) \/ BindNewArity(f) \/ BindOverload(f) \/ BindCtor(f)
      PROVE  OrderInv'
  BY <1>1, BoundOrders DEF BindFirst, BindNewArity, BindOverload, BindCtor
<1>2. ASSUME NEW f \in Fn, ResolvePlain(f) \/ ResolveOverload(f) \/ ResolveCtor(f)
      PROVE  OrderInv'
  <2>1. Resolve(f)
    BY <1>2 DEF ResolvePlain, ResolveOverload, ResolveCtor
  <2>2. /\ agenda # <<>> /\ agenda' = Tail(agenda)
        /\ UNCHANGED <<program, todo, running, awaiting, bound>>
    BY <2>1 DEF Resolve, Called
  <2> QED BY <2>2, AgendaOrders
<1>3. ASSUME CountType PROVE OrderInv'
  <2>1. /\ agenda # <<>> /\ agenda' = Tail(agenda)
        /\ UNCHANGED <<program, todo, running, awaiting, bound>>
    BY <1>3 DEF CountType
  <2> QED BY <2>1, AgendaOrders
<1>4. ASSUME UNCHANGED startVars PROVE OrderInv'
  <2>1. UNCHANGED <<program, todo, running, awaiting, agenda, bound>>
    BY <1>4 DEF startVars, deps
  <2>2. \A f : Said(<<"bind", f>>)' <=> Said(<<"bind", f>>)
    BY <2>1 DEF Said, Linked
  <2>3. Ordered
    BY <2>1, OrderFacts DEF Ordered
  <2> QED BY <2>1, <2>2, <2>3, OrderKept, OrderFacts
<1> QED BY <1>1, <1>2, <1>3, <1>4, BlockOrders, EnumOrders, CallbackOrders, ClassOrders
        DEF StartNext

(* The functions of a class are registered, told and bound in the order in *)
(* which its source lists them.                                            *)
THEOREM BoundInOrder == StartSpec => [](CallInv /\ OrderInv)
<1>1. OrderInv /\ CallInv /\ CallInv' /\ [StartNext]_startVars => OrderInv'
  BY OrderSteps
<1> QED BY CallbacksWait, OrderInit, <1>1, PTL DEF StartSpec

-----------------------------------------------------------------------------
(* The keys of the constructors of a class are apart, in whatever state of *)
(* their resolution.                                                       *)
LEMMA KeysApart ==
    ASSUME program \in Programs, NEW c \in Class,
           NEW f \in In(program.ctors[c]), NEW g \in In(program.ctors[c]), f # g
    PROVE  Key(f) # Key(g) /\ Params[f] # Params[g]
<1>1. PICK i \in DOMAIN program.ctors[c], j \in DOMAIN program.ctors[c] :
        f = program.ctors[c][i] /\ g = program.ctors[c][j]
  BY DEF In
<1>2. Key(f) # Key(g)
  BY <1>1, ProgramsAssumption
<1> QED BY <1>2 DEF Key

(* A function whose types are registered: only classes have the same name  *)
(* after as before.                                                        *)
LEMMA KeyAndParams ==
    ASSUME NEW f \in Fn, NEW g \in Fn, Resolvable(f), Key(f) = Params[g]
    PROVE  Params[f] = Params[g]
<1>1. Params[f] \in Seq(Type) /\ Params[g] \in Seq(Type)
  BY FnAssumption
<1>2. DOMAIN Params[f] = DOMAIN Params[g] /\ \A i \in DOMAIN Params[f] : JsType[Params[f][i]] = Params[g][i]
  BY DEF Key
<1>3. ASSUME NEW i \in DOMAIN Params[f] PROVE Params[f][i] = Params[g][i]
  <2>1. Params[f][i] \in Type \ Absent /\ Params[g][i] \in Type
    BY <1>1, <1>2 DEF Resolvable, RawArgTypes, In
  <2> QED BY <1>2, <2>1, JsTypeAssumption
<1>4. /\ Params[f] = [i \in DOMAIN Params[f] |-> Params[f][i]]
      /\ Params[g] = [i \in DOMAIN Params[g] |-> Params[g][i]]
  BY <1>1
<1> QED BY <1>2, <1>3, <1>4

LEMMA ArraysApart ==
    ASSUME program \in Programs, NEW c \in Class,
           NEW f \in In(program.ctors[c]), NEW g \in In(program.ctors[c]), f # g,
           \A h \in resolved : Resolvable(h)
    PROVE  SignatureArray(f) # SignatureArray(g)
<1>1. f \in Fn /\ g \in Fn
  BY LinkedAre, InSeq DEF Linked
<1> QED BY <1>1, KeysApart, KeyAndParams DEF SignatureArray

(* What is resolved has its types.                                         *)
LEMMA ResolvedAre ==
    ASSUME CallInv
    PROVE  \A h \in resolved : Resolvable(h)
<1>1. /\ AgendaInv /\ CallbacksInv /\ registered \cap Absent = {}
  BY DEF CallInv, StartInv, BlocksInv
<1>2. resolved \subseteq Fn
  BY <1>1, LinkedAre DEF AgendaInv
<1>3. ASSUME NEW h \in resolved PROVE Resolvable(h)
  <2> DEFINE cb == <<"resolve", h>>
  <2>1. cb \in Callbacks /\ cb[1] = "resolve" /\ cb[2] = h
    BY <1>2 DEF Callbacks
  <2> HIDE DEF cb
  <2>2. Needs(cb) = RawArgTypes(h) /\ Needs(cb) \subseteq registered
    BY <1>1, <2>1 DEF Needs, CallbacksInv, CallbackOK, Over
  <2> QED BY <1>1, <2>2 DEF Resolvable
<1> QED BY <1>3

(* The constructors of a class are those of its functions that are no      *)
(* methods.                                                                *)
LEMMA CtorsAre ==
    ASSUME program \in Programs, NEW f \in Linked
    PROVE  /\ Of[f] \in Class /\ Len(Params[f]) \in Arities
           /\ \A c \in Class : f \in In(program.ctors[c]) <=> c = Of[f] /\ ~ IsMember(f)
<1>1. Of[f] \in Class /\ Len(Params[f]) \in Arities
  BY LinkedAre
<1>2. ASSUME NEW c \in Class
      PROVE  /\ f \in In(program.ctors[c]) \cup In(program.methods[c]) <=> c = Of[f]
             /\ ~ (f \in In(program.ctors[c]) /\ f \in In(program.methods[c]))
  <2>1. /\ program.ctors[c] \in Seq(Linked) /\ program.methods[c] \in Seq(Linked)
        /\ In(Source(c)) = {g \in Linked : Of[g] = c}
        /\ In(program.ctors[c]) \cap In(program.methods[c]) = {}
    BY LinkedAre, SourceOf
  <2>2. In(Source(c)) = In(program.ctors[c]) \cup In(program.methods[c])
    BY <2>1, InConcat DEF Source
  <2> QED BY <2>1, <2>2
<1> QED BY <1>1, <1>2 DEF IsMember

(* What a body has to be in the next state.                                *)
BodyNext(body, fns) ==
    /\ body = [func |-> body.func, signatures |-> body.signatures, order |-> body.order]
    /\ body.order \in Seq(Fn) /\ In(body.order) = fns /\ Once(body.order)
    /\ \A i, j \in DOMAIN body.order : i < j => Before(body.order[i], body.order[j])
    /\ DOMAIN body.signatures = {SignatureArray(f)' : f \in fns}
    /\ \A f \in fns : body.signatures[SignatureArray(f)'] = Present(f)'
    /\ \/ \E f \in fns : body.order = <<f>> /\ body.func = Present(f)'
       \/ Len(body.order) > 1 /\ body.func = NoEntry

LEMMA BodyThen ==
    ASSUME NEW c \in Class, NEW n \in Arities, program' = program,
           NEW fns, fns = BoundCtors(c, n)', NEW body, body = ctor'[c][n],
           n \in DOMAIN ctor'[c] <=> fns # {},
           n \in DOMAIN ctor'[c] => BodyNext(body, fns)
    PROVE  BodyOK(c, n)'
<1>1. \A f, g : Before(f, g)' <=> Before(f, g)
  BY DEF Before, Source
<1>2. BodyNext(body, fns) => BodyOf(body, fns)'
  BY <1>1 DEF BodyNext, BodyOf
<1>3. BodyOf(body, fns)' => BodyOf(ctor[c][n], BoundCtors(c, n))'
  BY DEF BodyOf
<1> QED BY <1>2, <1>3 DEF BodyOK

(* The body of a class and an arity that a step leaves alone.              *)
LEMMA BodyKept ==
    ASSUME NEW c \in Class, NEW n \in Arities, program' = program, BodyOK(c, n),
           BoundCtors(c, n)' = BoundCtors(c, n),
           \A f \in BoundCtors(c, n) : f \in resolved' <=> f \in resolved,
           n \in DOMAIN ctor'[c] <=> n \in DOMAIN ctor[c],
           n \in DOMAIN ctor[c] => ctor'[c][n] = ctor[c][n]
    PROVE  BodyOK(c, n)'
<1>1. PICK fns : fns = BoundCtors(c, n)
  OBVIOUS
<1>2. PICK body : body = ctor[c][n]
  OBVIOUS
<1>3. PICK next : next = ctor'[c][n]
  OBVIOUS
<1>4. \A f \in fns : SignatureArray(f)' = SignatureArray(f) /\ Present(f)' = Present(f)
  BY <1>1 DEF SignatureArray, Present
<1>5. {SignatureArray(f)' : f \in fns} = {SignatureArray(f) : f \in fns}
  BY <1>4
<1>6. ASSUME n \in DOMAIN ctor[c] PROVE BodyNext(next, fns)
  <2>1. BodyOf(body, fns) /\ next = body
    BY <1>1, <1>2, <1>3, <1>6 DEF BodyOK
  <2> QED BY <1>4, <1>5, <2>1 DEF BodyOf, BodyNext
<1>7. (n \in DOMAIN ctor[c] <=> fns # {}) /\ fns = BoundCtors(c, n)'
  BY <1>1 DEF BodyOK
<1> QED BY <1>3, <1>6, <1>7, BodyThen

(* Steps about methods, and about no function, leave all bodies alone.     *)
LEMMA CtorsSame ==
    ASSUME program \in Programs, bound \subseteq Linked, CtorsInv,
           program' = program, ctor' = ctor, bound' \subseteq Linked,
           \A f \in Linked : IsMember(f) \/ /\ f \in bound' <=> f \in bound
                                            /\ f \in resolved' <=> f \in resolved
    PROVE  CtorsInv'
<1>1. ASSUME NEW c \in Class, NEW n \in Arities PROVE BodyOK(c, n)'
  <2>1. \A f \in In(program.ctors[c]) : f \in Linked => ~ IsMember(f)
    BY CtorsAre
  <2>2. BoundCtors(c, n)' = BoundCtors(c, n)
    BY <2>1 DEF BoundCtors
  <2>3. \A f \in BoundCtors(c, n) : f \in resolved' <=> f \in resolved
    BY <2>1 DEF BoundCtors
  <2> QED BY <2>2, <2>3, BodyKept DEF CtorsInv
<1> QED BY <1>1 DEF CtorsInv

(* The bodies of other classes and arities than those of a constructor.    *)
LEMMA OtherBodies ==
    ASSUME CallInv, CtorsInv, program' = program, NEW f \in Linked,
           NEW c \in Class, NEW n \in Arities, c # Of[f] \/ n # Len(Params[f]),
           \A g : g # f => /\ g \in bound' <=> g \in bound
                           /\ g \in resolved' <=> g \in resolved,
           ctor'[c] = ctor[c] \/ /\ n \in DOMAIN ctor'[c] <=> n \in DOMAIN ctor[c]
                                 /\ ctor'[c][n] = ctor[c][n]
    PROVE  BodyOK(c, n)'
<1>1. f \notin In(program.ctors[c]) \/ Len(Params[f]) # n
  BY CtorsAre DEF CallInv, StartInv, AgendaInv
<1>2. BoundCtors(c, n)' = BoundCtors(c, n)
  BY <1>1 DEF BoundCtors
<1>3. \A g \in BoundCtors(c, n) : g \in resolved' <=> g \in resolved
  BY <1>1 DEF BoundCtors
<1> QED BY <1>2, <1>3, BodyKept DEF CtorsInv

LEMMA CtorBoundInOrder ==
    ASSUME CallInv, OrderInv, CtorsInv, NEW f \in Fn, BindCtor(f)
    PROVE  CtorsInv'
<1> DEFINE c == Of[f]
           n == Len(Params[f])
           old == ctor[c][n]
           first == [func |-> Stub(f), signatures |-> With(<<>>, Params[f], Stub(f)),
                     order |-> <<f>>]
           more == [func |-> NoEntry, signatures |-> With(old.signatures, Params[f], Stub(f)),
                    order |-> Append(old.order, f)]
<1>1. Bind(f) /\ ~ IsMember(f)
  BY DEF BindCtor
<1>2. /\ f \in Linked \ bound /\ program' = program
      /\ bound' = bound \cup {f} /\ resolved' = resolved
  BY <1>1, BoundOrders, FunctionBound DEF CallInv, StartInv
<1>3. /\ program \in Programs /\ bound \subseteq Linked /\ resolved \subseteq bound
      /\ DOMAIN ctor = Class
      /\ \A h \in resolved : Resolvable(h)
  BY ResolvedAre DEF CallInv, StartInv, AgendaInv, BodiesInv
<1>4. /\ c \in Class /\ n \in Arities
      /\ \A d \in Class : f \in In(program.ctors[d]) <=> d = c
  BY <1>1, <1>2, <1>3, CtorsAre
<1>5. ctor' = [ctor EXCEPT ![c] = With(ctor[c], n,
                 IF n \notin DOMAIN ctor[c] THEN first ELSE more)]
  BY DEF BindCtor
<1>6. /\ \A d \in Class \ {c} : ctor'[d] = ctor[d]
      /\ DOMAIN ctor'[c] = DOMAIN ctor[c] \cup {n}
      /\ \A k \in DOMAIN ctor[c] \ {n} : ctor'[c][k] = ctor[c][k]
      /\ ctor'[c][n] = IF n \notin DOMAIN ctor[c] THEN first ELSE more
  <2> HIDE DEF first, more, c, n
  <2> QED BY <1>3, <1>4, <1>5 DEF With
<1>7. \A g : g # f => /\ g \in bound' <=> g \in bound
                      /\ g \in resolved' <=> g \in resolved
  BY <1>2
<1>8. ASSUME NEW d \in Class, NEW m \in Arities, d # c \/ m # n PROVE BodyOK(d, m)'
  <2>1. ctor'[d] = ctor[d] \/ (m \in DOMAIN ctor'[d] <=> m \in DOMAIN ctor[d])
    BY <1>6, <1>8
  <2>2. CASE m \in DOMAIN ctor[d] \/ d # c
    <3>1. ctor'[d] = ctor[d] \/ /\ m \in DOMAIN ctor'[d] <=> m \in DOMAIN ctor[d]
                                /\ ctor'[d][m] = ctor[d][m]
      BY <1>6, <1>8, <2>2
    <3> QED BY <1>2, <1>7, <1>8, <3>1, OtherBodies
  <2>3. CASE m \notin DOMAIN ctor[d] /\ d = c
    <3>1. m \notin DOMAIN ctor'[d]
      BY <1>6, <1>8, <2>3
    <3>2. f \notin In(program.ctors[d]) \/ Len(Params[f]) # m
      BY <1>8, <2>3
    <3>3. BoundCtors(d, m)' = BoundCtors(d, m)
      BY <1>2, <3>2 DEF BoundCtors
    <3>4. \A g \in BoundCtors(d, m) : g \in resolved' <=> g \in resolved
      BY <1>2
    <3> QED BY <1>2, <2>3, <3>1, <3>3, <3>4, BodyKept DEF CtorsInv
  <2> QED BY <2>2, <2>3
<1>9. BodyOK(c, n)'
  <2>1. PICK F : F = BoundCtors(c, n)
    OBVIOUS
  <2>2. F \cup {f} = BoundCtors(c, n)' /\ f \notin F
    BY <1>2, <1>4, <2>1 DEF BoundCtors
  <2>3. f \notin resolved'
    BY <1>2, <1>3
  <2>4. SignatureArray(f)' = Params[f] /\ Present(f)' = Stub(f)
    BY <2>3 DEF SignatureArray, Present
  <2>5. \A g : SignatureArray(g)' = SignatureArray(g) /\ Present(g)' = Present(g)
    BY <1>2 DEF SignatureArray, Present
  <2>6. ASSUME NEW g \in F
        PROVE  SignatureArray(g) # Params[f] /\ Before(g, f) /\ g \in Fn
    <3>1. g \in In(program.ctors[c]) /\ g \in bound /\ f \in In(program.ctors[c]) /\ g # f
      BY <1>4, <2>1, <2>2 DEF BoundCtors
    <3>2. SignatureArray(g) # SignatureArray(f)
      BY <1>3, <1>4, <3>1, ArraysApart
    <3>3. SignatureArray(f) = Params[f]
      BY <2>4, <2>5
    <3>4. g \in Linked /\ Of[g] = Of[f] /\ g \in Fn
      BY <1>3, <1>4, <3>1, CtorsAre, LinkedAre
    <3>5. Before(g, f) \/ Before(f, g)
      BY <1>2, <1>3, <3>1, <3>4, BeforeIs
    <3>6. ~ Before(f, g)
      BY <1>2, <3>1, <3>4, OrderFacts
    <3> QED BY <3>2, <3>3, <3>4, <3>5, <3>6
  <2>7. CASE n \notin DOMAIN ctor[c]
    <3>1. F = {}
      BY <1>4, <2>1, <2>7 DEF CtorsInv, BodyOK
    <3>2. PICK body : body = first
      OBVIOUS
    <3>3. /\ body.order = <<f>> /\ body.func = Stub(f)
          /\ body = [func |-> body.func, signatures |-> body.signatures, order |-> body.order]
      BY <3>2
    <3>4. DOMAIN body.signatures = {Params[f]} /\ body.signatures[Params[f]] = Stub(f)
      <4> DEFINE none == <<>>
      <4>1. body.signatures = With(none, Params[f], Stub(f)) /\ DOMAIN none = {}
        BY <3>2
      <4> HIDE DEF none
      <4> QED BY <4>1 DEF With
    <3>5. /\ body.order \in Seq(Fn) /\ In(body.order) = {f} /\ Once(body.order)
          /\ DOMAIN body.order = 1 .. 1
      BY <3>3, InNone
    <3>6. \A i, j \in DOMAIN body.order : i < j => FALSE
      BY <3>5
    <3>7. BodyNext(body, {f})
      BY <2>4, <3>3, <3>4, <3>5, <3>6 DEF BodyNext
    <3>8. PICK fns : fns = {f}
      OBVIOUS
    <3>9. /\ fns = BoundCtors(c, n)' /\ fns # {} /\ BodyNext(body, fns)
          /\ n \in DOMAIN ctor'[c] /\ body = ctor'[c][n]
      BY <1>6, <2>2, <2>7, <3>1, <3>2, <3>7, <3>8
    <3> HIDE DEF c, n, first
    <3> QED BY <1>2, <1>4, <3>9, BodyThen
  <2>8. CASE n \in DOMAIN ctor[c]
    <3>1. BodyOf(old, F)
      BY <1>4, <2>1, <2>8 DEF CtorsInv, BodyOK
    <3>2. PICK body : body = more
      OBVIOUS
    <3> DEFINE s == old.order
               m == Len(s)
               u == Append(s, f)
    <3>3. /\ body.order = u /\ body.func = NoEntry
          /\ body.signatures = With(old.signatures, Params[f], Stub(f))
          /\ body = [func |-> body.func, signatures |-> body.signatures, order |-> body.order]
      BY <3>2
    <3>4. /\ s \in Seq(Fn) /\ In(s) = F /\ Once(s)
          /\ \A i, j \in DOMAIN s : i < j => Before(s[i], s[j])
      BY <3>1 DEF BodyOf
    <3>5. m > 0
      <4>1. CASE \E g \in F : s = <<g>>
        <5>1. PICK g \in F : s = <<g>>
          BY <4>1
        <5> QED BY <5>1
      <4>2. (\E g \in F : s = <<g>>) \/ m > 1
        BY <3>1 DEF BodyOf
      <4>3. m > 1 => m > 0
        <5> HIDE DEF s
        <5>1. m \in Nat
          BY <3>4
        <5> QED BY <5>1
      <4> QED BY <4>1, <4>2, <4>3
    <3> HIDE DEF s
    <3>6. /\ m \in Nat /\ DOMAIN s = 1 .. m /\ u \in Seq(Fn) /\ DOMAIN u = 1 .. m + 1
          /\ Len(u) = m + 1 /\ u[m + 1] = f /\ \A i \in 1 .. m : u[i] = s[i]
      BY <3>4
    <3>7. In(u) = F \cup {f} /\ Once(u)
      BY <2>2, <3>4, InAppend, OnceAppend
    <3> HIDE DEF m, u
    <3>8. ASSUME NEW i \in DOMAIN u, NEW j \in DOMAIN u, i < j PROVE Before(u[i], u[j])
      <4>1. i \in 1 .. m
        BY <3>6, <3>8
      <4>2. CASE j \in 1 .. m
        BY <3>4, <3>6, <3>8, <4>1, <4>2
      <4>3. CASE j = m + 1
        <5>1. s[i] \in F
          BY <3>4, <3>6, <4>1 DEF In
        <5> QED BY <2>6, <3>6, <4>1, <4>3, <5>1
      <4> QED BY <3>6, <3>8, <4>2, <4>3
    <3>9. /\ DOMAIN body.signatures = {SignatureArray(g)' : g \in F \cup {f}}
          /\ \A g \in F \cup {f} : body.signatures[SignatureArray(g)'] = Present(g)'
      <4>1. /\ DOMAIN old.signatures = {SignatureArray(g) : g \in F}
            /\ \A g \in F : old.signatures[SignatureArray(g)] = Present(g)
        BY <3>1 DEF BodyOf
      <4>2. /\ DOMAIN body.signatures = {SignatureArray(g) : g \in F} \cup {Params[f]}
            /\ body.signatures[Params[f]] = Stub(f)
            /\ \A g \in F : body.signatures[SignatureArray(g)] = Present(g)
        BY <2>6, <3>3, <4>1 DEF With
      <4> QED BY <2>4, <2>5, <4>2
    <3>10. BodyNext(body, F \cup {f})
      BY <3>3, <3>5, <3>6, <3>7, <3>8, <3>9 DEF BodyNext
    <3>11. PICK fns : fns = F \cup {f}
      OBVIOUS
    <3>12. /\ fns = BoundCtors(c, n)' /\ fns # {} /\ BodyNext(body, fns)
           /\ n \in DOMAIN ctor'[c] /\ body = ctor'[c][n]
      BY <1>6, <2>2, <2>8, <3>2, <3>10, <3>11
    <3> HIDE DEF c, n, more
    <3> QED BY <1>2, <1>4, <3>12, BodyThen
  <2> QED BY <2>7, <2>8
<1> HIDE DEF c, n
<1> QED BY <1>8, <1>9 DEF CtorsInv

LEMMA CtorResolvedInPlace ==
    ASSUME CallInv, CtorsInv, NEW f \in Fn, ResolveCtor(f)
    PROVE  CtorsInv'
<1> DEFINE c == Of[f]
           n == Len(Params[f])
           cb == <<"resolve", f>>
           old == ctor[c][n]
           new == [func |-> IF old.func = NoEntry THEN NoEntry ELSE Invoker(f),
                   signatures |-> Resolved(old.signatures, f), order |-> old.order]
<1>1. Resolve(f) /\ ~ IsMember(f)
  BY DEF ResolveCtor
<1>2. /\ f \in bound /\ program' = program /\ bound' = bound /\ resolved' = resolved \cup {f}
  BY <1>1, FunctionResolved DEF CallInv, StartInv
<1>3. /\ program \in Programs /\ bound \subseteq Linked /\ DOMAIN ctor = Class
      /\ registered \cap Absent = {}
      /\ \A h \in resolved : Resolvable(h)
  BY ResolvedAre DEF CallInv, StartInv, AgendaInv, BodiesInv, BlocksInv
<1>4. f \notin resolved /\ Resolvable(f)
  <2>1. cb \in Callbacks /\ cb[1] = "resolve" /\ cb[2] = f
    BY DEF Callbacks
  <2>2. /\ agenda # <<>> /\ Head(agenda).callback = cb
        /\ missing[cb] \subseteq {Head(agenda).told}
    BY <1>1 DEF Resolve, Called
  <2> HIDE DEF cb
  <2>3. LastTold(cb, Tail(agenda))
    BY <2>1, <2>2, LastCall DEF CallInv, StartInv
  <2>4. Pending(cb) /\ Needs(cb) \subseteq registered
    BY <2>3 DEF LastTold
  <2> QED BY <1>3, <2>1, <2>4 DEF Pending, Over, Needs, Resolvable
<1>5. /\ c \in Class /\ n \in Arities
      /\ \A d \in Class : f \in In(program.ctors[d]) <=> d = c
  BY <1>1, <1>2, <1>3, CtorsAre
<1>6. ctor' = [ctor EXCEPT ![c] = [ctor[c] EXCEPT ![n] = new]]
  BY DEF ResolveCtor
<1>7. /\ \A d \in Class \ {c} : ctor'[d] = ctor[d]
      /\ DOMAIN ctor'[c] = DOMAIN ctor[c]
      /\ \A k \in DOMAIN ctor[c] \ {n} : ctor'[c][k] = ctor[c][k]
      /\ n \in DOMAIN ctor[c] => ctor'[c][n] = new
  <2> HIDE DEF new, c, n
  <2> QED BY <1>3, <1>5, <1>6
<1>8. ASSUME NEW d \in Class, NEW m \in Arities, d # c \/ m # n PROVE BodyOK(d, m)'
  <2>1. \A g : g # f => /\ g \in bound' <=> g \in bound
                        /\ g \in resolved' <=> g \in resolved
    BY <1>2
  <2>2. CASE m \in DOMAIN ctor[d] \/ d # c
    <3>1. ctor'[d] = ctor[d] \/ /\ m \in DOMAIN ctor'[d] <=> m \in DOMAIN ctor[d]
                                /\ ctor'[d][m] = ctor[d][m]
      BY <1>7, <1>8, <2>2
    <3> QED BY <1>2, <1>3, <1>8, <2>1, <3>1, OtherBodies
  <2>3. CASE m \notin DOMAIN ctor[d] /\ d = c
    <3>1. m \notin DOMAIN ctor'[d]
      BY <1>7, <2>3
    <3>2. f \notin In(program.ctors[d]) \/ Len(Params[f]) # m
      BY <1>8, <2>3
    <3>3. BoundCtors(d, m)' = BoundCtors(d, m)
      BY <1>2 DEF BoundCtors
    <3>4. \A g \in BoundCtors(d, m) : g \in resolved' <=> g \in resolved
      BY <1>2, <3>2 DEF BoundCtors
    <3> QED BY <1>2, <2>3, <3>1, <3>3, <3>4, BodyKept DEF CtorsInv
  <2> QED BY <2>2, <2>3
<1>9. BodyOK(c, n)'
  <2>1. PICK F : F = BoundCtors(c, n)
    OBVIOUS
  <2>2. F = BoundCtors(c, n)' /\ f \in F
    BY <1>2, <1>5, <2>1 DEF BoundCtors
  <2>3. n \in DOMAIN ctor[c] /\ BodyOf(old, F)
    BY <1>5, <2>1, <2>2 DEF CtorsInv, BodyOK
  <2>4. /\ SignatureArray(f)' = Key(f) /\ Present(f)' = Invoker(f)
        /\ SignatureArray(f) = Params[f] /\ Present(f) = Stub(f)
    BY <1>2, <1>4 DEF SignatureArray, Present
  <2>5. \A g : g # f => SignatureArray(g)' = SignatureArray(g) /\ Present(g)' = Present(g)
    BY <1>2 DEF SignatureArray, Present
  <2>6. ASSUME NEW g \in F, g # f
        PROVE  SignatureArray(g) # Params[f] /\ SignatureArray(g) # Key(f)
    <3>1. g \in In(program.ctors[c]) /\ f \in In(program.ctors[c])
      BY <1>5, <2>1 DEF BoundCtors
    <3>2. SignatureArray(g) # SignatureArray(f)
      BY <1>3, <1>5, <2>6, <3>1, ArraysApart
    <3>3. Key(f) # Key(g) /\ Params[f] # Params[g]
      BY <1>3, <1>5, <2>6, <3>1, KeysApart
    <3>4. g \in Fn
      BY <1>3, <2>1, LinkedAre DEF BoundCtors
    <3>5. Key(f) # Params[g]
      BY <1>4, <3>3, <3>4, KeyAndParams
    <3> QED BY <2>4, <3>2, <3>3, <3>5 DEF SignatureArray
  <2>7. PICK body : body = new
    OBVIOUS
  <2>8. /\ body.order = old.order /\ body.signatures = Resolved(old.signatures, f)
        /\ body.func = IF old.func = NoEntry THEN NoEntry ELSE Invoker(f)
        /\ body = [func |-> body.func, signatures |-> body.signatures, order |-> body.order]
    BY <2>7
  <2> HIDE DEF old
  <2>9. /\ DOMAIN body.signatures = {SignatureArray(g)' : g \in F}
        /\ \A g \in F : body.signatures[SignatureArray(g)'] = Present(g)'
    <3> DEFINE map == old.signatures
               rest == Without(map, Params[f])
    <3>1. /\ DOMAIN map = {SignatureArray(g) : g \in F}
          /\ \A g \in F : map[SignatureArray(g)] = Present(g)
      BY <2>3 DEF BodyOf
    <3> HIDE DEF map
    <3>2. /\ DOMAIN rest = {SignatureArray(g) : g \in F \ {f}}
          /\ \A g \in F \ {f} : rest[SignatureArray(g)] = Present(g)
      BY <2>4, <2>6, <3>1 DEF Without
    <3>3. body.signatures = With(rest, Key(f), Invoker(f))
      BY <2>8 DEF Resolved, map
    <3> HIDE DEF rest
    <3>4. /\ DOMAIN body.signatures = {SignatureArray(g) : g \in F \ {f}} \cup {Key(f)}
          /\ body.signatures[Key(f)] = Invoker(f)
          /\ \A g \in F \ {f} : body.signatures[SignatureArray(g)] = Present(g)
      BY <2>6, <3>2, <3>3 DEF With
    <3> QED BY <2>2, <2>4, <2>5, <3>4
  <2>10. \/ \E g \in F : body.order = <<g>> /\ body.func = Present(g)'
         \/ Len(body.order) > 1 /\ body.func = NoEntry
    <3>1. ASSUME NEW g \in F, old.order = <<g>>, old.func = Present(g)
          PROVE  body.order = <<f>> /\ body.func = Present(f)'
      <4>1. In(old.order) = F /\ In(<<g>>) = {g}
        BY <2>3, InNone DEF BodyOf
      <4>2. f = g
        BY <2>2, <3>1, <4>1
      <4>3. Stub(f) # NoEntry
        BY FnAssumption DEF Stub, NoEntry
      <4> QED BY <2>4, <2>8, <3>1, <4>2, <4>3
    <3>2. \/ \E g \in F : old.order = <<g>> /\ old.func = Present(g)
          \/ Len(old.order) > 1 /\ old.func = NoEntry
      BY <2>3 DEF BodyOf
    <3> QED BY <2>2, <2>8, <3>1, <3>2
  <2>11. /\ body.order \in Seq(Fn) /\ In(body.order) = F /\ Once(body.order)
         /\ \A i, j \in DOMAIN body.order : i < j => Before(body.order[i], body.order[j])
    BY <2>3, <2>8 DEF BodyOf
  <2>12. BodyNext(body, F)
    BY <2>8, <2>9, <2>10, <2>11 DEF BodyNext
  <2>13. F # {} /\ n \in DOMAIN ctor'[c] /\ body = ctor'[c][n]
    BY <1>7, <2>2, <2>3, <2>7
  <2> HIDE DEF c, n, new
  <2> QED BY <1>2, <1>5, <2>2, <2>12, <2>13, BodyThen
<1> HIDE DEF c, n
<1> QED BY <1>8, <1>9 DEF CtorsInv

LEMMA CtorsInit == StartInit => CtorsInv
<1> SUFFICES ASSUME StartInit PROVE CtorsInv
  OBVIOUS
<1> DEFINE none == <<>>
<1>1. ctor = [c \in Class |-> none] /\ bound = {} /\ DOMAIN none = {}
  BY DEF StartInit
<1> HIDE DEF none
<1> QED BY <1>1 DEF CtorsInv, BodyOK, BoundCtors

LEMMA CtorsSteps ==
    ASSUME CallInv, OrderInv, CtorsInv, [StartNext]_startVars
    PROVE  CtorsInv'
<1>1. /\ program \in Programs /\ bound \subseteq Linked /\ StartInv
  BY DEF CallInv, StartInv, AgendaInv
<1>2. ASSUME program' = program, ctor' = ctor,
             \/ UNCHANGED <<bound, resolved>>
             \/ \E f \in Linked : /\ IsMember(f) /\ bound' \subseteq bound \cup {f}
                                  /\ resolved' \subseteq resolved \cup {f}
                                  /\ bound \subseteq bound' /\ resolved \subseteq resolved'
      PROVE  CtorsInv'
  <2>1. bound' \subseteq Linked
    BY <1>1, <1>2
  <2>2. \A f \in Linked : IsMember(f) \/ /\ f \in bound' <=> f \in bound
                                         /\ f \in resolved' <=> f \in resolved
    BY <1>2
  <2> QED BY <1>1, <1>2, <2>1, <2>2, CtorsSame
<1>3. ASSUME NEW f \in Fn, BindFirst(f) \/ BindNewArity(f) \/ BindOverload(f)
      PROVE  CtorsInv'
  <2>1. Bind(f) /\ IsMember(f) /\ ctor' = ctor
    BY <1>3 DEF BindFirst, BindNewArity, BindOverload
  <2>2. f \in Linked /\ program' = program /\ bound' = bound \cup {f} /\ resolved' = resolved
    BY <1>1, <2>1, FunctionBound DEF StartInv
  <2> QED BY <1>2, <2>1, <2>2
<1>4. ASSUME NEW f \in Fn, ResolvePlain(f) \/ ResolveOverload(f)
      PROVE  CtorsInv'
  <2>1. Resolve(f) /\ IsMember(f) /\ ctor' = ctor
    BY <1>4 DEF ResolvePlain, ResolveOverload
  <2>2. f \in bound /\ program' = program /\ bound' = bound /\ resolved' = resolved \cup {f}
    BY <1>1, <2>1, FunctionResolved DEF StartInv
  <2> QED BY <1>1, <1>2, <2>1, <2>2
<1>5. ASSUME \/ \E b \in Type : StartBlock(b)
             \/ RegisterEnum \/ RegisterClass \/ RegisterFunction \/ CountType
             \/ \E c \in Class : CompleteClass(c)
             \/ UNCHANGED startVars
      PROVE  CtorsInv'
  <2>1. UNCHANGED <<program, bound, resolved, ctor>>
    BY <1>5 DEF StartBlock, RegisterEnum, RegisterClass, RegisterFunction, Statement,
                CountType, CompleteClass, Called, startVars
  <2> QED BY <1>2, <2>1
<1> QED BY <1>3, <1>4, <1>5, CtorBoundInOrder, CtorResolvedInPlace DEF StartNext

(* While a module starts, each constructor body lists the constructors of  *)
(* its class and arity that are bound, in the order of the source, each    *)
(* once and under the key that its signature array has then.               *)
THEOREM BodiesInOrder == StartSpec => []CtorsInv
<1>1. CtorsInv /\ (CallInv /\ OrderInv) /\ [StartNext]_startVars => CtorsInv'
  BY CtorsSteps
<1> QED BY BoundInOrder, CtorsInit, <1>1, PTL DEF StartSpec

-----------------------------------------------------------------------------
(* The first of a set of numbers.                                          *)
LEMMA FirstOf ==
    ASSUME NEW A \in SUBSET Nat, A # {}
    PROVE  \E i \in A : \A j \in A : i <= j
<1>1. PICK a \in A : TRUE
  OBVIOUS
<1> DEFINE B == {j \in 1 .. a + 1 : a + 1 - j \in A}
<1>2. a \in Nat /\ a + 1 \in Nat /\ B \in SUBSET (1 .. a + 1)
  OBVIOUS
<1>3. 1 \in B
  <2>1. a + 1 - 1 = a /\ 1 \in 1 .. a + 1
    BY <1>2
  <2> QED BY <1>1, <2>1
<1>4. \A i \in A : i <= a => a + 1 - i \in B
  <2>1. TAKE i \in A
  <2>2. HAVE i <= a
  <2>3. a + 1 - i \in 1 .. a + 1 /\ a + 1 - (a + 1 - i) = i
    BY <1>2, <2>2
  <2> QED BY <2>3
<1> HIDE DEF B
<1>5. PICK last \in B : \A j \in B : j <= last
  BY <1>2, <1>3, LastOf
<1>6. a + 1 - last \in A /\ last \in 1 .. a + 1
  BY <1>5 DEF B
<1>7. \A j \in A : a + 1 - last <= j
  <2>1. TAKE j \in A
  <2>2. CASE j <= a
    <3>1. a + 1 - j <= last
      BY <1>4, <1>5, <2>2
    <3> QED BY <1>2, <1>6, <3>1
  <2>3. CASE ~ (j <= a)
    BY <1>2, <1>6, <2>3
  <2> QED BY <2>2, <2>3
<1> QED BY <1>6, <1>7

(* What cannot be called is not an answer.                                 *)
LEMMA NoAnswer ==
    /\ \A x \in Failures : Answer(x) = {}
    /\ \A f \in Fn : Answer(f) = {f}
  BY FnAssumption DEF Answer

-----------------------------------------------------------------------------
(* EmbindOverloads: methods.  The overloads that a class has, bound so far. *)
Offered(c, n) == {f \in bound : f \in Visible(c) /\ Len(Params[f]) = n}
Clean(c) == In(Line[c]) \cap early = {}

(* A dispatcher holds them in the order of the source, and under each key  *)
(* the last one that has this key.  The stub of a function that waits for  *)
(* ever may be gone: an override that is resolved takes their key away.    *)
LastOfSignature(f, fns) == \A g \in fns : SignatureArray(g) = SignatureArray(f) => ~ Comes(f, g)
DispatcherOf(d, fns) ==
    /\ d.order \in Seq(Fn) /\ In(d.order) = fns /\ Once(d.order)
    /\ \A i, j \in DOMAIN d.order : i < j => Comes(d.order[i], d.order[j])
    /\ DOMAIN d.signatures \subseteq {SignatureArray(f) : f \in fns}
    /\ \A f \in fns : LastOfSignature(f, fns) =>
         /\ f \in resolved => SignatureArray(f) \in DOMAIN d.signatures
         /\ SignatureArray(f) \in DOMAIN d.signatures =>
              d.signatures[SignatureArray(f)] = Present(f)

(* The slot of an arity is a lone function of it, or a dispatcher.         *)
SlotOf(slot, n, fns) ==
    \/ slot.owner = NoClass /\ \E f \in fns : fns = {f} /\ slot.entry = Present(f)
    \/ slot.owner # NoClass /\ DispatcherOf(dispatcher[<<slot.owner, n>>], fns)
MethodsOK(c, n) ==
    /\ n \in DOMAIN table[c] <=> Offered(c, n) # {}
    /\ n \in DOMAIN table[c] => SlotOf(table[c][n], n, Offered(c, n))

(* A class that got its table when all it inherits was in place has what   *)
(* it should have, from then on.                                           *)
InPlaceInv ==
    \A c \in Class \ early : table[c] # <<>> => \A f \in Inherited(c) : InPlace(f)
MethodsInv ==
    \A c \in Class : Clean(c) /\ table[c] # <<>> => \A n \in Arities : MethodsOK(c, n)

(* The order of the source, along a line.                                  *)
LEMMA LinePrefix ==
    ASSUME NEW k \in Class, NEW x \in DOMAIN Line[k], NEW y \in DOMAIN Line[k], x <= y
    PROVE  Line[k][x] \in In(Line[Line[k][y]])
<1> DEFINE OK(c) == \A i, j \in DOMAIN Line[c] :
                      i <= j => Line[c][i] \in In(Line[Line[c][j]])
           S == {c \in Class : ~ OK(c)}
<1>1. SUFFICES ASSUME S # {} PROVE FALSE
  OBVIOUS
<1>2. PICK c \in S : Parent[c] \notin S
  BY <1>1, AcyclicAssumption
<1>3. Line[c] = IF Parent[c] = NoClass THEN <<c>> ELSE Append(Line[Parent[c]], c)
  BY LineOf
<1>4. CASE Parent[c] = NoClass
  <2>1. DOMAIN <<c>> = {1} /\ <<c>>[1] = c
    OBVIOUS
  <2>2. c \in In(Line[c])
    BY LineInClass
  <2>3. OK(c)
    BY <1>3, <1>4, <2>1, <2>2
  <2> QED BY <1>2, <2>3
<1>5. CASE Parent[c] # NoClass
  <2> DEFINE s == Line[Parent[c]]
             n == Len(s)
             u == Append(s, c)
  <2>1. Parent[c] \in Class /\ OK(Parent[c]) /\ s \in Seq(Class) /\ Line[c] = u
    BY <1>2, <1>3, <1>5, HierarchyAssumption, LineMembers
  <2>2. \A i, j \in DOMAIN s : i <= j => s[i] \in In(Line[s[j]])
    BY <2>1
  <2> HIDE DEF s
  <2>3. /\ n \in Nat /\ DOMAIN s = 1 .. n /\ DOMAIN u = 1 .. n + 1 /\ u[n + 1] = c
        /\ \A i \in 1 .. n : u[i] = s[i]
    BY <2>1
  <2> HIDE DEF n, u
  <2>4. ASSUME NEW i \in DOMAIN u, NEW j \in DOMAIN u, i <= j
        PROVE  u[i] \in In(Line[u[j]])
    <3>1. CASE j = n + 1
      <4>1. u[i] \in In(u)
        BY DEF In
      <4> QED BY <2>1, <2>3, <3>1, <4>1
    <3>2. CASE j # n + 1
      <4>1. i \in 1 .. n /\ j \in 1 .. n
        BY <2>3, <2>4, <3>2
      <4> QED BY <2>2, <2>3, <2>4, <4>1
    <3> QED BY <3>1, <3>2
  <2>5. OK(c)
    BY <2>1, <2>4
  <2> QED BY <1>2, <2>5
<1> QED BY <1>4, <1>5

(* Of two classes of a line one is a base of the other.                    *)
LEMMA LineTotal ==
    ASSUME NEW c \in Class, NEW a \in In(Line[c]), NEW b \in In(Line[c])
    PROVE  a \in In(Line[b]) \/ b \in In(Line[a])
<1>1. PICK i \in DOMAIN Line[c], j \in DOMAIN Line[c] : a = Line[c][i] /\ b = Line[c][j]
  BY DEF In
<1>2. i <= j \/ j <= i
  <2>1. Line[c] \in Seq(Class)
    BY LineMembers
  <2>2. DOMAIN Line[c] \subseteq Nat
    BY <2>1
  <2> QED BY <2>2
<1> QED BY <1>1, <1>2, LinePrefix

(* But not both of each other.                                             *)
LEMMA LineAntisymmetric ==
    ASSUME NEW a \in Class, NEW b \in In(Line[a]), a \in In(Line[b])
    PROVE  a = b
<1> DEFINE S == {c \in Class : \E d \in In(Line[c]) : d # c /\ c \in In(Line[d])}
<1>1. SUFFICES ASSUME a # b PROVE FALSE
  OBVIOUS
<1>2. PICK c \in S : Parent[c] \notin S
  BY <1>1, AcyclicAssumption
<1>3. PICK d \in In(Line[c]) : d # c /\ c \in In(Line[d])
  BY <1>2
<1>4. /\ In(Line[c]) = {c} \union IF Parent[c] = NoClass THEN {} ELSE In(Line[Parent[c]])
      /\ d \in Class
  BY LineMembers, LineInClass
<1>5. Parent[c] # NoClass /\ d \in In(Line[Parent[c]])
  BY <1>3, <1>4
<1>6. Parent[c] \in Class /\ Parent[c] \in In(Line[Parent[c]])
  BY <1>5, HierarchyAssumption, LineInClass
<1>7. Parent[c] \in In(Line[c])
  BY <1>4, <1>5, <1>6
<1>8. In(Line[c]) \subseteq In(Line[d]) /\ In(Line[d]) \subseteq In(Line[Parent[c]])
  BY <1>3, <1>4, <1>5, <1>6, LineTransitive
<1>9. c # Parent[c] => Parent[c] \in S
  BY <1>3, <1>6, <1>7, <1>8
<1> QED BY <1>2, <1>9

(* No table of the line is between the class that the look-up ends at and  *)
(* the one that it starts from.                                            *)
LEMMA HolderLast ==
    ASSUME NEW t, NEW c \in Class, NEW d \in In(Line[c]), t[d] # <<>>
    PROVE  Holder(t, c) # NoClass /\ d \in In(Line[Holder(t, c)])
<1> DEFINE n == Len(Line[c])
           up == {i \in DOMAIN Line[c] : t[Line[c][i]] # <<>>}
           top == CHOOSE i \in up : \A j \in up : j <= i
<1>1. Line[c] \in Seq(Class)
  BY LineMembers
<1>2. n \in Nat /\ DOMAIN Line[c] = 1 .. n /\ \A i \in 1 .. n : Line[c][i] \in Class
  BY <1>1
<1>3. PICK x \in DOMAIN Line[c] : d = Line[c][x]
  BY DEF In
<1>4. x \in up /\ up \in SUBSET (1 .. n)
  BY <1>2, <1>3
<1>5. Holder(t, c) = Line[c][top]
  BY <1>4 DEF Holder
<1>6. top \in up /\ \A j \in up : j <= top
  <2> HIDE DEF up
  <2>1. \E i \in up : \A j \in up : j <= i
    BY <1>2, <1>4, LastOf
  <2> QED BY <2>1
<1>7. top \in DOMAIN Line[c] /\ x <= top
  BY <1>4, <1>6
<1> HIDE DEF top, up
<1> QED BY <1>2, <1>3, <1>5, <1>7, LinePrefix, HierarchyAssumption

(* Any two functions that a class has are in an order, and only in one.    *)
Chain(fns) == \A f, g \in fns : /\ Comes(f, g) => ~ Comes(g, f)
                                /\ f # g => Comes(f, g) \/ Comes(g, f)

LEMMA ComesOnce ==
    ASSUME program \in Programs, NEW f \in Linked, NEW g \in Linked, Comes(f, g)
    PROVE  f # g /\ ~ Comes(g, f)
<1>1. Of[f] \in Class /\ Of[g] \in Class
  BY LinkedAre
<1>2. CASE Before(f, g)
  BY <1>2, BeforeIs DEF Comes
<1>3. CASE Of[f] \in In(Line[Of[g]]) \ {Of[g]}
  <2>1. ~ (Of[g] \in In(Line[Of[f]]))
    BY <1>1, <1>3, LineAntisymmetric
  <2> QED BY <1>3, <2>1, BeforeIs DEF Comes
<1> QED BY <1>2, <1>3 DEF Comes

LEMMA VisibleChain ==
    ASSUME program \in Programs, NEW c \in Class,
           NEW fns, \A f \in fns : f \in Linked /\ Of[f] \in In(Line[c])
    PROVE  Chain(fns)
<1>1. ASSUME NEW f \in fns, NEW g \in fns, f # g PROVE Comes(f, g) \/ Comes(g, f)
  <2>1. CASE Of[f] = Of[g]
    BY <1>1, <2>1, BeforeIs DEF Comes
  <2>2. CASE Of[f] # Of[g]
    BY <2>2, LineTotal DEF Comes
  <2> QED BY <2>1, <2>2
<1> QED BY <1>1, ComesOnce DEF Chain

-----------------------------------------------------------------------------
(* What is chosen of them.                                                 *)
LEMMA ChosenIs ==
    ASSUME NEW fns, Chain(fns), NEW args
    PROVE  LET fit == {f \in fns : Fits(Text(f), args)}
           IN  /\ fit = {} => Chosen(fns, args) = {}
               /\ \A f \in fit : (\A g \in fit : ~ Comes(g, f)) =>
                    \A k \in fns : /\ Text(k) = Text(f)
                                   /\ \A g \in fns : Text(g) = Text(f) => ~ Comes(k, g)
                                   => Chosen(fns, args) = {g \in {k} : Resolvable(g)}
<1> DEFINE fit == {f \in fns : Fits(Text(f), args)}
           first == CHOOSE f \in fit : \A g \in fit : ~ Comes(g, f)
           same == {f \in fns : Text(f) = Text(first)}
           end == {f \in same : Resolvable(f) /\ \A g \in same : ~ Comes(f, g)}
<1>1. Chosen(fns, args) = IF fit = {} THEN {} ELSE end
  BY DEF Chosen
<1>2. ASSUME NEW f \in fit, \A g \in fit : ~ Comes(g, f),
             NEW k \in fns, Text(k) = Text(f),
             \A g \in fns : Text(g) = Text(f) => ~ Comes(k, g)
      PROVE  Chosen(fns, args) = {g \in {k} : Resolvable(g)}
  <2>1. first \in fit /\ \A g \in fit : ~ Comes(g, first)
    <3> HIDE DEF fit
    <3> QED BY <1>2
  <2>2. f \in fns /\ first \in fns
    BY <1>2, <2>1
  <2> HIDE DEF first
  <2>3. first = f
    BY <1>2, <2>1, <2>2 DEF Chain
  <2>4. same = {g \in fns : Text(g) = Text(f)}
    BY <2>3
  <2> HIDE DEF same
  <2>5. k \in same /\ \A g \in same : ~ Comes(k, g)
    BY <1>2, <2>4
  <2>6. \A g \in end : g = k
    <3> SUFFICES ASSUME NEW g \in end, g # k PROVE FALSE
      OBVIOUS
    <3>1. g \in fns /\ Text(g) = Text(f) /\ ~ Comes(g, k)
      BY <2>4, <2>5
    <3>2. ~ Comes(k, g)
      BY <1>2, <3>1
    <3> QED BY <1>2, <3>1, <3>2 DEF Chain
  <2>7. k \in end <=> Resolvable(k)
    BY <2>5
  <2> HIDE DEF fit, end
  <2>8. end = {g \in {k} : Resolvable(g)}
    BY <2>6, <2>7
  <2> QED BY <1>1, <1>2, <2>8
<1> HIDE DEF end
<1>3. fit = {} => Chosen(fns, args) = {}
  BY <1>1
<1> QED BY <1>2, <1>3

(* The functions of one arity that a started module has, and the arguments *)
(* of a call.                                                              *)
Settled(fns) ==
    /\ Chain(fns) /\ fns \subseteq Fn
    /\ \A f \in fns : f \in resolved <=> Resolvable(f)

LEMMA PresentIs ==
    ASSUME NEW f \in Fn
    PROVE  /\ Present(f).fn = f /\ (Present(f).bound <=> f \in resolved)
           /\ Present(f) # NoEntry
           /\ Outcome(Present(f)) = IF f \in resolved THEN f ELSE "unbound types"
<1>1. Present(f).fn = f /\ (Present(f).bound <=> f \in resolved)
  BY DEF Present, Invoker, Stub
<1>2. NoEntry.fn = NoFn
  BY DEF NoEntry
<1> QED BY <1>1, <1>2, FnAssumption DEF Outcome

(* A lone function converts its arguments, or throws.                      *)
LEMMA DirectAnswers ==
    ASSUME NEW f \in Fn, NEW args, f \in resolved <=> Resolvable(f)
    PROVE  Answer(Direct(Present(f), args)) = {g \in {f} : Resolvable(g) /\ Converts(g, args)}
<1>1. CASE Resolvable(f) /\ Converts(f, args)
  <2>1. Direct(Present(f), args) = f
    BY <1>1, PresentIs DEF Direct
  <2>2. {g \in {f} : Resolvable(g) /\ Converts(g, args)} = {f}
    BY <1>1
  <2> QED BY <2>1, <2>2, NoAnswer
<1>2. CASE ~ (Resolvable(f) /\ Converts(f, args))
  <2>1. Direct(Present(f), args) \in Failures
    BY <1>2, PresentIs DEF Direct, Failures
  <2>2. {g \in {f} : Resolvable(g) /\ Converts(g, args)} = {}
    BY <1>2
  <2> QED BY <2>1, <2>2, NoAnswer
<1> QED BY <1>1, <1>2

(* In an order by which any two functions come at one place each.          *)
LEMMA OrderOf ==
    ASSUME NEW fns, Chain(fns), NEW s \in Seq(Fn), In(s) = fns,
           \A i, j \in DOMAIN s : i < j => Comes(s[i], s[j])
    PROVE  /\ \A i \in DOMAIN s : i \in Nat /\ s[i] \in fns
           /\ \A i, j \in DOMAIN s : i <= j => ~ Comes(s[j], s[i])
<1>1. \A i \in DOMAIN s : i \in Nat /\ s[i] \in fns
  BY DEF In
<1>2. ASSUME NEW i \in DOMAIN s, NEW j \in DOMAIN s, i <= j PROVE ~ Comes(s[j], s[i])
  <2>1. CASE i = j
    BY <1>1, <2>1 DEF Chain
  <2>2. CASE i < j
    BY <1>1, <2>2 DEF Chain
  <2> QED BY <1>1, <1>2, <2>1, <2>2
<1> QED BY <1>1, <1>2

(* There is a last one with the key of another.                            *)
LEMMA LastExists ==
    ASSUME NEW d, NEW fns, Chain(fns), DispatcherOf(d, fns), NEW f \in fns
    PROVE  \E k \in fns : SignatureArray(k) = SignatureArray(f) /\ LastOfSignature(k, fns)
<1> DEFINE s == d.order
           A == {i \in DOMAIN s : SignatureArray(s[i]) = SignatureArray(f)}
<1>1. /\ s \in Seq(Fn) /\ In(s) = fns
      /\ \A i, j \in DOMAIN s : i < j => Comes(s[i], s[j])
  BY DEF DispatcherOf
<1> HIDE DEF s
<1>2. /\ \A i \in DOMAIN s : i \in Nat /\ s[i] \in fns
      /\ \A i, j \in DOMAIN s : i <= j => ~ Comes(s[j], s[i])
  BY <1>1, OrderOf
<1>3. Len(s) \in Nat /\ A \in SUBSET (1 .. Len(s))
  BY <1>1
<1>4. A # {}
  BY <1>1 DEF In
<1>5. PICK m \in A : \A i \in A : i <= m
  BY <1>3, <1>4, LastOf
<1>6. ASSUME NEW g \in fns, SignatureArray(g) = SignatureArray(s[m])
      PROVE  ~ Comes(s[m], g)
  <2>1. PICK i \in DOMAIN s : s[i] = g
    BY <1>1 DEF In
  <2>2. i \in A /\ m \in DOMAIN s
    BY <1>5, <1>6, <2>1
  <2> QED BY <1>2, <1>5, <2>1, <2>2
<1> QED BY <1>2, <1>5, <1>6 DEF LastOfSignature

(* A dispatcher calls the function that is chosen.                         *)
LEMMA SelectAnswers ==
    ASSUME NEW d, NEW fns, NEW args, Settled(fns), DispatcherOf(d, fns)
    PROVE  Answer(Select(d, args)) = Chosen(fns, args)
<1> DEFINE s == d.order
           sel == {i \in DOMAIN s : Fits(SignatureArray(s[i]), args)}
           p == CHOOSE i \in sel : \A j \in sel : i <= j
           key == SignatureArray(s[p])
           fit == {f \in fns : Fits(Text(f), args)}
           result == Select(d, args)
<1>1. result = IF sel = {} \/ key \notin DOMAIN d.signatures THEN "invalid signature"
               ELSE Outcome(d.signatures[key])
  BY DEF Select
<1>2. /\ s \in Seq(Fn) /\ In(s) = fns
      /\ \A i, j \in DOMAIN s : i < j => Comes(s[i], s[j])
      /\ \A f \in fns : LastOfSignature(f, fns) =>
           /\ f \in resolved => SignatureArray(f) \in DOMAIN d.signatures
           /\ SignatureArray(f) \in DOMAIN d.signatures =>
                d.signatures[SignatureArray(f)] = Present(f)
  BY DEF DispatcherOf
<1>3. /\ Chain(fns) /\ fns \subseteq Fn
      /\ \A f \in fns : f \in resolved <=> Resolvable(f)
  BY DEF Settled
<1> HIDE DEF s
<1>4. /\ \A i \in DOMAIN s : i \in Nat /\ s[i] \in fns
      /\ \A i, j \in DOMAIN s : i <= j => ~ Comes(s[j], s[i])
  BY <1>2, <1>3, OrderOf
<1>5. \A f \in fns : SignatureArray(f) = Text(f)
  BY <1>3 DEF SignatureArray, Text
<1>6. sel = {i \in DOMAIN s : s[i] \in fit}
  BY <1>4, <1>5
<1>7. \A g \in fit : \E i \in sel : s[i] = g
  BY <1>2, <1>6 DEF In
<1>8. /\ fit = {} => Chosen(fns, args) = {}
      /\ \A f \in fit : (\A g \in fit : ~ Comes(g, f)) =>
           \A k \in fns : /\ Text(k) = Text(f)
                          /\ \A g \in fns : Text(g) = Text(f) => ~ Comes(k, g)
                          => Chosen(fns, args) = {g \in {k} : Resolvable(g)}
  BY <1>3, ChosenIs
<1> HIDE DEF result
<1>9. CASE sel = {}
  <2>1. fit = {}
    BY <1>7, <1>9
  <2>2. result \in Failures
    BY <1>1, <1>9 DEF Failures
  <2> QED BY <1>8, <2>1, <2>2, NoAnswer DEF result
<1>10. CASE sel # {}
  <2>1. p \in sel /\ \A j \in sel : p <= j
    <3>1. sel \in SUBSET Nat
      BY <1>4
    <3> HIDE DEF sel
    <3> QED BY <1>10, <3>1, FirstOf
  <2> HIDE DEF p
  <2> DEFINE f == s[p]
  <2>2. f \in fit /\ f \in fns /\ key = Text(f)
    BY <1>5, <1>6, <2>1
  <2>3. \A g \in fit : ~ Comes(g, f)
    <3>1. TAKE g \in fit
    <3>2. PICK i \in sel : s[i] = g
      BY <1>7
    <3>3. i \in DOMAIN s /\ p \in DOMAIN s /\ p <= i
      BY <2>1, <3>2
    <3> QED BY <1>4, <3>2, <3>3
  <2>4. PICK k \in fns : SignatureArray(k) = SignatureArray(f) /\ LastOfSignature(k, fns)
    BY <1>3, <2>2, LastExists
  <2>5. Text(k) = Text(f) /\ key = SignatureArray(k)
    BY <1>5, <2>2, <2>4
  <2>6. \A g \in fns : Text(g) = Text(f) => ~ Comes(k, g)
    BY <1>5, <2>4, <2>5 DEF LastOfSignature
  <2>7. Chosen(fns, args) = {g \in {k} : Resolvable(g)}
    <3> HIDE DEF f, fit
    <3> QED BY <1>8, <2>2, <2>3, <2>5, <2>6
  <2>8. k \in Fn /\ (k \in resolved <=> Resolvable(k))
    BY <1>3
  <2>9. CASE Resolvable(k)
    <3>1. key \in DOMAIN d.signatures /\ d.signatures[key] = Present(k)
      BY <1>2, <2>4, <2>5, <2>8, <2>9
    <3>2. result = k
      BY <1>1, <1>10, <2>8, <2>9, <3>1, PresentIs
    <3>3. {g \in {k} : Resolvable(g)} = {k}
      BY <2>9
    <3> QED BY <2>7, <2>8, <3>2, <3>3, NoAnswer DEF result
  <2>10. CASE ~ Resolvable(k)
    <3>1. key \in DOMAIN d.signatures => d.signatures[key] = Present(k)
      BY <1>2, <2>4, <2>5
    <3>2. Outcome(Present(k)) = "unbound types"
      BY <2>8, <2>10, PresentIs
    <3>3. result \in Failures
      BY <1>1, <3>1, <3>2 DEF Failures
    <3>4. {g \in {k} : Resolvable(g)} = {}
      BY <2>10
    <3> QED BY <2>7, <3>3, <3>4, NoAnswer DEF result
  <2> QED BY <2>9, <2>10
<1> QED BY <1>9, <1>10

(* Of no functions, none is chosen.                                        *)
LEMMA NothingChosen == \A args : Chosen({}, args) = {}
<1>1. \A args : {f \in {} : Fits(Text(f), args)} = {}
  OBVIOUS
<1> QED BY <1>1 DEF Chosen

(* A started module calls the constructor that the source order chooses.   *)
LEMMA CtorAnswers ==
    ASSUME CallInv, CtorsInv, Started, NEW c \in Class, NEW arguments \in Calls
    PROVE  LET overloads == In(program.ctors[c])
           IN  Answer(CallCtor(c, arguments)) = Expected(overloads, overloads, arguments)
<1> DEFINE arities(F) == {Len(Params[f]) : f \in F}
<1>1. /\ program \in Programs /\ DOMAIN ctor[c] \subseteq Arities
      /\ bound = Linked /\ resolved = {f \in Linked : Resolvable(f)}
  BY AllCalled DEF CallInv, StartInv, AgendaInv, BodiesInv
<1>2. PICK fns : fns = In(program.ctors[c])
  OBVIOUS
<1>3. \A f \in fns : f \in Linked /\ f \in Fn /\ Of[f] = c /\ Len(Params[f]) \in Arities
  BY <1>1, <1>2, LinkedAre, CtorsAre, InSeq
<1>4. \A k : BoundCtors(c, k) = {f \in fns : Len(Params[f]) = k}
  BY <1>1, <1>2, <1>3 DEF BoundCtors
<1>5. DOMAIN ctor[c] = arities(fns)
  <2>1. \A k \in Arities : k \in DOMAIN ctor[c] <=> BoundCtors(c, k) # {}
    BY DEF CtorsInv, BodyOK
  <2> QED BY <1>1, <1>3, <1>4, <2>1
<1>6. PICK a : a = Padded(arities(fns), arguments)
  OBVIOUS
<1>7. PICK n : n = Len(a)
  OBVIOUS
<1>8. PICK fs : fs = {f \in fns : Len(Params[f]) = n}
  OBVIOUS
<1>9. PICK result : result = CallCtor(c, arguments)
  OBVIOUS
<1>10. PICK expected : expected = Expected(fns, fns, arguments)
  OBVIOUS
<1>11. /\ fs = {} => expected = {}
       /\ (\E f \in fns : fs = {f}) =>
            expected = {f \in fs : Resolvable(f) /\ Converts(f, a)}
       /\ (\A f \in fns : fs # {f}) => expected = Chosen(fs, a)
  <2>1. a = Padded({Len(Params[f]) : f \in fns}, arguments)
    BY <1>6
  <2>2. fs = {f \in fns : Len(Params[f]) = Len(a)}
    BY <1>7, <1>8
  <2> HIDE DEF arities
  <2>3. expected = IF \E f \in fns : fs = {f}
                   THEN {f \in fs : Resolvable(f) /\ Converts(f, a)}
                   ELSE Chosen(fs, a)
    BY <1>10, <2>1, <2>2 DEF Expected
  <2>4. fs = {} => Chosen(fs, a) = {} /\ \A f \in fns : fs # {f}
    BY NothingChosen
  <2> QED BY <2>3, <2>4
<1>12. result = IF n \notin DOMAIN ctor[c] THEN "invalid number of arguments"
                ELSE IF ctor[c][n].func # NoEntry THEN Direct(ctor[c][n].func, a)
                ELSE Select(ctor[c][n], a)
  <2> HIDE DEF arities
  <2>1. a = Padded(DOMAIN ctor[c], arguments)
    BY <1>5, <1>6
  <2> QED BY <1>7, <1>9, <2>1 DEF CallCtor
<1>13. Settled(fs)
  <2>1. \A f \in fs : f \in Linked /\ Of[f] \in In(Line[c])
    BY <1>3, <1>8, LineInClass
  <2>2. Chain(fs)
    BY <1>1, <2>1, VisibleChain
  <2> QED BY <1>1, <1>3, <1>8, <2>2 DEF Settled
<1>14. Answer(result) = expected
  <2>1. CASE n \notin DOMAIN ctor[c]
    <3>1. fs = {}
      BY <1>5, <1>8, <2>1
    <3>2. result \in Failures
      BY <1>12, <2>1 DEF Failures
    <3> QED BY <1>11, <3>1, <3>2, NoAnswer
  <2>2. CASE n \in DOMAIN ctor[c]
    <3>1. PICK body : body = ctor[c][n]
      OBVIOUS
    <3>2. BodyOf(body, fs)
      <4>1. n \in Arities
        BY <1>1, <2>2
      <4> QED BY <1>4, <1>8, <2>2, <3>1, <4>1 DEF CtorsInv, BodyOK
    <3>3. result = IF body.func # NoEntry THEN Direct(body.func, a) ELSE Select(body, a)
      BY <1>12, <2>2, <3>1
    <3>4. ASSUME NEW f \in fs, body.order = <<f>>, body.func = Present(f)
          PROVE  Answer(result) = expected
      <4>1. fs = {f} /\ f \in fns /\ f \in Fn /\ (f \in resolved <=> Resolvable(f))
        BY <1>8, <1>13, <3>2, <3>4, InNone DEF BodyOf, Settled
      <4>2. result = Direct(Present(f), a)
        BY <3>3, <3>4, <4>1, PresentIs
      <4>3. Answer(Direct(Present(f), a)) = {g \in {f} : Resolvable(g) /\ Converts(g, a)}
        BY <4>1, DirectAnswers
      <4>4. expected = {g \in fs : Resolvable(g) /\ Converts(g, a)}
        BY <1>11, <4>1
      <4> QED BY <4>1, <4>2, <4>3, <4>4
    <3>5. ASSUME Len(body.order) > 1, body.func = NoEntry
          PROVE  Answer(result) = expected
      <4>1. /\ body.order \in Seq(Fn) /\ In(body.order) = fs /\ Once(body.order)
            /\ \A i, j \in DOMAIN body.order : i < j => Before(body.order[i], body.order[j])
            /\ DOMAIN body.signatures = {SignatureArray(f) : f \in fs}
            /\ \A f \in fs : body.signatures[SignatureArray(f)] = Present(f)
        BY <3>2 DEF BodyOf
      <4>2. DispatcherOf(body, fs)
        BY <4>1 DEF DispatcherOf, Comes
      <4>3. result = Select(body, a)
        BY <3>3, <3>5
      <4>4. \A f : fs # {f}
        <5>1. 1 \in DOMAIN body.order /\ 2 \in DOMAIN body.order
          BY <3>5, <4>1
        <5>2. body.order[1] \in fs /\ body.order[2] \in fs /\ body.order[1] # body.order[2]
          BY <4>1, <5>1 DEF In, Once
        <5> QED BY <5>2
      <4> QED BY <1>11, <1>13, <4>2, <4>3, <4>4, SelectAnswers
    <3> QED BY <3>2, <3>4, <3>5 DEF BodyOf
  <2> QED BY <2>1, <2>2
<1> QED BY <1>2, <1>9, <1>10, <1>14

(* A started module calls, for a constructor, the first one in the order   *)
(* of the source that fits the arguments, and throws if none does; a lone  *)
(* one of its arity converts what it gets: whatever the order in which     *)
(* blocks ran and types became known.                                      *)
THEOREM ConstructorsInOrder == StartSpec => []ConstructorsFollowRegistration
<1>1. CallInv /\ CtorsInv => ConstructorsFollowRegistration
  BY CtorAnswers DEF ConstructorsFollowRegistration
<1> QED BY CallbacksWait, BodiesInOrder, <1>1, PTL

-----------------------------------------------------------------------------
(* The overloads of a class that has no table of its own are those of the  *)
(* class whose table it inherits.                                          *)
LEMMA VisibleIs ==
    ASSUME program \in Programs, NEW c \in Class
    PROVE  /\ \A f \in Visible(c) : /\ f \in Linked /\ f \in Fn /\ IsMember(f)
                                    /\ Of[f] \in In(Line[c]) /\ Of[f] \in Class
                                    /\ Len(Params[f]) \in Arities
           /\ \A n : Offered(c, n) \subseteq Visible(c) /\ Chain(Offered(c, n))
<1>1. \A f \in Visible(c) : f \in Linked /\ IsMember(f) /\ Of[f] \in In(Line[c])
  BY DEF Visible
<1>2. \A n : Offered(c, n) \subseteq Visible(c)
  BY DEF Offered
<1>3. ASSUME NEW n PROVE Chain(Offered(c, n))
  <2>1. PICK fns : fns = Offered(c, n)
    OBVIOUS
  <2>2. \A f \in fns : f \in Linked /\ Of[f] \in In(Line[c])
    BY <1>1, <1>2, <2>1
  <2>3. Chain(fns)
    BY <2>2, VisibleChain
  <2> QED BY <2>1, <2>3
<1> QED BY <1>1, <1>2, <1>3, LinkedAre

LEMMA OfferedAbove ==
    ASSUME StartInv, NEW c \in Class, NEW n
    PROVE  IF Holder(table, c) = NoClass THEN Offered(c, n) = {}
           ELSE /\ Holder(table, c) \in Class /\ table[Holder(table, c)] # <<>>
                /\ In(Line[Holder(table, c)]) \subseteq In(Line[c])
                /\ Offered(c, n) = Offered(Holder(table, c), n)
<1> DEFINE h == Holder(table, c)
<1>1. program \in Programs /\ bound \subseteq Linked
  BY DEF StartInv, AgendaInv
<1>2. ASSUME NEW f \in Offered(c, n)
      PROVE  h # NoClass /\ Of[f] \in In(Line[h])
  <2>1. f \in bound /\ IsMember(f) /\ Of[f] \in In(Line[c])
    BY DEF Offered, Visible
  <2>2. Len(Params[f]) \in DOMAIN table[Of[f]]
    BY <2>1 DEF StartInv, BoundInv
  <2>3. table[Of[f]] # <<>>
    <3>1. DOMAIN <<>> = {}
      OBVIOUS
    <3> QED BY <2>2, <3>1
  <2> QED BY <2>1, <2>3, HolderLast
<1>3. CASE h = NoClass
  BY <1>2, <1>3
<1>4. CASE h # NoClass
  <2>1. h \in In(Line[c]) /\ table[h] # <<>>
    BY <1>4, HolderHas
  <2>2. h \in Class /\ In(Line[h]) \subseteq In(Line[c])
    BY <2>1, LineInClass, LineTransitive
  <2> HIDE DEF h
  <2>3. Offered(c, n) = Offered(h, n)
    BY <1>2, <2>2 DEF Offered, Visible
  <2> QED BY <1>4, <2>1, <2>2, <2>3 DEF h
<1> QED BY <1>3, <1>4

(* What a dispatcher and a slot have to be in the next state.              *)
LastNext(f, fns) == \A g \in fns : SignatureArray(g)' = SignatureArray(f)' => ~ Comes(f, g)
DispatcherNext(d, fns) ==
    /\ d.order \in Seq(Fn) /\ In(d.order) = fns /\ Once(d.order)
    /\ \A i, j \in DOMAIN d.order : i < j => Comes(d.order[i], d.order[j])
    /\ DOMAIN d.signatures \subseteq {SignatureArray(f)' : f \in fns}
    /\ \A f \in fns : LastNext(f, fns) =>
         /\ f \in resolved' => SignatureArray(f)' \in DOMAIN d.signatures
         /\ SignatureArray(f)' \in DOMAIN d.signatures =>
              d.signatures[SignatureArray(f)'] = Present(f)'

LEMMA MethodsThen ==
    ASSUME NEW c \in Class, NEW n \in Arities, program' = program,
           NEW fns, fns = Offered(c, n)', NEW slot, slot = table'[c][n],
           n \in DOMAIN table'[c] <=> fns # {},
           n \in DOMAIN table'[c] =>
             \/ slot.owner = NoClass /\ \E f \in fns : fns = {f} /\ slot.entry = Present(f)'
             \/ slot.owner # NoClass /\ DispatcherNext(dispatcher'[<<slot.owner, n>>], fns)
    PROVE  MethodsOK(c, n)'
<1>1. \A f, g : Comes(f, g)' <=> Comes(f, g)
  BY DEF Comes, Before, Source
<1>2. ASSUME NEW d, DispatcherNext(d, fns) PROVE DispatcherOf(d, fns)'
  <2>1. \A f \in fns : LastOfSignature(f, fns)' <=> LastNext(f, fns)
    BY <1>1 DEF LastOfSignature, LastNext
  <2> QED BY <1>1, <1>2, <2>1 DEF DispatcherNext, DispatcherOf
<1>3. PICK d : d = dispatcher'[<<slot.owner, n>>]
  OBVIOUS
<1>4. ASSUME n \in DOMAIN table'[c] PROVE SlotOf(slot, n, fns)'
  <2>1. CASE slot.owner = NoClass /\ \E f \in fns : fns = {f} /\ slot.entry = Present(f)'
    BY <2>1 DEF SlotOf
  <2>2. CASE slot.owner # NoClass /\ DispatcherNext(dispatcher'[<<slot.owner, n>>], fns)
    <3>1. DispatcherOf(d, fns)'
      BY <1>2, <1>3, <2>2
    <3> QED BY <1>3, <2>2, <3>1 DEF SlotOf
  <2> QED BY <1>4, <2>1, <2>2
<1>5. SlotOf(slot, n, fns)' => SlotOf(table[c][n], n, Offered(c, n))'
  BY DEF SlotOf
<1> QED BY <1>4, <1>5 DEF MethodsOK

(* A slot that a step leaves alone.                                        *)
LEMMA SlotKept ==
    ASSUME NEW fns, NEW n, NEW slot, SlotOf(slot, n, fns),
           \A f \in fns : f \in resolved' <=> f \in resolved,
           slot.owner # NoClass =>
             dispatcher'[<<slot.owner, n>>] = dispatcher[<<slot.owner, n>>]
    PROVE  \/ slot.owner = NoClass /\ \E f \in fns : fns = {f} /\ slot.entry = Present(f)'
           \/ slot.owner # NoClass /\ DispatcherNext(dispatcher'[<<slot.owner, n>>], fns)
<1>1. \A f \in fns : SignatureArray(f)' = SignatureArray(f) /\ Present(f)' = Present(f)
  BY DEF SignatureArray, Present
<1>2. {SignatureArray(f)' : f \in fns} = {SignatureArray(f) : f \in fns}
  BY <1>1
<1>3. \A f \in fns : LastNext(f, fns) <=> LastOfSignature(f, fns)
  BY <1>1 DEF LastNext, LastOfSignature
<1>4. ASSUME NEW d, DispatcherOf(d, fns) PROVE DispatcherNext(d, fns)
  BY <1>1, <1>2, <1>3, <1>4 DEF DispatcherOf, DispatcherNext
<1>5. PICK d : d = dispatcher[<<slot.owner, n>>]
  OBVIOUS
<1>6. CASE slot.owner = NoClass /\ \E f \in fns : fns = {f} /\ slot.entry = Present(f)
  BY <1>1, <1>6
<1>7. CASE slot.owner # NoClass /\ DispatcherOf(dispatcher[<<slot.owner, n>>], fns)
  <2>1. DispatcherNext(d, fns)
    BY <1>4, <1>5, <1>7
  <2> QED BY <1>5, <1>7, <2>1
<1> QED BY <1>6, <1>7 DEF SlotOf

(* What a class has of an arity, or inherits of it, that a step leaves it. *)
LEMMA MethodsKept ==
    ASSUME NEW c \in Class, NEW n \in Arities, program' = program,
           NEW own, n \in DOMAIN own <=> Offered(c, n) # {},
           n \in DOMAIN own => SlotOf(own[n], n, Offered(c, n)),
           Offered(c, n)' = Offered(c, n),
           \A f \in Offered(c, n) : f \in resolved' <=> f \in resolved,
           n \in DOMAIN table'[c] <=> n \in DOMAIN own,
           n \in DOMAIN own =>
             /\ table'[c][n] = own[n]
             /\ own[n].owner # NoClass =>
                  dispatcher'[<<own[n].owner, n>>] = dispatcher[<<own[n].owner, n>>]
    PROVE  MethodsOK(c, n)'
<1>1. PICK fns : fns = Offered(c, n)
  OBVIOUS
<1>2. PICK slot : slot = own[n]
  OBVIOUS
<1>3. PICK next : next = table'[c][n]
  OBVIOUS
<1>4. (n \in DOMAIN own <=> fns # {}) /\ fns = Offered(c, n)'
  BY <1>1
<1>5. ASSUME n \in DOMAIN own
      PROVE  /\ next = slot
             /\ \/ slot.owner = NoClass /\ \E f \in fns : fns = {f} /\ slot.entry = Present(f)'
                \/ slot.owner # NoClass /\ DispatcherNext(dispatcher'[<<slot.owner, n>>], fns)
  <2>1. SlotOf(slot, n, fns) /\ next = slot
    BY <1>1, <1>2, <1>3, <1>5
  <2>2. slot.owner # NoClass =>
          dispatcher'[<<slot.owner, n>>] = dispatcher[<<slot.owner, n>>]
    BY <1>2, <1>5
  <2>3. \A f \in fns : f \in resolved' <=> f \in resolved
    BY <1>1
  <2> QED BY <2>1, <2>2, <2>3, SlotKept
<1> QED BY <1>3, <1>4, <1>5, MethodsThen

-----------------------------------------------------------------------------
(* What a dispatcher becomes.  The overloads of one class are apart, like   *)
(* its constructors.                                                       *)
LEMMA MethodKeysApart ==
    ASSUME program \in Programs, NEW f \in Linked, NEW g \in Linked,
           IsMember(f), IsMember(g), Of[f] = Of[g], f # g
    PROVE  Key(f) # Key(g) /\ Params[f] # Params[g]
<1> DEFINE c == Of[f]
<1>1. c \in Class /\ f \in In(program.methods[c]) /\ g \in In(program.methods[c])
  BY LinkedAre DEF IsMember
<1> HIDE DEF c
<1>2. PICK i \in DOMAIN program.methods[c], j \in DOMAIN program.methods[c] :
        f = program.methods[c][i] /\ g = program.methods[c][j]
  BY <1>1 DEF In
<1>3. Key(f) # Key(g)
  BY <1>1, <1>2, ProgramsAssumption
<1> QED BY <1>3 DEF Key

(* The order and the signatures of a dispatcher of one function.           *)
LEMMA OrderOfOne ==
    ASSUME NEW f \in Fn
    PROVE  /\ <<f>> \in Seq(Fn) /\ In(<<f>>) = {f} /\ Once(<<f>>)
           /\ \A i, j \in DOMAIN <<f>> : i < j => FALSE
<1>1. <<f>> \in Seq(Fn) /\ DOMAIN <<f>> = 1 .. 1
  OBVIOUS
<1> QED BY <1>1, InNone

LEMMA MapOfOne ==
    ASSUME NEW key, NEW e
    PROVE  DOMAIN With(<<>>, key, e) = {key} /\ With(<<>>, key, e)[key] = e
<1> DEFINE none == <<>>
<1>1. DOMAIN none = {}
  OBVIOUS
<1> HIDE DEF none
<1>2. DOMAIN With(none, key, e) = {key} /\ With(none, key, e)[key] = e
  BY <1>1 DEF With
<1> QED BY <1>2 DEF none

(* createOwnedSignatureDispatcher copies what the slot chooses from.       *)
LEMMA ForkIs ==
    ASSUME NEW c, NEW n, NEW fns, fns \subseteq Fn, Chain(fns),
           NEW slot, SlotOf(slot, n, fns), c # NoClass
    PROVE  DispatcherOf(OwnDispatcher(slot, c, n), fns)
<1>1. CASE slot.owner # NoClass
  BY <1>1 DEF SlotOf, OwnDispatcher, Forked
<1>2. CASE slot.owner = NoClass
  <2>1. PICK f \in fns : fns = {f} /\ slot.entry = Present(f)
    BY <1>2 DEF SlotOf
  <2>2. PICK e : e = Present(f)
    OBVIOUS
  <2>3. e.fn = f /\ Signature(e) = SignatureArray(f) /\ f \in Fn /\ Chain({f})
    BY <2>1, <2>2 DEF Signature, SignatureArray, Present, Invoker, Stub
  <2>4. PICK d : d = OwnDispatcher(slot, c, n)
    OBVIOUS
  <2>5. d = [signatures |-> With(<<>>, Signature(e), e), order |-> <<e.fn>>]
    BY <1>2, <2>1, <2>2, <2>4 DEF OwnDispatcher, Forked
  <2>6. PICK key : key = SignatureArray(f)
    OBVIOUS
  <2>7. d.order = <<f>> /\ d.signatures = With(<<>>, key, e)
    BY <2>3, <2>5, <2>6
  <2>8. /\ d.order \in Seq(Fn) /\ In(d.order) = {f} /\ Once(d.order)
        /\ \A i, j \in DOMAIN d.order : i < j => Comes(d.order[i], d.order[j])
        /\ DOMAIN d.signatures = {key} /\ d.signatures[key] = e
    BY <2>3, <2>7, OrderOfOne, MapOfOne
  <2>9. DispatcherOf(d, {f})
    BY <2>2, <2>6, <2>8 DEF DispatcherOf
  <2> QED BY <2>1, <2>4, <2>9
<1> QED BY <1>1, <1>2

(* A function comes behind those that are bound.                           *)
LEMMA DispatcherGrows ==
    ASSUME NEW old, NEW fns, DispatcherOf(old, fns), fns \subseteq Fn,
           NEW f \in Fn, f \notin fns, \A g \in fns : Comes(g, f),
           f \notin resolved, resolved' = resolved, Chain(fns \cup {f}),
           NEW new, new.order = Append(old.order, f),
           new.signatures = With(old.signatures, Params[f], Stub(f))
    PROVE  DispatcherNext(new, fns \cup {f})
<1> DEFINE s == old.order
           m == Len(s)
           u == Append(s, f)
<1>1. /\ s \in Seq(Fn) /\ In(s) = fns /\ Once(s)
      /\ \A i, j \in DOMAIN s : i < j => Comes(s[i], s[j])
      /\ DOMAIN old.signatures \subseteq {SignatureArray(g) : g \in fns}
      /\ \A g \in fns : LastOfSignature(g, fns) =>
           /\ g \in resolved => SignatureArray(g) \in DOMAIN old.signatures
           /\ SignatureArray(g) \in DOMAIN old.signatures =>
                old.signatures[SignatureArray(g)] = Present(g)
  BY DEF DispatcherOf
<1>2. SignatureArray(f)' = Params[f] /\ Present(f)' = Stub(f)
  BY DEF SignatureArray, Present
<1>3. \A g : SignatureArray(g)' = SignatureArray(g) /\ Present(g)' = Present(g)
  BY DEF SignatureArray, Present
<1> HIDE DEF s
<1>4. /\ m \in Nat /\ DOMAIN s = 1 .. m /\ u \in Seq(Fn) /\ DOMAIN u = 1 .. m + 1
      /\ u[m + 1] = f /\ \A i \in 1 .. m : u[i] = s[i]
  BY <1>1
<1>5. In(u) = fns \cup {f} /\ Once(u)
  BY <1>1, InAppend, OnceAppend
<1>6. new.order = u
  BY DEF s
<1> HIDE DEF m, u
<1>7. ASSUME NEW i \in DOMAIN u, NEW j \in DOMAIN u, i < j PROVE Comes(u[i], u[j])
  <2>1. i \in 1 .. m
    BY <1>4, <1>7
  <2>2. CASE j \in 1 .. m
    BY <1>1, <1>4, <1>7, <2>1, <2>2
  <2>3. CASE j = m + 1
    <3>1. s[i] \in fns
      BY <1>1, <1>4, <2>1 DEF In
    <3> QED BY <1>4, <2>1, <2>3, <3>1
  <2> QED BY <1>4, <1>7, <2>2, <2>3
<1>8. /\ DOMAIN new.signatures = DOMAIN old.signatures \cup {Params[f]}
      /\ new.signatures[Params[f]] = Stub(f)
      /\ \A k \in DOMAIN old.signatures : k # Params[f] => new.signatures[k] = old.signatures[k]
  BY DEF With
<1>9. DOMAIN new.signatures \subseteq {SignatureArray(g)' : g \in fns \cup {f}}
  BY <1>1, <1>2, <1>3, <1>8
<1>10. ASSUME NEW g \in fns \cup {f}, LastNext(g, fns \cup {f})
       PROVE  /\ g \in resolved' => SignatureArray(g)' \in DOMAIN new.signatures
              /\ SignatureArray(g)' \in DOMAIN new.signatures =>
                   new.signatures[SignatureArray(g)'] = Present(g)'
  <2>1. CASE g = f
    BY <1>2, <1>8, <2>1
  <2>2. CASE g # f
    <3>1. g \in fns /\ Comes(g, f)
      BY <2>2
    <3>2. SignatureArray(g) # Params[f]
      BY <1>2, <1>3, <1>10, <3>1 DEF LastNext
    <3>3. LastOfSignature(g, fns)
      BY <1>3, <1>10 DEF LastNext, LastOfSignature
    <3> QED BY <1>1, <1>3, <1>8, <3>1, <3>2, <3>3
  <2> QED BY <2>1, <2>2
<1> QED BY <1>5, <1>4, <1>6, <1>7, <1>9, <1>10 DEF DispatcherNext

(* The first dispatcher of a class holds the one function.                 *)
LEMMA DispatcherStarts ==
    ASSUME NEW f \in Fn, Chain({f}), f \notin resolved, resolved' = resolved,
           NEW new, new = Forked(OwnFunction(Stub(f)), Len(Params[f]))
    PROVE  DispatcherNext(new, {f})
<1>1. PICK e : e = Stub(f)
  OBVIOUS
<1>2. e.fn = f /\ Signature(e) = Params[f]
  BY <1>1 DEF Signature, Stub
<1>3. OwnFunction(e).owner = NoClass /\ OwnFunction(e).entry = e
  BY DEF OwnFunction
<1>4. new = [signatures |-> With(<<>>, Signature(e), e), order |-> <<e.fn>>]
  BY <1>1, <1>3 DEF Forked
<1>5. PICK key : key = Params[f]
  OBVIOUS
<1>6. new.order = <<f>> /\ new.signatures = With(<<>>, key, e)
  BY <1>2, <1>4, <1>5
<1>7. /\ new.order \in Seq(Fn) /\ In(new.order) = {f} /\ Once(new.order)
      /\ \A i, j \in DOMAIN new.order : i < j => Comes(new.order[i], new.order[j])
      /\ DOMAIN new.signatures = {key} /\ new.signatures[key] = e
  BY <1>6, OrderOfOne, MapOfOne
<1>8. SignatureArray(f)' = Params[f] /\ Present(f)' = e
  BY <1>1 DEF SignatureArray, Present
<1> QED BY <1>5, <1>7, <1>8 DEF DispatcherNext

(* An invoker takes the place of a stub: what a base class gave the same   *)
(* key is overridden, what it gave another is kept, but for a stub that    *)
(* waits for ever under the key that the function had.                     *)
LEMMA DispatcherResolved ==
    ASSUME program \in Programs,
           NEW old, NEW fns, DispatcherOf(old, fns), \A g \in fns : g \in Linked /\ IsMember(g),
           NEW f \in fns, f \notin resolved, Resolvable(f), resolved' = resolved \cup {f},
           \A h \in resolved : Resolvable(h), Chain(fns),
           \A g \in fns \ {f} : Of[g] = Of[f] \/ Comes(g, f),
           NEW new, new.order = old.order, new.signatures = Resolved(old.signatures, f)
    PROVE  DispatcherNext(new, fns)
<1>1. /\ old.order \in Seq(Fn) /\ In(old.order) = fns /\ Once(old.order)
      /\ \A i, j \in DOMAIN old.order : i < j => Comes(old.order[i], old.order[j])
      /\ DOMAIN old.signatures \subseteq {SignatureArray(g) : g \in fns}
      /\ \A g \in fns : LastOfSignature(g, fns) =>
           /\ g \in resolved => SignatureArray(g) \in DOMAIN old.signatures
           /\ SignatureArray(g) \in DOMAIN old.signatures =>
                old.signatures[SignatureArray(g)] = Present(g)
  BY DEF DispatcherOf
<1>2. /\ SignatureArray(f)' = Key(f) /\ Present(f)' = Invoker(f)
      /\ SignatureArray(f) = Params[f]
  BY DEF SignatureArray, Present
<1>3. \A g : g # f => SignatureArray(g)' = SignatureArray(g) /\ Present(g)' = Present(g)
  BY DEF SignatureArray, Present
<1>4. fns \subseteq Fn
  BY LinkedAre
<1>5. ASSUME NEW g \in fns, g # f, Of[g] = Of[f]
      PROVE  SignatureArray(g) # Params[f] /\ SignatureArray(g) # Key(f)
  <2>1. Key(f) # Key(g) /\ Params[f] # Params[g]
    BY <1>5, MethodKeysApart
  <2>2. Key(f) # Params[g]
    BY <1>4, <2>1, KeyAndParams
  <2>3. g \in resolved => Key(g) # Params[f]
    BY <1>4, <2>1, KeyAndParams
  <2> QED BY <2>1, <2>2, <2>3 DEF SignatureArray
<1>6. ASSUME NEW g \in fns, g # f, SignatureArray(g) \in {Params[f], Key(f)}
      PROVE  Comes(g, f)
  BY <1>5, <1>6
<1>7. ASSUME NEW g \in resolved \cap fns, g # f, SignatureArray(g) = Params[f]
      PROVE  Key(f) = Params[f]
  <2>1. Key(g) = Params[f] /\ Params[g] = Params[f]
    BY <1>4, <1>7, KeyAndParams DEF SignatureArray
  <2> QED BY <2>1 DEF Key
<1> DEFINE map == old.signatures
           rest == Without(map, Params[f])
<1>8. new.signatures = With(rest, Key(f), Invoker(f))
  BY DEF Resolved
<1>9. /\ DOMAIN rest = DOMAIN map \ {Params[f]}
      /\ \A k \in DOMAIN map : k # Params[f] => rest[k] = map[k]
  BY DEF Without
<1> HIDE DEF rest
<1>10. /\ DOMAIN new.signatures = (DOMAIN map \ {Params[f]}) \cup {Key(f)}
       /\ new.signatures[Key(f)] = Invoker(f)
       /\ \A k \in DOMAIN map : k # Params[f] /\ k # Key(f) => new.signatures[k] = map[k]
  BY <1>8, <1>9 DEF With
<1>11. DOMAIN new.signatures \subseteq {SignatureArray(g)' : g \in fns}
  <2>1. ASSUME NEW k \in DOMAIN new.signatures PROVE \E g \in fns : k = SignatureArray(g)'
    <3>1. CASE k = Key(f)
      BY <1>2, <3>1
    <3>2. CASE k # Key(f)
      <4>1. k \in DOMAIN map /\ k # Params[f]
        BY <1>10, <2>1, <3>2
      <4>2. PICK g \in fns : k = SignatureArray(g)
        BY <1>1, <4>1
      <4> QED BY <1>2, <1>3, <4>1, <4>2
    <3> QED BY <3>1, <3>2
  <2> QED BY <2>1
<1>12. ASSUME NEW g \in fns, LastNext(g, fns)
       PROVE  /\ g \in resolved' => SignatureArray(g)' \in DOMAIN new.signatures
              /\ SignatureArray(g)' \in DOMAIN new.signatures =>
                   new.signatures[SignatureArray(g)'] = Present(g)'
  <2>1. CASE g = f
    BY <1>2, <1>10, <2>1
  <2>2. CASE g # f
    <3>1. SignatureArray(g)' = SignatureArray(g) /\ Present(g)' = Present(g)
          /\ (g \in resolved' <=> g \in resolved)
      BY <1>3, <2>2
    <3>2. SignatureArray(g) # Key(f)
      BY <1>2, <1>6, <1>12, <2>2, <3>1 DEF LastNext
    <3>3. CASE SignatureArray(g) = Params[f]
      <4>1. g \notin resolved
        BY <1>7, <2>2, <3>2, <3>3
      <4>2. SignatureArray(g) \notin DOMAIN new.signatures
        BY <1>10, <3>2, <3>3
      <4> QED BY <3>1, <4>1, <4>2
    <3>4. CASE SignatureArray(g) # Params[f]
      <4>1. LastOfSignature(g, fns)
        <5> SUFFICES ASSUME NEW h \in fns, SignatureArray(h) = SignatureArray(g)
                     PROVE  ~ Comes(g, h)
          BY DEF LastOfSignature
        <5>1. h # f
          BY <1>2, <3>4
        <5> QED BY <1>3, <1>12, <2>2, <5>1 DEF LastNext
      <4> QED BY <1>1, <1>10, <3>1, <3>2, <3>4, <4>1
    <3> QED BY <3>3, <3>4
  <2> QED BY <2>1, <2>2
<1> QED BY <1>1, <1>11, <1>12 DEF DispatcherNext

-----------------------------------------------------------------------------
(* What the step of a method leaves the classes with.                      *)
LEMMA OfferedThen ==
    ASSUME program' = program, NEW c \in Class
    PROVE  /\ \A n, f : f \in Offered(c, n) <=>
                          f \in bound /\ f \in Visible(c) /\ Len(Params[f]) = n
           /\ \A n, f : f \in Offered(c, n)' <=>
                          f \in bound' /\ f \in Visible(c) /\ Len(Params[f]) = n
           /\ Inherited(c)' = Inherited(c)
<1>1. Visible(c)' = Visible(c) /\ Inherited(c)' = Inherited(c)
  BY DEF Visible, Inherited, Linked, IsMember
<1> QED BY <1>1 DEF Offered

LEMMA OfferedSame ==
    ASSUME program' = program, NEW c \in Class, NEW n,
           \A f \in Visible(c) : Len(Params[f]) = n => (f \in bound' <=> f \in bound)
    PROVE  Offered(c, n)' = Offered(c, n)
<1>1. PICK A : A = Offered(c, n)
  OBVIOUS
<1>2. PICK B : B = Offered(c, n)'
  OBVIOUS
<1>3. \A f : f \in B <=> f \in A
  BY <1>1, <1>2, OfferedThen
<1>4. A \subseteq bound /\ B \subseteq bound'
  BY <1>1, <1>2, OfferedThen
<1>5. A = B
  BY <1>3, <1>4
<1> QED BY <1>1, <1>2, <1>5

(* What a class has of an arity, in its own table or in the one that it    *)
(* inherits.                                                               *)
LEMMA SlotAbove ==
    ASSUME StartInv, MethodsInv, NEW c \in Class, Clean(c), Holder(table, c) # NoClass,
           NEW n \in Arities, NEW own, own = table[Holder(table, c)]
    PROVE  /\ n \in DOMAIN own <=> Offered(c, n) # {}
           /\ n \in DOMAIN own => SlotOf(own[n], n, Offered(c, n))
<1> DEFINE h == Holder(table, c)
<1>1. /\ h \in Class /\ table[h] # <<>> /\ In(Line[h]) \subseteq In(Line[c])
      /\ Offered(c, n) = Offered(h, n)
  BY OfferedAbove
<1> HIDE DEF h
<1>2. MethodsOK(h, n)
  BY <1>1 DEF Clean, MethodsInv
<1> QED BY <1>1, <1>2 DEF MethodsOK, h

(* A class that got its table when all it inherits was in place will not   *)
(* see a base bind or resolve another method.                              *)
LEMMA Overtaken ==
    ASSUME InPlaceInv, NEW f \in Linked, IsMember(f), ~ InPlace(f),
           NEW d \in Class, d # Of[f], Of[f] \in In(Line[d]), Clean(d)
    PROVE  table[d] = <<>>
<1>1. d \in Class \ early
  BY LineInClass DEF Clean
<1>2. f \in Inherited(d)
  BY DEF Inherited
<1> QED BY <1>1, <1>2 DEF InPlaceInv

(* The step of a method: what it leaves as it was.                         *)
StepOf(f) ==
    /\ program' = program /\ early \subseteq early' /\ f \in Linked /\ IsMember(f)
    /\ ~ InPlace(f) /\ bound \subseteq bound' /\ resolved \subseteq resolved'
    /\ \A g : g # f => (g \in bound' <=> g \in bound) /\ (g \in resolved' <=> g \in resolved)
    /\ \A d \in Class \ {Of[f]} : table'[d] = table[d]
    /\ \A x \in Dispatchers \ {<<Of[f], Len(Params[f])>>} : dispatcher'[x] = dispatcher[x]

LEMMA OtherMethods ==
    ASSUME StartInv, InPlaceInv, MethodsInv, NEW f, StepOf(f),
           NEW d \in Class \ {Of[f]}, Clean(d)', table'[d] # <<>>, NEW m \in Arities
    PROVE  MethodsOK(d, m)'
<1>1. /\ Clean(d) /\ table'[d] = table[d] /\ table[d] # <<>> /\ program' = program
      /\ f \in Linked /\ IsMember(f) /\ ~ InPlace(f)
  BY DEF StepOf, Clean
<1>2. Of[f] \notin In(Line[d])
  BY <1>1, Overtaken
<1>3. MethodsOK(d, m)
  BY <1>1 DEF MethodsInv
<1>4. f \notin Visible(d)
  BY <1>2 DEF Visible
<1>5. Offered(d, m)' = Offered(d, m)
  BY <1>1, <1>4, OfferedSame DEF StepOf
<1>6. \A g \in Offered(d, m) : g \in resolved' <=> g \in resolved
  BY <1>1, <1>4, OfferedThen DEF StepOf
<1>7. PICK own : own = table[d]
  OBVIOUS
<1>8. \A n \in DOMAIN own : own[n].owner # NoClass => own[n].owner \in In(Line[d])
  BY <1>7 DEF StartInv, TablesInv, TableOK, SlotOK
<1>9. ASSUME m \in DOMAIN own, own[m].owner # NoClass
      PROVE  dispatcher'[<<own[m].owner, m>>] = dispatcher[<<own[m].owner, m>>]
  <2>1. own[m].owner \in Class /\ own[m].owner # Of[f]
    BY <1>2, <1>8, <1>9, LineInClass
  <2>2. <<own[m].owner, m>> \in Dispatchers \ {<<Of[f], Len(Params[f])>>}
    BY <2>1 DEF Dispatchers
  <2> QED BY <2>2 DEF StepOf
<1>10. /\ m \in DOMAIN own <=> Offered(d, m) # {}
       /\ m \in DOMAIN own => SlotOf(own[m], m, Offered(d, m))
  BY <1>3, <1>7 DEF MethodsOK
<1>11. table'[d] = own
  BY <1>1, <1>7
<1> QED BY <1>1, <1>5, <1>6, <1>9, <1>10, <1>11, MethodsKept

(* The other arities of its own class.                                     *)
LEMMA OtherArities ==
    ASSUME StartInv, NEW f, StepOf(f), NEW m \in Arities, m # Len(Params[f]),
           NEW own, TableOK(own, Of[f]), m \in DOMAIN own <=> Offered(Of[f], m) # {},
           m \in DOMAIN own => SlotOf(own[m], m, Offered(Of[f], m)),
           m \in DOMAIN table'[Of[f]] <=> m \in DOMAIN own,
           m \in DOMAIN own => table'[Of[f]][m] = own[m]
    PROVE  MethodsOK(Of[f], m)'
<1>1. PICK c : c = Of[f]
  OBVIOUS
<1>2. c \in Class /\ program' = program
  BY <1>1, LinkedAre DEF StartInv, AgendaInv, StepOf
<1>3. \A g : Len(Params[g]) = m => (g \in bound' <=> g \in bound)
  BY DEF StepOf
<1>4. Offered(c, m)' = Offered(c, m)
  BY <1>2, <1>3, OfferedSame
<1>5. \A g \in Offered(c, m) : g \in resolved' <=> g \in resolved
  BY <1>2, OfferedThen DEF StepOf
<1>6. ASSUME m \in DOMAIN own, own[m].owner # NoClass
      PROVE  dispatcher'[<<own[m].owner, m>>] = dispatcher[<<own[m].owner, m>>]
  <2>1. own[m].owner \in Class
    BY <1>1, <1>2, <1>6, LineInClass DEF TableOK, SlotOK
  <2>2. <<own[m].owner, m>> \in Dispatchers \ {<<Of[f], Len(Params[f])>>}
    BY <2>1 DEF Dispatchers
  <2> QED BY <2>2 DEF StepOf
<1> QED BY <1>1, <1>2, <1>4, <1>5, <1>6, MethodsKept

(* What is in place stays so, and a class that is not too early gets its   *)
(* table when all that it inherits is.                                     *)
LEMMA InPlaceKept ==
    ASSUME InPlaceInv, program' = program, early \subseteq early',
           bound \subseteq bound', resolved \subseteq resolved',
           \A d \in Class \ early' : table'[d] # <<>> =>
             table[d] # <<>> \/ \A g \in Inherited(d) : InPlace(g)
    PROVE  InPlaceInv'
<1>1. ASSUME NEW g, InPlace(g) PROVE InPlace(g)'
  BY <1>1 DEF InPlace, Resolvable
<1>2. ASSUME NEW d \in Class \ early', table'[d] # <<>>, NEW g \in Inherited(d)
      PROVE  InPlace(g)'
  BY <1>1, <1>2 DEF InPlaceInv
<1>3. \A d \in Class : Inherited(d)' = Inherited(d)
  BY OfferedThen
<1> QED BY <1>2, <1>3 DEF InPlaceInv

(* Steps that are about no method.                                         *)
LEMMA MethodsSame ==
    ASSUME StartInv, InPlaceInv, MethodsInv, program' = program, UNCHANGED <<tables, early>>,
           bound \subseteq bound', resolved \subseteq resolved', bound' \subseteq Linked,
           \A f \in Linked : IsMember(f) => /\ f \in bound' <=> f \in bound
                                            /\ f \in resolved' <=> f \in resolved
    PROVE  InPlaceInv' /\ MethodsInv'
<1>1. table' = table /\ dispatcher' = dispatcher /\ early' = early
  BY DEF tables
<1>2. InPlaceInv'
  BY <1>1, InPlaceKept
<1>3. ASSUME NEW c \in Class, Clean(c)', table'[c] # <<>>, NEW n \in Arities
      PROVE  MethodsOK(c, n)'
  <2>1. Clean(c) /\ MethodsOK(c, n)
    BY <1>1, <1>3 DEF Clean, MethodsInv
  <2>2. \A g \in Visible(c) : g \in Linked /\ IsMember(g)
    BY DEF Visible
  <2>3. Offered(c, n)' = Offered(c, n)
    BY <2>2, OfferedSame
  <2>4. \A g \in Offered(c, n) : g \in resolved' <=> g \in resolved
    BY <2>2, OfferedThen
  <2>5. PICK own : own = table[c]
    OBVIOUS
  <2>6. /\ n \in DOMAIN own <=> Offered(c, n) # {}
        /\ n \in DOMAIN own => SlotOf(own[n], n, Offered(c, n))
    BY <2>1, <2>5 DEF MethodsOK
  <2> QED BY <1>1, <2>3, <2>4, <2>5, <2>6, MethodsKept
<1> QED BY <1>2, <1>3 DEF MethodsInv

-----------------------------------------------------------------------------
(* Binding a method: it comes behind all that its class has of its arity.  *)
BindOf(f) ==
    /\ StepOf(f) /\ f \in Fn /\ f \notin resolved /\ resolved' = resolved
    /\ Of[f] \in Class /\ Len(Params[f]) \in Arities
    /\ Of[f] \in In(Line[Of[f]]) /\ <<Of[f], Len(Params[f])>> \in Dispatchers
    /\ DOMAIN table = Class /\ DOMAIN dispatcher = Dispatchers
    /\ f \notin Offered(Of[f], Len(Params[f])) /\ Offered(Of[f], Len(Params[f])) \subseteq Fn
    /\ Chain(Offered(Of[f], Len(Params[f])) \cup {f})
    /\ \A g \in Offered(Of[f], Len(Params[f])) : Comes(g, f)
    /\ Offered(Of[f], Len(Params[f]))' = Offered(Of[f], Len(Params[f])) \cup {f}

LEMMA MethodBinds ==
    ASSUME CallInv, OrderInv, NEW f \in Fn, Bind(f), IsMember(f), NoteEarly(Of[f]),
           TableStep(f), DispatcherStep(f)
    PROVE  BindOf(f)
<1> DEFINE n == Len(Params[f])
<1>1. PICK c : c = Of[f]
  OBVIOUS
<1>2. StartInv /\ AgendaInv /\ program \in Programs /\ resolved \subseteq bound /\ bound \subseteq Linked
  BY DEF CallInv, StartInv, AgendaInv
<1>3. /\ f \in Linked \ bound /\ program' = program /\ bound' = bound \cup {f}
      /\ resolved' = resolved /\ \A g \in Linked : Before(g, f) => g \in bound
  BY <1>2, BoundOrders, FunctionBound
<1>4. /\ c \in Class /\ n \in Arities /\ c \in In(Line[c]) /\ <<c, n>> \in Dispatchers
  BY <1>1, <1>2, <1>3, LinkedFunction
<1>5. StepOf(f)
  <2>1. early \subseteq early'
    BY DEF NoteEarly
  <2>2. ~ InPlace(f)
    BY <1>3 DEF InPlace
  <2>3. \A d \in Class \ {Of[f]} : table'[d] = table[d]
    BY DEF TableStep
  <2>4. \A x \in Dispatchers \ {<<Of[f], Len(Params[f])>>} : dispatcher'[x] = dispatcher[x]
    BY DEF DispatcherStep
  <2> QED BY <1>3, <2>1, <2>2, <2>3, <2>4 DEF StepOf
<1>6. f \in Visible(c) /\ \A g \in Visible(c) : g \in Fn /\ g \in Linked /\ Of[g] \in In(Line[c])
  BY <1>1, <1>2, <1>3, <1>4, VisibleIs DEF Visible
<1>7. PICK F : F = Offered(c, n)
  OBVIOUS
<1>8. F \subseteq Visible(c) /\ F \subseteq bound /\ f \notin F
  BY <1>3, <1>4, <1>7, OfferedThen
<1>9. Chain(F \cup {f})
  <2>1. \A g \in F \cup {f} : g \in Linked /\ Of[g] \in In(Line[c])
    BY <1>6, <1>8
  <2> QED BY <1>2, <1>4, <2>1, VisibleChain
<1>10. ASSUME NEW g \in F PROVE Comes(g, f)
  <2>1. g \in Linked /\ g \in bound /\ Of[g] \in In(Line[c]) /\ g # f
    BY <1>6, <1>8
  <2>2. ~ Before(f, g)
    BY <1>3, <2>1 DEF OrderInv
  <2>3. c \in In(Line[Of[g]]) => c = Of[g]
    BY <1>4, <2>1, LineAntisymmetric
  <2>4. ~ Comes(f, g)
    BY <1>1, <2>2, <2>3 DEF Comes
  <2> QED BY <1>9, <2>1, <2>4 DEF Chain
<1>11. Offered(c, n)' = F \cup {f}
  <2>1. PICK A : A = Offered(c, n)'
    OBVIOUS
  <2>2. \A g : g \in A <=> g \in F \/ g = f
    BY <1>3, <1>4, <1>6, <1>7, <2>1, OfferedThen
  <2>3. A = F \cup {f}
    BY <2>2
  <2> QED BY <2>1, <2>3
<1>12. DOMAIN table = Class /\ DOMAIN dispatcher = Dispatchers
  BY <1>2 DEF StartInv, TablesInv, DispatchersInv
<1>13. F \subseteq Fn
  BY <1>6, <1>8
<1> QED BY <1>1, <1>3, <1>2, <1>4, <1>5, <1>7, <1>8, <1>9, <1>10, <1>11, <1>12, <1>13 DEF BindOf

(* It is enough to know the slot of its class and arity.                   *)
LEMMA MethodsThenAll ==
    ASSUME StartInv, InPlaceInv, MethodsInv, NEW f, StepOf(f), Of[f] \in Class,
           \A d \in Class \ early' : table'[d] # <<>> =>
             table[d] # <<>> \/ \A g \in Inherited(d) : InPlace(g),
           Clean(Of[f])' => \A m \in Arities : MethodsOK(Of[f], m)'
    PROVE  InPlaceInv' /\ MethodsInv'
<1>1. InPlaceInv'
  BY InPlaceKept DEF StepOf
<1>2. ASSUME NEW d \in Class, Clean(d)', table'[d] # <<>>, NEW m \in Arities
      PROVE  MethodsOK(d, m)'
  <2>1. CASE d = Of[f]
    <3>1. PICK c : c = Of[f]
      OBVIOUS
    <3>2. Clean(c)' => \A k \in Arities : MethodsOK(c, k)'
      BY <3>1
    <3> QED BY <1>2, <2>1, <3>1, <3>2
  <2>2. CASE d # Of[f]
    BY <1>2, <2>2, OtherMethods
  <2> QED BY <2>1, <2>2
<1> QED BY <1>1, <1>2 DEF MethodsInv

(* What a class that is being bound to notes of its bases.                 *)
LEMMA NotedInPlace ==
    ASSUME StartInv, NEW f, StepOf(f), NoteEarly(Of[f])
    PROVE  \A d \in Class \ early' : table'[d] # <<>> =>
             table[d] # <<>> \/ \A g \in Inherited(d) : InPlace(g)
  BY DEF NoteEarly, StepOf

LEMMA FirstInOrder ==
    ASSUME CallInv, OrderInv, InPlaceInv, MethodsInv, NEW f \in Fn, BindFirst(f)
    PROVE  InPlaceInv' /\ MethodsInv'
<1> DEFINE n == Len(Params[f])
<1>1. PICK c : c = Of[f]
  OBVIOUS
<1>2. /\ IsMember(f) /\ Bind(f) /\ NoteEarly(c) /\ Holder(table, c) = NoClass
      /\ table' = [table EXCEPT ![c] = [k \in {n} |-> Owned(c)]]
      /\ dispatcher' = [dispatcher EXCEPT ![<<c, n>>] = Forked(OwnFunction(Stub(f)), n)]
  BY <1>1 DEF BindFirst
<1>3. StartInv /\ BindOf(f)
  BY <1>1, <1>2, FirstIsBound, MethodBinds DEF CallInv
<1>4. /\ StepOf(f) /\ c \in Class /\ n \in Arities /\ <<c, n>> \in Dispatchers
      /\ DOMAIN table = Class /\ DOMAIN dispatcher = Dispatchers
      /\ program' = program /\ f \notin resolved /\ resolved' = resolved
      /\ Chain(Offered(c, n) \cup {f}) /\ Offered(c, n)' = Offered(c, n) \cup {f}
  BY <1>1, <1>3 DEF BindOf, StepOf
<1>5. \A m \in Arities : Offered(c, m) = {}
  BY <1>2, <1>3, <1>4, OfferedAbove
<1>6. PICK slot : slot = Owned(c)
  OBVIOUS
<1>7. PICK d : d = Forked(OwnFunction(Stub(f)), n)
  OBVIOUS
<1>8. /\ DOMAIN table'[c] = {n} /\ table'[c][n] = slot /\ dispatcher'[<<c, n>>] = d
  BY <1>2, <1>4, <1>6, <1>7
<1>9. slot.owner = c /\ c # NoClass
  BY <1>4, <1>6, HierarchyAssumption DEF Owned
<1>10. PICK fns : fns = {f}
  OBVIOUS
<1>11. Chain(fns) /\ fns = Offered(c, n)'
  BY <1>4, <1>5, <1>10
<1>12. DispatcherNext(d, fns)
  BY <1>4, <1>7, <1>10, <1>11, DispatcherStarts
<1>13. MethodsOK(c, n)'
  BY <1>4, <1>8, <1>9, <1>10, <1>11, <1>12, MethodsThen
<1>14. ASSUME NEW m \in Arities, m # n PROVE MethodsOK(c, m)'
  <2>1. PICK own : own = <<>>
    OBVIOUS
  <2>2. DOMAIN own = {}
    BY <2>1
  <2>3. TableOK(own, c) /\ m \notin DOMAIN own /\ m \notin DOMAIN table'[c]
    BY <1>8, <1>14, <2>2 DEF TableOK
  <2> QED BY <1>1, <1>3, <1>4, <1>5, <1>14, <2>3, OtherArities
<1>15. \A m \in Arities : MethodsOK(c, m)'
  BY <1>13, <1>14
<1>16. \A d0 \in Class \ early' : table'[d0] # <<>> =>
         table[d0] # <<>> \/ \A g \in Inherited(d0) : InPlace(g)
  BY <1>1, <1>2, <1>3, <1>4, NotedInPlace
<1> QED BY <1>1, <1>3, <1>4, <1>15, <1>16, MethodsThenAll

LEMMA ArityInOrder ==
    ASSUME CallInv, OrderInv, InPlaceInv, MethodsInv, NEW f \in Fn, BindNewArity(f)
    PROVE  InPlaceInv' /\ MethodsInv'
<1> DEFINE n == Len(Params[f])
<1>1. PICK c : c = Of[f]
  OBVIOUS
<1>2. PICK own : own = table[Holder(table, c)]
  OBVIOUS
<1>3. PICK copy : copy = EnsureOverloadTable(table, c)
  OBVIOUS
<1>4. PICK slot : slot = OwnFunction(Stub(f))
  OBVIOUS
<1>5. /\ IsMember(f) /\ Bind(f) /\ NoteEarly(c) /\ Holder(table, c) # NoClass
      /\ n \notin DOMAIN own
      /\ table' = [copy EXCEPT ![c] = With(copy[c], n, slot)]
  BY <1>1, <1>2, <1>3, <1>4 DEF BindNewArity
<1>6. StartInv /\ BindOf(f)
  BY <1>1, <1>5, ArityIsBound, MethodBinds DEF CallInv
<1>7. /\ StepOf(f) /\ c \in Class /\ n \in Arities /\ program' = program
      /\ f \notin resolved /\ resolved' = resolved
      /\ Offered(c, n)' = Offered(c, n) \cup {f} /\ early \subseteq early'
  BY <1>1, <1>6 DEF BindOf, StepOf
<1>8. DOMAIN copy = Class /\ copy[c] = own /\ TableOK(own, c)
  BY <1>2, <1>3, <1>5, <1>6, <1>7, Ensured DEF StartInv
<1>9. /\ DOMAIN table'[c] = DOMAIN own \cup {n} /\ table'[c][n] = slot
      /\ \A m \in DOMAIN own : m # n => table'[c][m] = own[m]
  BY <1>5, <1>7, <1>8 DEF With
<1>10. ASSUME Clean(c) PROVE \A m \in Arities : MethodsOK(c, m)'
  <2>1. \A m \in Arities : /\ m \in DOMAIN own <=> Offered(c, m) # {}
                           /\ m \in DOMAIN own => SlotOf(own[m], m, Offered(c, m))
    BY <1>2, <1>5, <1>6, <1>7, <1>10, SlotAbove
  <2>2. PICK fns : fns = {f}
    OBVIOUS
  <2>3. fns = Offered(c, n)' /\ fns # {}
    BY <1>5, <1>7, <2>1, <2>2
  <2>4. slot.owner = NoClass /\ slot.entry = Present(f)'
    BY <1>4, <1>7 DEF OwnFunction, Present
  <2>5. MethodsOK(c, n)'
    BY <1>7, <1>9, <2>2, <2>3, <2>4, MethodsThen
  <2>6. ASSUME NEW m \in Arities, m # n PROVE MethodsOK(c, m)'
    BY <1>1, <1>6, <1>7, <1>8, <1>9, <2>1, <2>6, OtherArities
  <2> QED BY <2>5, <2>6
<1>11. Clean(c)' => Clean(c)
  BY <1>7 DEF Clean
<1>12. \A d \in Class \ early' : table'[d] # <<>> =>
         table[d] # <<>> \/ \A g \in Inherited(d) : InPlace(g)
  BY <1>1, <1>5, <1>6, <1>7, NotedInPlace
<1> QED BY <1>1, <1>6, <1>7, <1>10, <1>11, <1>12, MethodsThenAll

LEMMA OverloadInOrder ==
    ASSUME CallInv, OrderInv, InPlaceInv, MethodsInv, NEW f \in Fn, BindOverload(f)
    PROVE  InPlaceInv' /\ MethodsInv'
<1> DEFINE n == Len(Params[f])
<1>1. PICK c : c = Of[f]
  OBVIOUS
<1>2. PICK own : own = table[Holder(table, c)]
  OBVIOUS
<1>3. PICK copy : copy = EnsureOverloadTable(table, c)
  OBVIOUS
<1>4. PICK slot : slot = Owned(c)
  OBVIOUS
<1>5. PICK fork : fork = OwnDispatcher(copy[c][n], c, n)
  OBVIOUS
<1>6. PICK d : d = [signatures |-> With(fork.signatures, Params[f], Stub(f)),
                    order |-> Append(fork.order, f)]
  OBVIOUS
<1>7. /\ IsMember(f) /\ Bind(f) /\ NoteEarly(c) /\ Holder(table, c) # NoClass
      /\ n \in DOMAIN own
      /\ table' = [copy EXCEPT ![c][n] = slot]
      /\ dispatcher' = [dispatcher EXCEPT ![<<c, n>>] = d]
  BY <1>1, <1>2, <1>3, <1>4, <1>5, <1>6 DEF BindOverload
<1>8. StartInv /\ BindOf(f)
  BY <1>1, <1>7, OverloadIsBound, MethodBinds DEF CallInv
<1>9. /\ StepOf(f) /\ c \in Class /\ n \in Arities /\ program' = program
      /\ f \notin resolved /\ resolved' = resolved /\ early \subseteq early'
      /\ <<c, n>> \in Dispatchers /\ DOMAIN dispatcher = Dispatchers
  BY <1>1, <1>8 DEF BindOf, StepOf
<1>10. DOMAIN copy = Class /\ copy[c] = own /\ TableOK(own, c)
  BY <1>2, <1>3, <1>7, <1>8, <1>9, Ensured DEF StartInv
<1>11. /\ DOMAIN table'[c] = DOMAIN own /\ table'[c][n] = slot
       /\ \A m \in DOMAIN own : m # n => table'[c][m] = own[m]
       /\ dispatcher'[<<c, n>>] = d
  BY <1>7, <1>9, <1>10
<1>12. slot.owner = c /\ c # NoClass
  BY <1>4, <1>9, HierarchyAssumption DEF Owned
<1>13. ASSUME Clean(c) PROVE \A m \in Arities : MethodsOK(c, m)'
  <2>1. \A m \in Arities : /\ m \in DOMAIN own <=> Offered(c, m) # {}
                           /\ m \in DOMAIN own => SlotOf(own[m], m, Offered(c, m))
    BY <1>2, <1>7, <1>8, <1>9, <1>13, SlotAbove
  <2>2. PICK F : F = Offered(c, n)
    OBVIOUS
  <2>3. /\ f \notin F /\ F \subseteq Fn /\ Chain(F \cup {f}) /\ \A g \in F : Comes(g, f)
        /\ Offered(c, n)' = F \cup {f}
    BY <1>1, <1>8, <2>2 DEF BindOf
  <2>4. Chain(F)
    BY <2>3 DEF Chain
  <2>5. PICK old : old = own[n]
    OBVIOUS
  <2>6. SlotOf(old, n, F)
    BY <1>7, <1>9, <2>1, <2>2, <2>5
  <2>7. DispatcherOf(fork, F)
    BY <1>5, <1>10, <1>12, <2>3, <2>4, <2>5, <2>6, ForkIs
  <2>8. d.order = Append(fork.order, f) /\ d.signatures = With(fork.signatures, Params[f], Stub(f))
    BY <1>6
  <2>9. PICK fns : fns = F \cup {f}
    OBVIOUS
  <2>10. DispatcherNext(d, fns)
    BY <1>9, <2>3, <2>7, <2>8, <2>9, DispatcherGrows
  <2>11. fns = Offered(c, n)' /\ fns # {}
    BY <2>3, <2>9
  <2>12. MethodsOK(c, n)'
    BY <1>7, <1>9, <1>11, <1>12, <2>10, <2>11, MethodsThen
  <2>13. ASSUME NEW m \in Arities, m # n PROVE MethodsOK(c, m)'
    BY <1>1, <1>8, <1>9, <1>10, <1>11, <2>1, <2>13, OtherArities
  <2> QED BY <2>12, <2>13
<1>14. Clean(c)' => Clean(c)
  BY <1>9 DEF Clean
<1>15. \A e \in Class \ early' : table'[e] # <<>> =>
         table[e] # <<>> \/ \A g \in Inherited(e) : InPlace(g)
  BY <1>1, <1>7, <1>8, <1>9, NotedInPlace
<1> QED BY <1>1, <1>8, <1>9, <1>13, <1>14, <1>15, MethodsThenAll

-----------------------------------------------------------------------------
(* Resolving a method, in the table that its class has.                    *)
ResolveOf(f) ==
    /\ StepOf(f) /\ f \in Fn /\ f \in bound /\ bound' = bound /\ early' = early
    /\ f \notin resolved /\ Resolvable(f) /\ resolved' = resolved \cup {f}
    /\ Of[f] \in Class /\ Len(Params[f]) \in Arities
    /\ <<Of[f], Len(Params[f])>> \in Dispatchers
    /\ DOMAIN table = Class /\ DOMAIN dispatcher = Dispatchers
    /\ TableOK(table[Of[f]], Of[f]) /\ table[Of[f]] # <<>>
    /\ Len(Params[f]) \in DOMAIN table[Of[f]]
    /\ table[Of[f]][Len(Params[f])].owner \in {NoClass, Of[f]}
    /\ f \in Offered(Of[f], Len(Params[f]))
    /\ Offered(Of[f], Len(Params[f]))' = Offered(Of[f], Len(Params[f]))

LEMMA MethodResolves ==
    ASSUME CallInv, NEW f \in Fn, Resolve(f), IsMember(f), TableStep(f), DispatcherStep(f)
    PROVE  ResolveOf(f)
<1> DEFINE n == Len(Params[f])
           cb == <<"resolve", f>>
<1>1. PICK c : c = Of[f]
  OBVIOUS
<1>2. StartInv /\ AgendaInv /\ program \in Programs /\ bound \subseteq Linked
  BY DEF CallInv, StartInv, AgendaInv
<1>3. /\ f \in bound /\ f \in Linked /\ program' = program /\ bound' = bound
      /\ resolved' = resolved \cup {f} /\ early' = early
  BY <1>2, FunctionResolved DEF Resolve
<1>4. /\ c \in Class /\ n \in Arities /\ c \in In(Line[c]) /\ <<c, n>> \in Dispatchers
  BY <1>1, <1>2, <1>3, LinkedFunction
<1>5. f \notin resolved /\ Resolvable(f)
  <2>1. cb \in Callbacks /\ cb[1] = "resolve" /\ cb[2] = f
    BY DEF Callbacks
  <2>2. /\ agenda # <<>> /\ Head(agenda).callback = cb
        /\ missing[cb] \subseteq {Head(agenda).told}
    BY DEF Resolve, Called
  <2> HIDE DEF cb
  <2>3. LastTold(cb, Tail(agenda))
    BY <1>2, <2>1, <2>2, LastCall DEF CallInv
  <2>4. Pending(cb) /\ Needs(cb) \subseteq registered
    BY <2>3 DEF LastTold
  <2>5. registered \cap Absent = {}
    BY DEF CallInv, BlocksInv
  <2> QED BY <2>1, <2>4, <2>5 DEF Pending, Over, Needs, Resolvable
<1>6. StepOf(f)
  <2>1. ~ InPlace(f)
    BY <1>5 DEF InPlace
  <2>2. \A d \in Class \ {Of[f]} : table'[d] = table[d]
    BY DEF TableStep
  <2>3. \A x \in Dispatchers \ {<<Of[f], Len(Params[f])>>} : dispatcher'[x] = dispatcher[x]
    BY DEF DispatcherStep
  <2> QED BY <1>3, <2>1, <2>2, <2>3 DEF StepOf
<1>7. /\ n \in DOMAIN table[c] /\ table[c][n].owner \in {NoClass, c}
      /\ TableOK(table[c], c) /\ DOMAIN table = Class /\ DOMAIN dispatcher = Dispatchers
  BY <1>1, <1>2, <1>3, <1>4 DEF StartInv, BoundInv, TablesInv, DispatchersInv
<1>8. table[c] # <<>>
  <2>1. DOMAIN <<>> = {}
    OBVIOUS
  <2> QED BY <1>7, <2>1
<1>9. f \in Offered(c, n)
  BY <1>1, <1>3, <1>4 DEF Offered, Visible
<1>10. Offered(c, n)' = Offered(c, n)
  BY <1>3, <1>4, OfferedSame
<1> QED BY <1>1, <1>3, <1>4, <1>5, <1>6, <1>7, <1>8, <1>9, <1>10 DEF ResolveOf

LEMMA PlainInPlace ==
    ASSUME CallInv, InPlaceInv, MethodsInv, NEW f \in Fn, ResolvePlain(f)
    PROVE  InPlaceInv' /\ MethodsInv'
<1> DEFINE n == Len(Params[f])
<1>1. PICK c : c = Of[f]
  OBVIOUS
<1>2. PICK own : own = table[c]
  OBVIOUS
<1>3. PICK slot : slot = OwnFunction(Invoker(f))
  OBVIOUS
<1>4. /\ IsMember(f) /\ Resolve(f) /\ own[n].owner = NoClass
      /\ table' = [table EXCEPT ![c][n] = slot]
  BY <1>1, <1>2, <1>3 DEF ResolvePlain
<1>5. StartInv /\ ResolveOf(f)
  BY <1>4, SlotIsResolved, MethodResolves DEF CallInv
<1>6. /\ StepOf(f) /\ c \in Class /\ n \in Arities /\ program' = program
      /\ resolved' = resolved \cup {f} /\ early' = early /\ DOMAIN table = Class
      /\ TableOK(own, c) /\ own # <<>> /\ n \in DOMAIN own
      /\ f \in Offered(c, n) /\ Offered(c, n)' = Offered(c, n)
  BY <1>1, <1>2, <1>5 DEF ResolveOf, StepOf
<1>7. /\ DOMAIN table'[c] = DOMAIN own /\ table'[c][n] = slot
      /\ \A m \in DOMAIN own : m # n => table'[c][m] = own[m]
  BY <1>2, <1>4, <1>6
<1>8. ASSUME Clean(c) PROVE \A m \in Arities : MethodsOK(c, m)'
  <2>1. \A m \in Arities : /\ m \in DOMAIN own <=> Offered(c, m) # {}
                           /\ m \in DOMAIN own => SlotOf(own[m], m, Offered(c, m))
    BY <1>2, <1>6, <1>8 DEF MethodsInv, MethodsOK
  <2>2. PICK fns : fns = Offered(c, n)
    OBVIOUS
  <2>3. fns = {f} /\ fns = Offered(c, n)'
    <3>1. SlotOf(own[n], n, fns)
      BY <1>6, <2>1, <2>2
    <3> QED BY <1>4, <1>6, <2>2, <3>1 DEF SlotOf
  <2>4. slot.owner = NoClass /\ slot.entry = Present(f)'
    BY <1>3, <1>6 DEF OwnFunction, Present
  <2>5. MethodsOK(c, n)'
    BY <1>6, <1>7, <2>3, <2>4, MethodsThen
  <2>6. ASSUME NEW m \in Arities, m # n PROVE MethodsOK(c, m)'
    BY <1>1, <1>5, <1>6, <1>7, <2>1, <2>6, OtherArities
  <2> QED BY <2>5, <2>6
<1>9. Clean(c)' => Clean(c)
  BY <1>6 DEF Clean
<1>10. \A d \in Class \ early' : table'[d] # <<>> => table[d] # <<>>
  BY <1>1, <1>2, <1>6 DEF StepOf
<1> QED BY <1>1, <1>5, <1>6, <1>8, <1>9, <1>10, MethodsThenAll

LEMMA OverloadInPlace ==
    ASSUME CallInv, InPlaceInv, MethodsInv, NEW f \in Fn, ResolveOverload(f)
    PROVE  InPlaceInv' /\ MethodsInv'
<1> DEFINE n == Len(Params[f])
<1>1. PICK c : c = Of[f]
  OBVIOUS
<1>2. PICK own : own = table[c]
  OBVIOUS
<1>3. PICK old : old = dispatcher[<<c, n>>]
  OBVIOUS
<1>4. IsMember(f) /\ Resolve(f) /\ table' = table
  BY DEF ResolveOverload
<1>5. StartInv /\ ResolveOf(f)
  BY <1>4, EntryIsResolved, MethodResolves DEF CallInv
<1>6. /\ StepOf(f) /\ c \in Class /\ n \in Arities /\ program' = program
      /\ resolved' = resolved \cup {f} /\ early' = early
      /\ f \notin resolved /\ Resolvable(f) /\ TableOK(own, c) /\ own # <<>>
      /\ n \in DOMAIN own /\ own[n].owner \in {NoClass, c}
      /\ <<c, n>> \in Dispatchers /\ DOMAIN dispatcher = Dispatchers
      /\ f \in Offered(c, n) /\ Offered(c, n)' = Offered(c, n)
  BY <1>1, <1>2, <1>5 DEF ResolveOf, StepOf
<1>7. own[n].owner = c /\ c # NoClass
  BY <1>1, <1>2, <1>6 DEF ResolveOverload
<1>8. PICK d : d = [old EXCEPT !.signatures = Resolved(@, f)]
  OBVIOUS
<1>9. dispatcher'[<<c, n>>] = d
  <2>1. dispatcher' = [dispatcher EXCEPT ![<<c, n>>].signatures = Resolved(@, f)]
    BY <1>1, <1>2, <1>7 DEF ResolveOverload
  <2> QED BY <1>3, <1>6, <1>8, <2>1
<1>10. /\ program \in Programs /\ (\A h \in resolved : Resolvable(h))
       /\ old = [signatures |-> old.signatures, order |-> old.order]
  BY <1>3, <1>6, ResolvedAre DEF CallInv, StartInv, AgendaInv, DispatchersInv, DispatcherOK
<1>11. d.order = old.order /\ d.signatures = Resolved(old.signatures, f)
  BY <1>8, <1>10
<1>12. ASSUME Clean(c) PROVE \A m \in Arities : MethodsOK(c, m)'
  <2>1. \A m \in Arities : /\ m \in DOMAIN own <=> Offered(c, m) # {}
                           /\ m \in DOMAIN own => SlotOf(own[m], m, Offered(c, m))
    BY <1>2, <1>6, <1>12 DEF MethodsInv, MethodsOK
  <2>2. PICK fns : fns = Offered(c, n)
    OBVIOUS
  <2>3. PICK slot : slot = own[n]
    OBVIOUS
  <2>4. SlotOf(slot, n, fns) /\ slot.owner = c
    BY <1>6, <1>7, <2>1, <2>2, <2>3
  <2>5. DispatcherOf(old, fns)
    BY <1>3, <1>7, <2>4 DEF SlotOf
  <2>6. \A g \in fns : g \in Linked /\ IsMember(g) /\ Of[g] \in In(Line[c])
    BY <1>6, <1>10, <2>2, VisibleIs
  <2>7. \A g \in fns \ {f} : Of[g] = Of[f] \/ Comes(g, f)
    BY <1>1, <2>6 DEF Comes
  <2>8. Chain(fns)
    BY <1>6, <1>10, <2>2, VisibleIs
  <2>9. DispatcherNext(d, fns)
    BY <1>6, <1>10, <1>11, <2>2, <2>5, <2>6, <2>7, <2>8, DispatcherResolved
  <2>10. fns = Offered(c, n)' /\ fns # {} /\ n \in DOMAIN table'[c] /\ slot = table'[c][n]
    BY <1>2, <1>4, <1>6, <2>2, <2>3
  <2>11. MethodsOK(c, n)'
    BY <1>6, <1>7, <1>9, <2>4, <2>9, <2>10, MethodsThen
  <2>12. ASSUME NEW m \in Arities, m # n PROVE MethodsOK(c, m)'
    BY <1>1, <1>2, <1>4, <1>5, <1>6, <2>1, <2>12, OtherArities
  <2> QED BY <2>11, <2>12
<1>13. Clean(c)' => Clean(c)
  BY <1>6 DEF Clean
<1>14. \A e \in Class \ early' : table'[e] # <<>> => table[e] # <<>>
  BY <1>4
<1> QED BY <1>1, <1>5, <1>6, <1>12, <1>13, <1>14, MethodsThenAll

-----------------------------------------------------------------------------
(* The invariant of the methods.                                           *)
LEMMA MethodsInit == StartInit => InPlaceInv /\ MethodsInv
<1> SUFFICES ASSUME StartInit PROVE InPlaceInv /\ MethodsInv
  OBVIOUS
<1>1. \A c \in Class : table[c] = <<>>
  BY DEF StartInit
<1> QED BY <1>1 DEF InPlaceInv, MethodsInv

LEMMA MethodsSteps ==
    ASSUME CallInv, OrderInv, InPlaceInv, MethodsInv, [StartNext]_startVars
    PROVE  InPlaceInv' /\ MethodsInv'
<1>1. /\ program \in Programs /\ bound \subseteq Linked /\ StartInv /\ AgendaInv
  BY DEF CallInv, StartInv, AgendaInv
<1>2. ASSUME \/ \E b \in Type : StartBlock(b)
             \/ RegisterEnum \/ RegisterClass \/ RegisterFunction \/ CountType
             \/ \E c \in Class : CompleteClass(c)
             \/ UNCHANGED startVars
      PROVE  InPlaceInv' /\ MethodsInv'
  <2>1. UNCHANGED <<program, bound, resolved, tables, early>>
    BY <1>2 DEF StartBlock, RegisterEnum, RegisterClass, RegisterFunction, Statement,
                CountType, CompleteClass, Called, startVars
  <2> QED BY <1>1, <2>1, MethodsSame
<1>3. ASSUME NEW f \in Fn, BindCtor(f) PROVE InPlaceInv' /\ MethodsInv'
  <2>1. Bind(f) /\ ~ IsMember(f) /\ UNCHANGED <<tables, early>>
    BY <1>3 DEF BindCtor
  <2>2. f \in Linked /\ program' = program /\ bound' = bound \cup {f} /\ resolved' = resolved
    BY <1>1, <2>1, FunctionBound
  <2> QED BY <1>1, <2>1, <2>2, MethodsSame
<1>4. ASSUME NEW f \in Fn, ResolveCtor(f) PROVE InPlaceInv' /\ MethodsInv'
  <2>1. Resolve(f) /\ ~ IsMember(f) /\ UNCHANGED <<tables, early>>
    BY <1>4 DEF ResolveCtor, Resolve
  <2>2. program' = program /\ bound' = bound /\ resolved' = resolved \cup {f}
    BY <1>1, <2>1, FunctionResolved
  <2> QED BY <1>1, <2>1, <2>2, MethodsSame
<1> QED BY <1>2, <1>3, <1>4, FirstInOrder, ArityInOrder, OverloadInOrder,
           PlainInPlace, OverloadInPlace DEF StartNext

(* While a module starts, a class that got its table when all it inherits  *)
(* was in place has, of each arity, what the functions of its line that    *)
(* are bound give it: a lone function, or a dispatcher that lists them in  *)
(* the order of the source, bases first, each once, and that holds under   *)
(* each key the most derived of them with this key.                        *)
THEOREM MethodsInOrder == StartSpec => [](InPlaceInv /\ MethodsInv)
<1>1. InPlaceInv /\ MethodsInv /\ (CallInv /\ OrderInv) /\ [StartNext]_startVars
      => InPlaceInv' /\ MethodsInv'
  BY MethodsSteps
<1> QED BY BoundInOrder, MethodsInit, <1>1, PTL DEF StartSpec

-----------------------------------------------------------------------------
(* A lone method of an arity is called without a look at the arguments if   *)
(* and only if another method of the name was registered before it.        *)
Behind(c, f) == \E g \in bound : g \in Visible(c) /\ Comes(g, f)
Leads(own, c) ==
    \A n \in DOMAIN own : \A f : Offered(c, n) = {f} =>
      (own[n].owner = NoClass <=> Behind(c, f))
LeadInv ==
    \A c \in Class : Clean(c) /\ table[c] # <<>> =>
      DOMAIN table[c] # {} /\ Leads(table[c], c)

LEMMA BehindIs ==
    ASSUME program' = program, NEW c \in Class
    PROVE  /\ \A f : Behind(c, f) <=> \E n : \E g \in Offered(c, n) : Comes(g, f)
           /\ \A f : Behind(c, f)' <=> \E g \in bound' : g \in Visible(c) /\ Comes(g, f)
<1>1. \A f, g : Comes(f, g)' <=> Comes(f, g)
  BY DEF Comes, Before, Source
<1>2. Visible(c)' = Visible(c)
  BY DEF Visible, Linked, IsMember
<1>3. \A f : Behind(c, f) <=> \E n : \E g \in Offered(c, n) : Comes(g, f)
  BY OfferedThen DEF Behind
<1>4. \A f : Behind(c, f)' <=> \E g \in bound' : g \in Visible(c) /\ Comes(g, f)
  BY <1>1, <1>2 DEF Behind
<1> QED BY <1>3, <1>4

(* The table that a class has or inherits.                                 *)
LEMMA LeadsAbove ==
    ASSUME StartInv, LeadInv, NEW c \in Class, Clean(c), Holder(table, c) # NoClass,
           NEW own, own = table[Holder(table, c)]
    PROVE  DOMAIN own # {} /\ Leads(own, c)
<1>1. PICK h : h = Holder(table, c)
  OBVIOUS
<1>2. /\ h \in Class /\ table[h] # <<>> /\ In(Line[h]) \subseteq In(Line[c])
      /\ \A n : Offered(c, n) = Offered(h, n)
  BY <1>1, OfferedAbove
<1>3. DOMAIN own # {} /\ Leads(own, h)
  BY <1>1, <1>2 DEF LeadInv, Clean
<1>4. \A f : Behind(c, f) <=> Behind(h, f)
  <2>1. \A g : g \in bound /\ g \in Visible(c) <=> g \in Offered(c, Len(Params[g]))
    BY DEF Offered
  <2>2. \A g : g \in bound /\ g \in Visible(h) <=> g \in Offered(h, Len(Params[g]))
    BY DEF Offered
  <2> QED BY <1>2, <2>1, <2>2 DEF Behind
<1> QED BY <1>2, <1>3, <1>4 DEF Leads

(* Steps that bind no method keep the kind of every slot.                  *)
LEMMA LeadsSame ==
    ASSUME LeadInv, program' = program, early \subseteq early', NEW c \in Class,
           Clean(c)', table'[c] # <<>>, table[c] # <<>>,
           \A g \in Visible(c) : g \in bound' <=> g \in bound,
           DOMAIN table'[c] = DOMAIN table[c],
           \A n \in DOMAIN table[c] : table'[c][n].owner = table[c][n].owner
    PROVE  DOMAIN table'[c] # {} /\ Leads(table[c], c)'
<1>1. DOMAIN table[c] # {} /\ Leads(table[c], c)
  BY DEF LeadInv, Clean
<1>2. \A n : Offered(c, n)' = Offered(c, n)
  BY OfferedSame
<1>3. \A f : Behind(c, f)' <=> Behind(c, f)
  BY BehindIs DEF Behind
<1> QED BY <1>1, <1>2, <1>3 DEF Leads

LEMMA LeadSame ==
    ASSUME LeadInv, program' = program, early \subseteq early',
           \A c \in Class : /\ table'[c] # <<>> => table[c] # <<>>
                            /\ DOMAIN table'[c] = DOMAIN table[c]
                            /\ \A n \in DOMAIN table[c] :
                                 table'[c][n].owner = table[c][n].owner,
           \A g \in Linked : IsMember(g) => (g \in bound' <=> g \in bound)
    PROVE  LeadInv'
<1>1. \A c \in Class : \A g \in Visible(c) : g \in bound' <=> g \in bound
  BY DEF Visible
<1> QED BY <1>1, LeadsSame DEF LeadInv

(* The methods that a class has when another of its own is bound.          *)
LEMMA BoundBefore ==
    ASSUME CallInv, OrderInv, NEW f \in Fn, Bind(f), IsMember(f)
    PROVE  \A g \in bound : g \in Visible(Of[f]) => Comes(g, f) /\ ~ Comes(f, g)
<1>1. StartInv /\ AgendaInv /\ program \in Programs
  BY DEF CallInv, StartInv, AgendaInv
<1>2. f \in Linked \ bound /\ \A g \in Linked : Before(g, f) => g \in bound
  BY <1>1, BoundOrders, FunctionBound
<1>3. PICK c : c = Of[f]
  OBVIOUS
<1>4. c \in Class /\ c \in In(Line[c])
  BY <1>1, <1>2, <1>3, LinkedFunction
<1>5. ASSUME NEW g \in bound, g \in Visible(c) PROVE Comes(g, f) /\ ~ Comes(f, g)
  <2>1. g \in Linked /\ Of[g] \in In(Line[c]) /\ g # f
    BY <1>2, <1>5 DEF Visible
  <2>2. ~ Before(f, g)
    BY <1>2, <1>5, <2>1 DEF OrderInv
  <2>3. c \in In(Line[Of[g]]) => c = Of[g]
    BY <1>4, <2>1, LineAntisymmetric
  <2>4. ~ Comes(f, g)
    BY <1>3, <2>2, <2>3 DEF Comes
  <2>5. Chain({f, g})
    BY <1>1, <1>2, <1>3, <1>4, <2>1, VisibleChain
  <2> QED BY <2>1, <2>4, <2>5 DEF Chain
<1> QED BY <1>3, <1>5

(* What a method that is bound leaves its class with.                      *)
LEMMA LeadGrows ==
    ASSUME NEW f, BindOf(f), NEW c, c = Of[f], NEW n, n = Len(Params[f]),
           \A g \in bound : g \in Visible(c) => Comes(g, f) /\ ~ Comes(f, g),
           NEW own, Leads(own, c), DOMAIN table'[c] = DOMAIN own \cup {n},
           \A m \in DOMAIN own : m # n => table'[c][m] = own[m],
           Offered(c, n) = {} => (table'[c][n].owner = NoClass <=> Behind(c, f))
    PROVE  DOMAIN table'[c] # {} /\ Leads(table[c], c)'
<1>1. /\ c \in Class /\ program' = program /\ ~ Comes(f, f) /\ f \notin Offered(c, n)
      /\ Offered(c, n)' = Offered(c, n) \cup {f}
      /\ \A g : g # f => (g \in bound' <=> g \in bound)
      /\ bound \subseteq bound'
  BY DEF BindOf, StepOf, Chain
<1>2. ASSUME NEW g, ~ Comes(f, g) PROVE Behind(c, g)' <=> Behind(c, g)
  BY <1>1, <1>2, BehindIs DEF Behind
<1>3. ASSUME NEW m \in DOMAIN table'[c], NEW g, Offered(c, m)' = {g}
      PROVE  table'[c][m].owner = NoClass <=> Behind(c, g)'
  <2>1. CASE m # n
    <3>1. \A x \in Visible(c) : Len(Params[x]) = m => (x \in bound' <=> x \in bound)
      BY <1>1, <2>1
    <3>2. Offered(c, m)' = Offered(c, m)
      BY <1>1, <3>1, OfferedSame
    <3>3. g \in bound /\ g \in Visible(c)
      BY <1>3, <3>2 DEF Offered
    <3>4. table'[c][m] = own[m] /\ m \in DOMAIN own
      BY <1>3, <2>1
    <3>5. own[m].owner = NoClass <=> Behind(c, g)
      BY <1>3, <3>2, <3>4 DEF Leads
    <3> QED BY <1>2, <3>3, <3>4, <3>5
  <2>2. CASE m = n
    <3>1. g = f /\ Offered(c, n) = {}
      BY <1>1, <1>3, <2>2
    <3> QED BY <1>1, <1>2, <2>2, <3>1
  <2> QED BY <2>1, <2>2
<1> QED BY <1>3 DEF Leads

(* It is enough to know the table of its class.                            *)
LEMMA LeadThenAll ==
    ASSUME StartInv, InPlaceInv, LeadInv, NEW f, StepOf(f), Of[f] \in Class,
           Clean(Of[f])' => DOMAIN table'[Of[f]] # {} /\ Leads(table[Of[f]], Of[f])'
    PROVE  LeadInv'
<1>1. ASSUME NEW d \in Class, Clean(d)', table'[d] # <<>>
      PROVE  DOMAIN table'[d] # {} /\ Leads(table[d], d)'
  <2>1. CASE d = Of[f]
    <3>1. PICK c : c = Of[f]
      OBVIOUS
    <3>2. Clean(c)' => DOMAIN table'[c] # {} /\ Leads(table[c], c)'
      BY <3>1
    <3> QED BY <1>1, <2>1, <3>1, <3>2
  <2>2. CASE d # Of[f]
    <3>1. /\ Clean(d) /\ table'[d] = table[d] /\ table[d] # <<>> /\ program' = program
          /\ f \in Linked /\ IsMember(f) /\ ~ InPlace(f) /\ early \subseteq early'
      BY <1>1, <2>2 DEF StepOf, Clean
    <3>2. Of[f] \notin In(Line[d])
      BY <2>2, <3>1, Overtaken
    <3>3. \A g \in Visible(d) : g \in bound' <=> g \in bound
      BY <3>2 DEF Visible, StepOf
    <3> QED BY <1>1, <3>1, <3>3, LeadsSame
  <2> QED BY <2>1, <2>2
<1> QED BY <1>1 DEF LeadInv

LEMMA FirstLeads ==
    ASSUME CallInv, OrderInv, InPlaceInv, MethodsInv, LeadInv, NEW f \in Fn, BindFirst(f)
    PROVE  LeadInv'
<1>1. PICK n : n = Len(Params[f])
  OBVIOUS
<1>2. PICK c : c = Of[f]
  OBVIOUS
<1>3. /\ IsMember(f) /\ Bind(f) /\ NoteEarly(c) /\ Holder(table, c) = NoClass
      /\ table' = [table EXCEPT ![c] = [k \in {n} |-> Owned(c)]]
  BY <1>1, <1>2 DEF BindFirst
<1>4. StartInv /\ BindOf(f)
  BY <1>2, <1>3, FirstIsBound, MethodBinds DEF CallInv
<1>5. /\ StepOf(f) /\ c \in Class /\ DOMAIN table = Class /\ program' = program
  BY <1>2, <1>4 DEF BindOf, StepOf
<1>6. \A m : Offered(c, m) = {}
  BY <1>3, <1>4, <1>5, OfferedAbove
<1>7. ~ Behind(c, f)
  BY <1>5, <1>6, BehindIs
<1>8. DOMAIN table'[c] = {n} /\ table'[c][n].owner = c /\ c # NoClass
  BY <1>3, <1>5, HierarchyAssumption DEF Owned
<1>9. PICK own : own = <<>>
  OBVIOUS
<1>10. DOMAIN own = {}
  BY <1>9
<1>11. Leads(own, c)
  BY <1>10 DEF Leads
<1>12. \A g \in bound : g \in Visible(c) => Comes(g, f) /\ ~ Comes(f, g)
  BY <1>2, <1>3, BoundBefore
<1>13. DOMAIN table'[c] # {} /\ Leads(table[c], c)'
  BY <1>1, <1>2, <1>4, <1>7, <1>8, <1>10, <1>11, <1>12, LeadGrows
<1> QED BY <1>2, <1>4, <1>5, <1>13, LeadThenAll

LEMMA ArityLeads ==
    ASSUME CallInv, OrderInv, InPlaceInv, MethodsInv, LeadInv, NEW f \in Fn, BindNewArity(f)
    PROVE  LeadInv'
<1>1. PICK n : n = Len(Params[f])
  OBVIOUS
<1>2. PICK c : c = Of[f]
  OBVIOUS
<1>3. PICK own : own = table[Holder(table, c)]
  OBVIOUS
<1>4. PICK copy : copy = EnsureOverloadTable(table, c)
  OBVIOUS
<1>5. PICK slot : slot = OwnFunction(Stub(f))
  OBVIOUS
<1>6. /\ IsMember(f) /\ Bind(f) /\ NoteEarly(c) /\ Holder(table, c) # NoClass
      /\ n \notin DOMAIN own
      /\ table' = [copy EXCEPT ![c] = With(copy[c], n, slot)]
  BY <1>1, <1>2, <1>3, <1>4, <1>5 DEF BindNewArity
<1>7. StartInv /\ BindOf(f)
  BY <1>2, <1>6, ArityIsBound, MethodBinds DEF CallInv
<1>8. /\ StepOf(f) /\ c \in Class /\ program' = program /\ early \subseteq early'
  BY <1>2, <1>7 DEF BindOf, StepOf
<1>9. DOMAIN copy = Class /\ copy[c] = own /\ TableOK(own, c)
  BY <1>3, <1>4, <1>6, <1>7, <1>8, Ensured DEF StartInv
<1>10. /\ DOMAIN table'[c] = DOMAIN own \cup {n} /\ table'[c][n] = slot
       /\ \A m \in DOMAIN own : m # n => table'[c][m] = own[m]
  BY <1>6, <1>8, <1>9 DEF With
<1>11. \A g \in bound : g \in Visible(c) => Comes(g, f) /\ ~ Comes(f, g)
  BY <1>2, <1>6, BoundBefore
<1>12. ASSUME Clean(c) PROVE DOMAIN table'[c] # {} /\ Leads(table[c], c)'
  <2>1. DOMAIN own # {} /\ Leads(own, c)
    BY <1>3, <1>6, <1>7, <1>8, <1>12, LeadsAbove
  <2>2. PICK m \in DOMAIN own : m \in Arities
    BY <1>9, <2>1 DEF TableOK
  <2>3. Offered(c, m) # {}
    BY <1>3, <1>6, <1>7, <1>8, <1>12, <2>2, SlotAbove
  <2>4. Behind(c, f)
    <3>1. PICK g \in Offered(c, m) : TRUE
      BY <2>3
    <3>2. g \in bound /\ g \in Visible(c)
      BY DEF Offered
    <3> QED BY <1>11, <3>2 DEF Behind
  <2>5. slot.owner = NoClass
    BY <1>5 DEF OwnFunction
  <2> QED BY <1>1, <1>2, <1>7, <1>10, <1>11, <2>1, <2>4, <2>5, LeadGrows
<1>13. Clean(c)' => Clean(c)
  BY <1>8 DEF Clean
<1> QED BY <1>2, <1>7, <1>8, <1>12, <1>13, LeadThenAll

LEMMA OverloadLeads ==
    ASSUME CallInv, OrderInv, InPlaceInv, MethodsInv, LeadInv, NEW f \in Fn, BindOverload(f)
    PROVE  LeadInv'
<1>1. PICK n : n = Len(Params[f])
  OBVIOUS
<1>2. PICK c : c = Of[f]
  OBVIOUS
<1>3. PICK own : own = table[Holder(table, c)]
  OBVIOUS
<1>4. PICK copy : copy = EnsureOverloadTable(table, c)
  OBVIOUS
<1>5. /\ IsMember(f) /\ Bind(f) /\ NoteEarly(c) /\ Holder(table, c) # NoClass
      /\ n \in DOMAIN own
      /\ table' = [copy EXCEPT ![c][n] = Owned(c)]
  BY <1>1, <1>2, <1>3, <1>4 DEF BindOverload
<1>6. StartInv /\ BindOf(f)
  BY <1>2, <1>5, OverloadIsBound, MethodBinds DEF CallInv
<1>7. /\ StepOf(f) /\ c \in Class /\ n \in Arities /\ program' = program
      /\ early \subseteq early'
  BY <1>1, <1>2, <1>6 DEF BindOf, StepOf
<1>8. DOMAIN copy = Class /\ copy[c] = own /\ TableOK(own, c)
  BY <1>3, <1>4, <1>5, <1>6, <1>7, Ensured DEF StartInv
<1>9. /\ DOMAIN table'[c] = DOMAIN own \cup {n}
      /\ \A m \in DOMAIN own : m # n => table'[c][m] = own[m]
  BY <1>5, <1>7, <1>8
<1>10. \A g \in bound : g \in Visible(c) => Comes(g, f) /\ ~ Comes(f, g)
  BY <1>2, <1>5, BoundBefore
<1>11. ASSUME Clean(c) PROVE DOMAIN table'[c] # {} /\ Leads(table[c], c)'
  <2>1. Leads(own, c)
    BY <1>3, <1>5, <1>6, <1>7, <1>11, LeadsAbove
  <2>2. Offered(c, n) # {}
    BY <1>3, <1>5, <1>6, <1>7, <1>11, SlotAbove
  <2> QED BY <1>1, <1>2, <1>6, <1>9, <1>10, <2>1, <2>2, LeadGrows
<1>12. Clean(c)' => Clean(c)
  BY <1>7 DEF Clean
<1> QED BY <1>2, <1>6, <1>7, <1>11, <1>12, LeadThenAll

LEMMA LeadSteps ==
    ASSUME CallInv, OrderInv, InPlaceInv, MethodsInv, LeadInv, [StartNext]_startVars
    PROVE  LeadInv'
<1>1. /\ program \in Programs /\ bound \subseteq Linked /\ StartInv /\ AgendaInv
  BY DEF CallInv, StartInv, AgendaInv
<1>2. ASSUME UNCHANGED <<program, table, early>>,
             \A g \in Linked : IsMember(g) => (g \in bound' <=> g \in bound)
      PROVE  LeadInv'
  BY <1>2, LeadSame
<1>3. ASSUME \/ \E b \in Type : StartBlock(b)
             \/ RegisterEnum \/ RegisterClass \/ RegisterFunction \/ CountType
             \/ \E c \in Class : CompleteClass(c)
             \/ UNCHANGED startVars
      PROVE  LeadInv'
  <2>1. UNCHANGED <<program, bound, table, early>>
    BY <1>3 DEF StartBlock, RegisterEnum, RegisterClass, RegisterFunction, Statement,
                CountType, CompleteClass, Called, startVars, tables
  <2> QED BY <1>2, <2>1
<1>4. ASSUME NEW f \in Fn, BindCtor(f) PROVE LeadInv'
  <2>1. Bind(f) /\ ~ IsMember(f) /\ UNCHANGED <<table, early>>
    BY <1>4 DEF BindCtor, tables
  <2>2. program' = program /\ bound' = bound \cup {f}
    BY <1>1, <2>1, FunctionBound
  <2> QED BY <1>2, <2>1, <2>2
<1>5. ASSUME NEW f \in Fn, Resolve(f), UNCHANGED table PROVE LeadInv'
  <2>1. UNCHANGED <<program, bound, early>>
    BY <1>5 DEF Resolve, Called
  <2> QED BY <1>2, <1>5, <2>1
<1>6. ASSUME NEW f \in Fn, ResolvePlain(f) PROVE LeadInv'
  <2>1. PICK n : n = Len(Params[f])
    OBVIOUS
  <2>2. PICK c : c = Of[f]
    OBVIOUS
  <2>3. /\ Resolve(f) /\ table[c][n].owner = NoClass /\ IsMember(f)
        /\ table' = [table EXCEPT ![c][n] = OwnFunction(Invoker(f))]
    BY <1>6, <2>1, <2>2 DEF ResolvePlain
  <2>4. UNCHANGED <<program, bound, early>> /\ ResolveOf(f)
    <3>1. UNCHANGED <<program, bound, early>>
      BY <2>3 DEF Resolve, Called
    <3>2. ResolveOf(f)
      BY <1>1, <1>6, <2>3, SlotIsResolved, MethodResolves DEF CallInv
    <3> QED BY <3>1, <3>2
  <2>5. c \in Class /\ DOMAIN table = Class /\ table[c] # <<>> /\ n \in DOMAIN table[c]
    BY <2>1, <2>2, <2>4 DEF ResolveOf
  <2>6. OwnFunction(Invoker(f)).owner = NoClass
    BY DEF OwnFunction
  <2>7. /\ DOMAIN table'[c] = DOMAIN table[c] /\ \A d \in Class : d # c => table'[d] = table[d]
        /\ \A m \in DOMAIN table[c] : table'[c][m].owner = table[c][m].owner
    BY <2>3, <2>5, <2>6
  <2>8. \A d \in Class : /\ table'[d] # <<>> => table[d] # <<>>
                         /\ DOMAIN table'[d] = DOMAIN table[d]
                         /\ \A m \in DOMAIN table[d] :
                              table'[d][m].owner = table[d][m].owner
    BY <2>5, <2>7
  <2> QED BY <2>4, <2>8, LeadSame
<1>7. ASSUME NEW f \in Fn, ResolveOverload(f) \/ ResolveCtor(f) PROVE LeadInv'
  BY <1>5, <1>7 DEF ResolveOverload, ResolveCtor, tables
<1> QED BY <1>3, <1>4, <1>6, <1>7, FirstLeads, ArityLeads, OverloadLeads DEF StartNext

LEMMA LeadInit == StartInit => LeadInv
<1> SUFFICES ASSUME StartInit PROVE LeadInv
  OBVIOUS
<1>1. \A c \in Class : table[c] = <<>>
  BY DEF StartInit
<1> QED BY <1>1 DEF LeadInv

(* A lone method of its arity is called directly exactly if it is not the  *)
(* first of its name: while a module starts, and in every order of blocks. *)
LEMMA LeadInOrder == StartSpec => []LeadInv
<1>1. LeadInv /\ (InPlaceInv /\ MethodsInv) /\ (CallInv /\ OrderInv)
      /\ [StartNext]_startVars => LeadInv'
  BY LeadSteps
<1> QED BY BoundInOrder, MethodsInOrder, LeadInit, <1>1, PTL DEF StartSpec

(* A started module calls the method that the source order chooses.        *)
LEMMA MethodAnswers ==
    ASSUME CallInv, MethodsInv, LeadInv, Started,
           NEW c \in Class, Clean(c), NEW arguments \in Calls
    PROVE  Answer(CallMethod(c, arguments)) = Expected(Visible(c), Later(c), arguments)
<1> DEFINE arities(F) == {Len(Params[f]) : f \in F}
<1>1. /\ StartInv /\ program \in Programs
      /\ bound = Linked /\ resolved = {f \in Linked : Resolvable(f)}
  BY AllCalled DEF CallInv, StartInv, AgendaInv
<1>2. PICK fns : fns = Visible(c)
  OBVIOUS
<1>3. /\ \A f \in fns : f \in Linked /\ Of[f] \in In(Line[c]) /\ Len(Params[f]) \in Arities
      /\ fns \subseteq Fn
  BY <1>1, <1>2, VisibleIs
<1>4. \A n : Offered(c, n) = {f \in fns : Len(Params[f]) = n}
  BY <1>1, <1>2, <1>3 DEF Offered
<1>5. PICK later : later = Later(c)
  OBVIOUS
<1>6. \A f \in fns : f \in later <=> Behind(c, f)
  BY <1>1, <1>2, <1>3, <1>5 DEF Later, Behind
<1>7. PICK a : a = Padded(arities(fns), arguments)
  OBVIOUS
<1>8. PICK n : n = Len(a)
  OBVIOUS
<1>9. PICK fs : fs = {f \in fns : Len(Params[f]) = n}
  OBVIOUS
<1>10. PICK expected : expected = Expected(fns, later, arguments)
  OBVIOUS
<1>11. /\ fs = {} => expected = {}
       /\ (\E f \in later : fs = {f}) =>
            expected = {f \in fs : Resolvable(f) /\ Converts(f, a)}
       /\ (\A f \in later : fs # {f}) => expected = Chosen(fs, a)
  <2>1. a = Padded({Len(Params[f]) : f \in fns}, arguments)
    BY <1>7
  <2>2. fs = {f \in fns : Len(Params[f]) = Len(a)}
    BY <1>8, <1>9
  <2> HIDE DEF arities
  <2>3. expected = IF \E f \in later : fs = {f}
                   THEN {f \in fs : Resolvable(f) /\ Converts(f, a)}
                   ELSE Chosen(fs, a)
    BY <1>10, <2>1, <2>2 DEF Expected
  <2>4. fs = {} => Chosen(fs, a) = {} /\ \A f \in later : fs # {f}
    BY NothingChosen
  <2> QED BY <2>3, <2>4
<1>12. fs \subseteq Fn /\ Settled(fs)
  <2>1. \A f \in fs : f \in Linked /\ Of[f] \in In(Line[c])
    BY <1>3, <1>9
  <2>2. Chain(fs)
    BY <1>1, <2>1, VisibleChain
  <2> QED BY <1>1, <1>3, <1>9, <2>2 DEF Settled
<1>13. PICK result : result = CallMethod(c, arguments)
  OBVIOUS
<1>14. PICK h : h = Holder(table, c)
  OBVIOUS
<1>15. Answer(result) = expected
  <2>1. CASE h = NoClass
    <3>1. result = "no method"
      BY <1>13, <1>14, <2>1 DEF CallMethod
    <3>2. Offered(c, n) = {}
      BY <1>1, <1>14, <2>1, OfferedAbove
    <3>3. fs = {}
      BY <1>4, <1>9, <3>2
    <3> QED BY <1>11, <3>1, <3>3, NoAnswer DEF Failures
  <2>2. CASE h # NoClass
    <3>1. PICK own : own = table[h]
      OBVIOUS
    <3>2. h \in Class
      BY <1>1, <1>14, <2>2, OfferedAbove
    <3>3. DOMAIN own \subseteq Arities /\ Leads(own, c)
      BY <1>1, <1>14, <2>2, <3>1, <3>2, LeadsAbove DEF StartInv, TablesInv, TableOK
    <3>4. \A k \in Arities : /\ k \in DOMAIN own <=> Offered(c, k) # {}
                             /\ k \in DOMAIN own => SlotOf(own[k], k, Offered(c, k))
      BY <1>1, <1>14, <2>2, <3>1, SlotAbove
    <3>5. DOMAIN own = arities(fns)
      BY <1>3, <1>4, <3>3, <3>4
    <3>6. result = IF n \notin DOMAIN own THEN "invalid number of arguments"
                   ELSE IF own[n].owner = NoClass THEN Direct(own[n].entry, a)
                   ELSE Select(dispatcher[<<own[n].owner, n>>], a)
      <4> HIDE DEF arities
      <4>1. a = Padded(DOMAIN own, arguments)
        BY <1>7, <3>5
      <4> QED BY <1>8, <1>13, <1>14, <2>2, <3>1, <4>1 DEF CallMethod
    <3>7. CASE n \notin DOMAIN own
      <4>1. fs = {}
        BY <1>9, <3>5, <3>7
      <4>2. result \in Failures
        BY <3>6, <3>7 DEF Failures
      <4> QED BY <1>11, <4>1, <4>2, NoAnswer
    <3>8. CASE n \in DOMAIN own
      <4>1. PICK slot : slot = own[n]
        OBVIOUS
      <4>2. SlotOf(slot, n, fs) /\ fs = Offered(c, n)
        BY <1>4, <1>9, <3>3, <3>4, <3>8, <4>1
      <4>3. \A f : fs = {f} => (slot.owner = NoClass <=> f \in later)
        BY <1>6, <1>9, <3>3, <3>8, <4>1, <4>2 DEF Leads
      <4>4. CASE slot.owner = NoClass
        <5>1. PICK f \in fs : fs = {f} /\ slot.entry = Present(f)
          BY <4>2, <4>4 DEF SlotOf
        <5>2. result = Direct(Present(f), a)
          BY <3>6, <3>8, <4>1, <4>4, <5>1
        <5>3. f \in Fn /\ (f \in resolved <=> Resolvable(f)) /\ f \in later
          BY <1>12, <4>3, <4>4, <5>1 DEF Settled
        <5>4. Answer(Direct(Present(f), a)) = {g \in {f} : Resolvable(g) /\ Converts(g, a)}
          BY <5>3, DirectAnswers
        <5>5. expected = {g \in fs : Resolvable(g) /\ Converts(g, a)}
          BY <1>11, <5>1, <5>3
        <5> QED BY <5>1, <5>2, <5>4, <5>5
      <4>5. CASE slot.owner # NoClass
        <5>1. PICK d : d = dispatcher[<<slot.owner, n>>]
          OBVIOUS
        <5>2. DispatcherOf(d, fs) /\ result = Select(d, a)
          BY <3>6, <3>8, <4>1, <4>2, <4>5, <5>1 DEF SlotOf
        <5>3. \A f \in later : fs # {f}
          BY <4>3, <4>5
        <5> QED BY <1>11, <1>12, <5>2, <5>3, SelectAnswers
      <4> QED BY <4>4, <4>5
    <3> QED BY <3>7, <3>8
  <2> QED BY <2>1, <2>2
<1> QED BY <1>2, <1>5, <1>10, <1>13, <1>15

(* A started module calls, for a class that got its own table when what it *)
(* inherits was in place, the first overload in the order of the source    *)
(* that fits the arguments, in its most derived override, and throws if    *)
(* none does, or if that override waits for a type that never comes; a     *)
(* lone overload of its arity that is not the first of the name converts   *)
(* what it gets: whatever the order in which blocks ran, types became      *)
(* known and callbacks were called.                                        *)
THEOREM CallsInOrder == StartSpec => []DispatchFollowsRegistration
<1>1. CallInv /\ (InPlaceInv /\ MethodsInv) /\ LeadInv => DispatchFollowsRegistration
  BY MethodAnswers DEF DispatchFollowsRegistration, Clean
<1> QED BY CallbacksWait, MethodsInOrder, LeadInOrder, <1>1, PTL
=================================================================================
