--------------------------- MODULE MCEmbindOverloads ---------------------------
(* A base class with three derived classes, and overloads of one method over *)
(* an enum, the base, a derived class and a class that nobody registers,     *)
(* which is the type of a parameter of a5 and of the result of a6, a7 and k4.*)
EXTENDS EmbindOverloads

CONSTANTS A, B, C, X, E, U,
          a1, a2, a3, a4, a5, a6, a7, b1, b2, b3, c1, k1, k2, k3, k4

MCClass == {A, B, C, X}
MCParent == [c \in Class |-> IF c \in {B, C, X} THEN A ELSE NoClass]
OfA == {a1, a2, a3, a4, a5, a6, a7}
Methods == OfA \cup {b1, b2, b3, c1}
MCFn == Methods \cup {k1, k2, k3, k4}
MCOf == [f \in Fn |-> IF f \in OfA THEN A ELSE IF f = c1 THEN C ELSE B]
MCParams ==
  [f \in Fn |-> CASE f = a1 -> <<X>>     [] f = a2 -> <<E>>  [] f = a3 -> <<A>>
                  [] f = a4 -> <<E, X>> [] f = a5 -> <<U, U>>
                  [] f = a6 -> <<E>>     [] f = a7 -> <<A>>
                  [] f = b1 -> <<E>>     [] f = b2 -> <<A>>  [] f = b3 -> <<X, X>>
                  [] f = c1 -> <<X>>
                  [] f = k1 -> <<X>>     [] f = k2 -> <<E>>  [] f = k3 -> <<A, E>>
                  [] f = k4 -> <<E>>]
MCRest == [f \in Fn |-> IF f \in {a6, a7, k4} THEN {Of[f], U}
                        ELSE IF f \in {b1, k3} THEN {Of[f], X} ELSE {Of[f]}]
MCJsType == [t \in Type |-> IF t = E THEN "string" ELSE t]
Members == [c \in Class |-> CASE c = A -> <<a1, a2, a3, a4, a5, a6, a7>>
                                [] c = B -> <<b1, b2, b3>>
                                [] c = C -> <<c1>>
                                [] c = X -> <<>>]
Ctors == [c \in Class |-> IF c = B THEN <<k1, k2, k3, k4>> ELSE <<>>]
Module(s) ==
  [methods |-> [c \in Class |-> SelectSeq(Members[c], LAMBDA f : f \in s)],
   ctors   |-> [c \in Class |-> SelectSeq(Ctors[c], LAMBDA f : f \in s)]]
\* a6, a7 and k4 differ from a2, a3 and k2 in what they return only.
Apart(s) == \A pair \in {{a2, a6}, {a3, a7}, {k2, k4}} : ~ pair \subseteq s
Modules == {s \in SUBSET Methods : Cardinality(s) <= 3}
             \cup {Methods \ {a6, a7}, Methods \ {a2, a3}}
             \cup SUBSET {k1, k2, k3, k4}
MCPrograms == {Module(s) : s \in {s \in Modules : Apart(s)}}
Arguments == {A, B, X, "string"}
MCCalls == {<<>>} \cup {<<x>> : x \in Arguments} \cup (Arguments \X Arguments)
==============================================================================
