\* Every order of the blocks of four classes and an enum, for every module with
\* up to three of the methods, all of them, or any of the constructors, but
\* never two that differ in their result only.
CONSTANTS
  A = A
  B = B
  C = C
  X = X
  E = E
  U = U
  a1 = a1
  a2 = a2
  a3 = a3
  a4 = a4
  a5 = a5
  a6 = a6
  a7 = a7
  b1 = b1
  b2 = b2
  b3 = b3
  c1 = c1
  k1 = k1
  k2 = k2
  k3 = k3
  k4 = k4
  Class <- MCClass
  Parent <- MCParent
  Type = {A, B, C, X, E, U}
  Absent = {U}
  JsType <- MCJsType
  Checked <- MCClass
  Fn <- MCFn
  Of <- MCOf
  Params <- MCParams
  Rest <- MCRest
  Programs <- MCPrograms
  Calls <- MCCalls
  NoClass = NoClass
  NoType = NoType
  NoFn = NoFn
SPECIFICATION FairSpec
INVARIANTS NoCallbackIsLost DispatchFollowsRegistration ConstructorsFollowRegistration
PROPERTIES SiblingsAreIsolated EventuallyResolved
CHECK_DEADLOCK FALSE
