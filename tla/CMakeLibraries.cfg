\* Any four crashes, failures, edits of the inputs or of the published tree.
CONSTANTS
  A = A
  B = B
  Old = Old
  New = New
  Kernel = Kernel
  Text = Text
  Inputs <- MCInputs
  Identities <- MCIdentities
  Libs <- MCLibs
  LibsOf <- MCLibsOf
  NoIdentity = NoIdentity
  Absent = Absent
  Torn = Torn
  MaxFaults = 4
SPECIFICATION FairSpec
INVARIANTS AcceptedIsExact SuccessIsCurrent
PROPERTY EventuallyPublished
