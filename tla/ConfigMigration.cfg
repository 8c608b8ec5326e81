SPECIFICATION MigrationSpec
CONSTANTS
    Absent = Absent
    Null = Null
    Flag <- MCFlag
    Representable <- MCRepresentable
    Shared <- MCShared
    Word <- MCWord
    Blank <- MCBlank
    Regular <- MCRegular
    Numbered <- MCNumbered
    Ymls <- MCYmls
    Method <- MCMethod
    Helpers <- MCHelpers
INVARIANTS EveryBuildKeepsItsFlags MigratedConfigLoads NoRawFlagIsLostOrAdded MigratingAgainChangesNothing
CHECK_DEADLOCK FALSE
