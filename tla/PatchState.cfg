\* Any four kills, edits at any time, changes of the scripts or losses of
\* the manifest.
CONSTANTS
  v1 = v1
  v2 = v2
  fix = fix
  rename = rename
  Using = Using
  Dump = Dump
  Offset = Offset
  Files <- MCFiles
  Versions <- MCVersions
  Targets <- MCTargets
  Guarded <- MCGuarded
  Lenient <- MCLenient
  NoPatch = NoPatch
  Torn = Torn
  NoManifest = NoManifest
  Edits <- MCEdits
  Breaking <- MCBreaking
  NoEdit = NoEdit
  MaxFaults = 4
SPECIFICATION FairSpec
INVARIANT PatchedIsCurrent
PROPERTIES ForeignEditsSurvive EventuallyPatched
