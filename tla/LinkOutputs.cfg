\* Two builds, whose commands are cut, and between which inputs change and
\* files are removed, three times.
CONSTANTS
  single = single
  multi = multi
  old = old
  new = new
  wasm = wasm
  symbols = symbols
  s1 = s1
  s2 = s2
  m1 = m1
  map = map
  ocjs = ocjs
  Builds <- MCBuilds
  Names = {ocjs}
  Name <- MCName
  Versions <- MCVersions
  Dirs = {dist}
  Paths <- MCPaths
  Contents <- MCContents
  Output <- MCOutput
  NoFile = NoFile
  Torn = Torn
  None = None
  MaxFaults = 3
SPECIFICATION FairSpec
INVARIANTS ChainPublishesItsLink ProvenanceTellsTheTruth
PROPERTIES EventuallyPublished
