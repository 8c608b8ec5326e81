\* A release resumed, overtaken, prepared again, or next to builds of main; one
\* job dies.
SPECIFICATION FairSpec
CONSTANTS
  r1 = r1  r2 = r2  r3 = r3
  v1 = v1  v2 = v2
  c1 = c1  c2 = c2  c3 = c3
  b1 = b1  b2 = b2
  i1 = i1  j1 = j1  i2 = i2  i3 = i3
  Run = {r1, r2, r3}
  Version = {v1, v2}
  Sha = {c1, c2, c3}
  Bytes = {b1, b2}
  Image = {i1, j1, i2, i3}
  Native <- Natives
  Plans <- Resumptions
  NoVersion = NoVersion
  NoSha = NoSha
  NoImage = NoImage
  NoPackage = NoPackage
  MaxFaults = 1
INVARIANTS TypeOK OneCommitPerVersion  
PROPERTIES  EventuallyReleased
CHECK_DEADLOCK FALSE
