\* Complete rebuilds and single steps in any order, cut anywhere.
CONSTANTS
  Flags = {Plain, Simd}
  NoFlags = NoFlags
  Sources = {gp, Geom}
  Lines <- Anything
SPECIFICATION LineSpec
PROPERTIES NothingAcrossAMismatch RebuildsLinkOneConfiguration
