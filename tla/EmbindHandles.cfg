\* A plain object with a member, one without, a shared one, a static slot; four
\* handles and an envelope.
CONSTANTS
  cut = cut
  shape = shape
  builder = builder
  curve = curve
  slot = slot
  Plain = {cut, shape}
  Shared = {curve}
  Member = {builder}
  Static = {slot}
  Whole <- MCWhole
  Handle = {h1, h2, h3, h4}
  Envelope = {e1}
SPECIFICATION Spec
SYMMETRY Symmetry
INVARIANTS TypeOK CountsAreTrue
PROPERTIES LivesAsLongAsOwned DisposerReleasesAll
CHECK_DEADLOCK FALSE
