\* Two writers publish to one directory, with and without an overlay layer.
CONSTANTS
  Writers = {w1, w2}
  Files = {f1, f2}
  NoDir = NoDir
  NoFile = NoFile
  MaxPublications = 3
SPECIFICATION Spec
INVARIANTS NeverLeftAside OneVintage
PROPERTY PublishesWholeTrees
SYMMETRY Symmetry
CHECK_DEADLOCK FALSE
