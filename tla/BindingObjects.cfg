\* Two files, two workers, inputs that go on and back; any four events.
CONSTANTS
  Files = {f1, f2}
  Workers = {w1, w2}
  Absent = Absent
  Free = Free
  MaxVersion = 1
  MaxEvents = 4
SPECIFICATION FairSpec
INVARIANT ReportedObjectsAreCurrent
PROPERTY EventuallyReported
