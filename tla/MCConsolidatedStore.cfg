CONSTANTS
  Topics = {"t1"}
  Names = {"a", "b"}
  Entries <- MCEntries
  Texts = {x, y}
  Blank = Blank
  NoFile = NoFile
  Calls = {c1, c2}
  MaxCalls = 4
  MaxMishaps = 1
SPECIFICATION Spec
SYMMETRY Interchangeable
INVARIANTS TypeOK IndexIsCurrent
PROPERTIES ImplementsEntries
CHECK_DEADLOCK FALSE
