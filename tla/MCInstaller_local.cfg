SPECIFICATION Spec
CONSTANTS
  Versions = {v1, v2}
  Edits = {e1, e2}
  Paths = {p1, p2, p3, p4}
  Absent = Absent
  NoRecord = NoRecord
  KeptBackups = 2
SYMMETRY Symmetry
INVARIANTS TypeOK EditsKept StateIsTruthful BackupsExist
