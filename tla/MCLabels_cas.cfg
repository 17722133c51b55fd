SPECIFICATION Spec
CONSTANTS
  Versions = {v1, v2}
  Names    = {stable}
  Sessions = {s1, s2}
  NoLabel  = NoLabel
  NoName   = NoName
  NoHeader = NoHeader
  Star     = Star
  MaxMoves = 3
SYMMETRY Symmetry
PROPERTIES LabelCas
CHECK_DEADLOCK FALSE
