SPECIFICATION Spec
CONSTANTS
  Contents = {c1, c2}
  Sessions = {s1, s2, s3}
  Nothing  = Nothing
  Torn     = Torn
SYMMETRY Symmetry
PROPERTIES UploadContentImmutable
