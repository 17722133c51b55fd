SPECIFICATION FairSpec
CONSTANTS
  Sessions = {s1, s2}
  Workers  = {w1}
  Nothing  = Nothing
INVARIANTS TypeOK PublishedIsMirrored
PROPERTIES MirrorSettles ExportedOnce
