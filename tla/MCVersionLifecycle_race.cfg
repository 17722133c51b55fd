SPECIFICATION Spec
CONSTANTS
  Versions = {v1}
  Sessions = {s1, s2, s3}
  Workers  = {w1, w2}
  Manifests = {m1, m2}
  NoManifest = NoManifest
  Clean  = {v1}
  Signed = {v1}
  ScanRequiresSignature = FALSE
  PublishRequiresSignature = TRUE
  MaxAttempts = 3
SYMMETRY Symmetry
INVARIANTS TypeOK NoSplitVerdict PublishedIsApproved ReleaseHoldsPayload FeedTellsStatus
PROPERTY ImplementsRelease
CHECK_DEADLOCK FALSE
