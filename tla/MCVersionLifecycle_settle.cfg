SPECIFICATION FairSpec
CONSTANTS
  Versions = {v1, v2, v3}
  Sessions = {s1}
  Workers  = {w1}
  Manifests = {m1, m2}
  NoManifest = NoManifest
  Clean  = {v1, v3}
  Signed = {v1}
  ScanRequiresSignature = FALSE
  PublishRequiresSignature = TRUE
  MaxAttempts = 2
INVARIANTS SubmittedPassedScan QuarantinedUntilScanned
PROPERTY ScanSettles
CHECK_DEADLOCK FALSE
