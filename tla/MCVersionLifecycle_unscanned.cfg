SPECIFICATION Spec
CONSTANTS
  Versions = {v1}
  Sessions = {s1}
  Workers  = {w1, w2}
  Manifests = {m1}
  NoManifest = NoManifest
  Clean  = {v1}
  Signed = {v1}
  ScanRequiresSignature = TRUE
  PublishRequiresSignature = TRUE
  MaxAttempts = 3
INVARIANT SubmittedPassedScan
CHECK_DEADLOCK FALSE
