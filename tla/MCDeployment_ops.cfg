SPECIFICATION Spec
CONSTANTS
  Releases = {1, 2}
  Level <- OneMigration
  None = None
  NoDatabase = NoDatabase
INVARIANTS TypeOK RecoveryPointHolds ServedIsRecorded UnprovenIsDown HeartbeatIsNew DefaultRollbackIsProven
