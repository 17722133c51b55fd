SPECIFICATION Spec
CONSTANTS
  Skills <- MCSkills
  Descriptions = {"d1"}
  Sessions = {s1, s2}
  NoKey = NoKey
  Fold <- MCFold
  Unsafe <- MCUnsafe
  MaxEntries = 4
  Scripts = {x1, x2}
  Jobs <- MCJobs
  Packages <- MCPackages
  NoPackage = NoPackage
  NoVersion = NoVersion
INVARIANTS TypeOK AnswerNamesSkill RetryIsAnswered EvidenceIsTrue ReportedInstalls
SYMMETRY Symmetry
CONSTRAINT OneThingAtATime
