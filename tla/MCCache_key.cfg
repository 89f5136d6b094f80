\* One key and every operation, with repeated and missing arguments.
SPECIFICATION FairSpec
CONSTANTS
  w = w
  Word <- MCWord
  Field = {f1, f2}
  MaxInt = 1
  NoText = NoText
  NoExpiry = NoExpiry
  Absent = Absent
  Key = {k1}
  Input <- MCInput
  Delta <- MCDelta
  Ttl <- MCTtl
  Batch <- MCBatch
  MaxList = 2
  MaxClock = 2
INVARIANTS
  TypeOK
  PayloadMatchesType
PROPERTIES
  TypeStable
  DeadlineKept
  ExpiredLeavesNoTrace
  SetCountsMatch
  
  ExpiredCollected
