\* One key, lists of at most two items.
SPECIFICATION FairSpec
CONSTANTS
  w = w
  Word <- MCWord
  Field = {f1}
  MaxInt = 1
  NoText = NoText
  NoExpiry = NoExpiry
  Absent = Absent
  Key = {k1}
  Input <- MCInput
  Delta <- MCDelta
  Ttl <- MCTtl
  Batch <- MCBatch
  MaxList = 2
  MaxClock = 2
PROPERTIES
  LPushReverses
