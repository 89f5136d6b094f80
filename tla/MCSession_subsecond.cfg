\* A TTL below a second is none.
SPECIFICATION Spec
CONSTANTS
  w = w
  k1 = k1
  f1 = f1
  f2 = f2
  big = big
  Word <- MCWord
  Field = {f1, f2}
  MaxInt = 1
  NoText = NoText
  NoExpiry = NoExpiry
  Absent = Absent
  Key = {k1}
  MaxList = 2
  MaxClock = 3
  Second = 2
  Commands <- MCCommands
  Lines <- MCLines
  Pong = Pong
  ErrorText = ErrorText
  Bytes <- MCBytes
  NoKey = NoKey
  MaxDuration = 7
  MaxFrame = 12
  Malformed = Malformed
PROPERTY
  PositiveTtlExpires
