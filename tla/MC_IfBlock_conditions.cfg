\* Two conditions and an else: up to five keys over three array positions,
\* every value parsing.
CONSTANTS
  Pos = {1, 2, 3}
  OkValues = {TRUE}
  MaxKeys = 5
SPECIFICATION Spec
INVARIANTS ParseMatchesReference
CHECK_DEADLOCK FALSE
