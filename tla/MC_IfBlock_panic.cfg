\* Keys at the empty array position ("<key>..if", "<key>..then").
CONSTANTS
  Pos = {0, 1}
  OkValues = {TRUE}
  MaxKeys = 2
SPECIFICATION Spec
INVARIANTS NoPanic
CHECK_DEADLOCK FALSE
