\* Every sorted list of up to four keys over two array positions and the
\* empty one, each value parsing or not.
CONSTANTS
  Pos = {0, 1, 2}
  OkValues = {TRUE, FALSE}
  MaxKeys = 4
SPECIFICATION Spec
INVARIANTS TypeOK ParseMatchesReference NoSilentDrop
\* try_parse returns: a finished parse has no next step.
CHECK_DEADLOCK FALSE
