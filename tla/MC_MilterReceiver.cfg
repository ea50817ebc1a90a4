CONSTANTS
  Byte <- MCByte
  max_frame_len = 2
  MaxPacket = 8
  MaxStream = 10
SPECIFICATION Spec
INVARIANTS TypeOK BufferBound
PROPERTIES Refinement
\* A connection ends: TooLarge drops it, and the stream is bounded.
CHECK_DEADLOCK FALSE
