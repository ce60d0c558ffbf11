\* Vector<u8, u16>: every input of up to 4 bytes over {0, 1, 2, 64}, every
\* vector of up to 2 elements, and the longest vector a u8 prefix can hold
\* together with the first one it cannot, each followed by other bytes.
CONSTANTS
  PrefixWidths = {1}
  ElemBytes = 2
  Bytes = {0, 1, 2, 64}
  MaxInput = 4
  Values <- MCValues
  MaxShort = 2
  LongLengths <- MCLongLengths
  Trailing <- MCTrailing
  IsizeMax = 2147483647
INIT Init
NEXT Next
INVARIANTS
  DecodeIsCanonical
\* A decode ends in done or error; the loop has no other exit.
CHECK_DEADLOCK FALSE
