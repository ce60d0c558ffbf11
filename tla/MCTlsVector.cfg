\* Vector<u8, u16> and Vector<u32, u16>, the default prefix, on wasm32
\* (isize::MAX = 2^31 - 1): every input of up to 4 bytes over
\* {0, 1, 2, 64}, so u32 prefixes up to 0x40404040 (beyond the largest
\* reservation of u16 elements, 2^30 - 1) are read; every vector of up to
\* 2 elements, and the longest vector a u8 prefix can hold together with
\* the first one it cannot, each followed by other bytes.
CONSTANTS
  PrefixWidths = {1, 4}
  ElemBytes = 2
  Bytes = {0, 1, 2, 64}
  MaxInput = 4
  Values <- MCValues
  MaxShort = 2
  LongLengths <- MCLongLengths
  Trailing <- MCTrailing
  IsizeMax = 2147483647
INIT Init
NEXT Next
INVARIANTS
  TypeOK
  RoundTrip
\* A decode ends in done, error or panic; the loop has no other exit.
CHECK_DEADLOCK FALSE
