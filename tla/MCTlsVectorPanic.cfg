\* Vector<u32, u16> on wasm32 against spec.md 4.C1: a 4-byte length prefix
\* alone makes tls_deserialize reserve more than isize::MAX bytes.
CONSTANTS
  PrefixWidths = {4}
  ElemBytes = 2
  Bytes = {0, 1, 64}
  MaxInput = 4
  Values <- MCValues
  MaxShort = 2
  LongLengths <- MCLongLengths
  Trailing <- MCTrailing
  IsizeMax = 2147483647
INIT Init
NEXT Next
INVARIANTS
  DecodeNeverPanics
\* A decode ends in done, error or panic; the loop has no other exit.
CHECK_DEADLOCK FALSE
