\* Every u8 and u16 value and sampled u32 values, each followed in the
\* reader by nothing or by one more byte.
CONSTANTS
  Widths = {1, 2, 4}
  Exhaust = {1, 2}
  Samples <- MCSamples
  Trailing <- MCTrailing
INIT Init
NEXT Next
INVARIANTS
  TypeOK
  RoundTrip
\* One integer is written and read; the run ends in "done".
CHECK_DEADLOCK FALSE
