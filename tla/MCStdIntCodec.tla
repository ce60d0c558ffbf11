---------------------------- MODULE MCStdIntCodec ----------------------------
(* Model-checking instance of StdIntCodec: every u8 and u16, and u32      *)
(* values at the byte boundaries and from the unit tests; u64 values lie  *)
(* beyond TLC's integers.                                                 *)
EXTENDS StdIntCodec

MCTrailing == {<<>>, <<7>>}

\* Byte boundaries of u16 and u24, the u32 value of the unit test
\* u32_round_trip (stdint.rs:59-67), and the largest value TLC holds; the
\* u8 and u16 test values 42 and 1024 are among the exhaustive ones.
MCSamples == {0, 1, 255, 256, 65535, 65536, 1000000, 16777215, 16777216, 2147483647}

=============================================================================
