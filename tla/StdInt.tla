------------------------------- MODULE StdInt -------------------------------
(***************************************************************************)
(* The fixed-width unsigned integers of aws-mls-codec/src/stdint.rs:       *)
(* MlsEncode writes to_be_bytes, MlsDecode reads from_be_bytes.  A value   *)
(* is a natural number and a byte string a sequence of numbers in 0..255.  *)
(***************************************************************************)
EXTENDS Naturals, Sequences, SequencesExt

\* MlsSize::mls_encoded_len: size_of::<u8/u16/u32/u64>(), the width w.
int_encoded_len(w) == w

\* Mutant of to_be_bytes: the shifted value is not truncated to a byte.
to_be_bytes_unmasked(n, w) == [i \in 1..w |-> n \div 2^(8 * (w - i))]

\* u8/u16/u32/u64::to_be_bytes: w bytes, most significant first.
to_be_bytes(n, w) == [i \in 1..w |-> (n \div 2^(8 * (w - i))) % 256]

\* u8/u16/u32/u64::from_be_bytes
from_be_bytes(s) == FoldLeft(LAMBDA acc, b : acc * 256 + b, 0, s)

\* Mutant of int_mls_decode: the reader is advanced by one byte too few.
int_mls_decode_short_advance(r, w) ==
  IF Len(r) < w THEN [ok |-> FALSE, val |-> 0, rest |-> r]
  ELSE [ok |-> TRUE, val |-> from_be_bytes(SubSeq(r, 1, w)), rest |-> SubSeq(r, w, Len(r))]

\* MlsDecode::mls_decode: read a [u8; w] array from the reader (an error
\* if fewer than w bytes are left), then from_be_bytes; on success the
\* reader is left after the w bytes.
int_mls_decode(r, w) ==
  IF Len(r) < w THEN [ok |-> FALSE, val |-> 0, rest |-> r]
  ELSE [ok |-> TRUE, val |-> from_be_bytes(SubSeq(r, 1, w)), rest |-> SubSeq(r, w + 1, Len(r))]
=============================================================================
