----------------------------- MODULE StdIntCodec -----------------------------
(***************************************************************************)
(* An integer of aws-mls-codec/src/stdint.rs written by one endpoint and   *)
(* read back by another from a reader that holds further bytes after it.  *)
(* The decoder is checked against the encoder.                             *)
(***************************************************************************)
EXTENDS Naturals, Sequences, StdInt

CONSTANTS
  Widths,    \* size_of of the integer types checked (1 = u8, 2 = u16, ...)
  Exhaust,   \* widths whose every value is checked
  Samples,   \* values checked for the other widths
  Trailing   \* byte strings that follow the integer in the reader

ASSUME Exhaust \subseteq Widths /\ Trailing \subseteq Seq(0..255)

VARIABLES
  w,        \* the width of the integer type
  n,        \* the value written
  wire,     \* the bytes in the reader
  tail,     \* the bytes written after the integer
  decoded,  \* the result of int_mls_decode, once read
  phase     \* "encode", "decode" or "done"

vars == <<w, n, wire, tail, decoded, phase>>

\* The values of width k that are checked (v fits k bytes when its top
\* byte is below 256; 2^32 itself is beyond TLC's integers).
Values(k) ==
  IF k \in Exhaust THEN 0..(2^(8 * k) - 1)
  ELSE {v \in Samples : v \div 2^(8 * (k - 1)) < 256}

NotRead == [ok |-> FALSE, val |-> 0, rest |-> <<>>]

Init ==
  /\ w \in Widths
  /\ n \in Values(w)
  /\ wire = <<>>
  /\ tail = <<>>
  /\ decoded = NotRead
  /\ phase = "encode"

\* MlsEncode::mls_encode: writer.write(&self.to_be_bytes()), followed in
\* the stream by whatever the enclosing structure writes next.
Encode ==
  /\ phase = "encode"
  /\ \E t \in Trailing : /\ wire' = to_be_bytes(n, w) \o t
                         /\ tail' = t
  /\ phase' = "decode"
  /\ UNCHANGED <<w, n, decoded>>

\* MlsDecode::mls_decode on the reader.
Decode ==
  /\ phase = "decode"
  /\ decoded' = int_mls_decode(wire, w)
  /\ phase' = "done"
  /\ UNCHANGED <<w, n, wire, tail>>

Next == Encode \/ Decode

Spec == Init /\ [][Next]_vars

----------------------------------------------------------------------------
(* Properties                                                              *)

TypeOK ==
  /\ w \in Widths /\ n \in Values(w)
  /\ wire \in Seq(0..255) /\ tail \in Trailing \cup {<<>>}
  /\ decoded.ok \in BOOLEAN /\ decoded.val \in Nat /\ decoded.rest \in Seq(0..255)
  /\ phase \in {"encode", "decode", "done"}

\* Reading back what was written returns the value and leaves the reader
\* exactly at the bytes that followed it.
RoundTrip ==
  phase = "done" =>
     /\ decoded.ok
     /\ decoded.val = n
     /\ decoded.rest = tail
=============================================================================
