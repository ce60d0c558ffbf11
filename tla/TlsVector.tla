------------------------------ MODULE TlsVector ------------------------------
(***************************************************************************)
(* The length-prefixed vector codec of src/tls/vector.rs, Vector<I, S>,    *)
(* over the big-endian fixed-width integers of                             *)
(* aws-mls-codec/src/stdint.rs.                                            *)
(*                                                                         *)
(* Serialization is a pure function and is modelled as an operator.        *)
(* Deserialization reads from a reader that is shared with whatever        *)
(* follows the vector, so it is modelled step by step: read the length    *)
(* prefix, then read elements while read_len < len.                        *)
(*                                                                         *)
(* The length type I is one of PrefixWidths wide, chosen in Init, and the  *)
(* elements are unsigned integers ElemBytes wide; the input is a sequence  *)
(* of byte values.                                                         *)
(***************************************************************************)
EXTENDS Naturals, Sequences, SequencesExt, StdInt

CONSTANTS
  PrefixWidths, \* size_of::<I>() of the I checked (u8 -> 1, u16 -> 2, u32 -> 4)
  ElemBytes,    \* S::serialized_len of one element (u16 -> 2)
  Bytes,        \* byte values that arbitrary inputs are made of
  MaxInput,     \* bound on the length of an arbitrary input
  Values,       \* element values of the vectors that are serialized
  MaxShort,     \* every vector of up to MaxShort elements over Values ...
  LongLengths,  \* ... and constant vectors of these lengths are serialized
  Trailing,     \* byte strings that follow a serialized vector in the input
  IsizeMax      \* isize::MAX of the build (2^31 - 1 on wasm32)

ASSUME PrefixWidths \subseteq {1, 2, 4} /\ ElemBytes \in Nat \ {0}
ASSUME Bytes \subseteq 0..255
ASSUME Values \subseteq 0..(2^(8 * ElemBytes) - 1)

VARIABLES
  prefix_bytes,  \* size_of::<I>() of this decode's Vector<I, S>
  input,     \* the bytes the reader starts on
  source,    \* [v, t] when input = tls_serialize(v) \o t, else NoSource
  reader,    \* the bytes not yet consumed
  phase,     \* "len", "items", "done", "error" or "panic"
  len,       \* the decoded length prefix
  read_len,  \* bytes of elements read so far
  items      \* elements decoded so far

vars == <<prefix_bytes, input, source, reader, phase, len, read_len, items>>

NoSource == [v |-> <<>>, t |-> <<>>, none |-> TRUE]

----------------------------------------------------------------------------
(* Vector<I, S> serialization.                                             *)

\* n fits I (I::try_from(n) succeeds): its top byte is below 256.  This
\* avoids 2^32, which is beyond TLC's integers.
FitsI(n) == n \div 2^(8 * (prefix_bytes - 1)) < 256

\* The elements' serializations, one after the other.
ElementBytes(v) ==
  [k \in 1..(ElemBytes * Len(v)) |->
     to_be_bytes(v[(k - 1) \div ElemBytes + 1], ElemBytes)[((k - 1) % ElemBytes) + 1]]

\* Vector::tls_serialized_len
tls_serialized_len(v) == prefix_bytes + ElemBytes * Len(v)

\* Mutant of tls_serialize: the length is cast with `as I`, which wraps,
\* instead of converted with I::try_from.
serialize_wrapping_length(v) ==
  LET n == tls_serialized_len(v) - prefix_bytes
  IN  [ok |-> TRUE,
       bytes |-> to_be_bytes(n, prefix_bytes)
                   \o ElementBytes(v)]

\* Vector::tls_serialize: the byte length of the elements, as an I, then
\* every element; InvalidVectorLength if that length does not fit I.
tls_serialize(v) ==
  LET n == tls_serialized_len(v) - prefix_bytes
  IN  IF ~FitsI(n)
      THEN [ok |-> FALSE, bytes |-> <<>>]
      ELSE [ok |-> TRUE,
            bytes |-> to_be_bytes(n, prefix_bytes)
                        \o ElementBytes(v)]

----------------------------------------------------------------------------
(* Vector::tls_deserialize                                                 *)

SerializedVectors ==
  BoundedSeq(Values, MaxShort) \cup
  {[i \in 1..n |-> x] : n \in LongLengths, x \in Values}

\* The reader starts on any short byte string, or on a serialized vector
\* followed by other bytes.
Init ==
  /\ prefix_bytes \in PrefixWidths
  /\ \/ /\ input \in BoundedSeq(Bytes, MaxInput)
        /\ source = NoSource
     \/ \E v \in SerializedVectors, t \in Trailing :
           /\ tls_serialize(v).ok
           /\ input = tls_serialize(v).bytes \o t
           /\ source = [v |-> v, t |-> t, none |-> FALSE]
  /\ reader = input
  /\ phase = "len"
  /\ len = 0
  /\ read_len = 0
  /\ items = <<>>

Rest(s, k) == SubSeq(s, k + 1, Len(s))

\* Vec::with_capacity(n) for elements of size and alignment ElemBytes (an
\* unsigned integer): Layout::array fails, and with_capacity panics with
\* "capacity overflow", when n * ElemBytes > isize::MAX - (align - 1).
CapacityOverflows(n) == n > (IsizeMax - (ElemBytes - 1)) \div ElemBytes

Prefix == from_be_bytes(SubSeq(reader, 1, prefix_bytes))

\* let len = I::tls_deserialize(reader)?; let len: usize = len.try_into()?;
\* let mut items = Vec::with_capacity(len);  (usize is at least 32 bits, so
\* try_into succeeds for every I modelled.)
ReadLen ==
  /\ phase = "len"
  /\ Len(reader) >= prefix_bytes
  /\ ~CapacityOverflows(Prefix)
  /\ len' = Prefix
  /\ reader' = Rest(reader, prefix_bytes)
  /\ phase' = "items"
  /\ UNCHANGED <<prefix_bytes, input, source, read_len, items>>

\* The same steps when the reservation of `len` elements, `len` being the
\* byte length taken from the input, is beyond isize::MAX bytes: the
\* decoder panics instead of returning an error.
ReadLenCapacityOverflow ==
  /\ phase = "len"
  /\ Len(reader) >= prefix_bytes
  /\ CapacityOverflows(Prefix)
  /\ len' = Prefix
  /\ reader' = Rest(reader, prefix_bytes)
  /\ phase' = "panic"
  /\ UNCHANGED <<prefix_bytes, input, source, read_len, items>>

\* The reader ends inside the prefix: EndOfStream.
ReadLenEndOfStream ==
  /\ phase = "len"
  /\ Len(reader) < prefix_bytes
  /\ phase' = "error"
  /\ UNCHANGED <<prefix_bytes, input, source, reader, len, read_len, items>>

\* while read_len < len { let item = S::deserialize(reader)?;
\*   read_len += S::serialized_len(&item); items.push(item); }
ReadItem ==
  /\ phase = "items"
  /\ read_len < len
  /\ Len(reader) >= ElemBytes
  /\ items' = Append(items, from_be_bytes(SubSeq(reader, 1, ElemBytes)))
  /\ read_len' = read_len + ElemBytes
  /\ reader' = Rest(reader, ElemBytes)
  /\ UNCHANGED <<prefix_bytes, input, source, phase, len>>

\* The reader ends inside an element: EndOfStream.
ReadItemEndOfStream ==
  /\ phase = "items"
  /\ read_len < len
  /\ Len(reader) < ElemBytes
  /\ phase' = "error"
  /\ UNCHANGED <<prefix_bytes, input, source, reader, len, read_len, items>>

\* The loop exits once read_len >= len and Ok(items) is returned.
Finish ==
  /\ phase = "items"
  /\ read_len >= len
  /\ phase' = "done"
  /\ UNCHANGED <<prefix_bytes, input, source, reader, len, read_len, items>>

Next ==
  \/ ReadLen
  \/ ReadLenCapacityOverflow
  \/ ReadLenEndOfStream
  \/ ReadItem
  \/ ReadItemEndOfStream
  \/ Finish

Spec == Init /\ [][Next]_vars

----------------------------------------------------------------------------
(* Properties (spec.md 4.C1: "Round-trip is total on accepted inputs").    *)

TypeOK ==
  /\ prefix_bytes \in PrefixWidths
  /\ input \in Seq(0..255)
  /\ reader \in Seq(0..255)
  /\ phase \in {"len", "items", "done", "error", "panic"}
  /\ len \in Nat /\ FitsI(len)
  /\ read_len \in Nat
  /\ items \in Seq(0..(2^(8 * ElemBytes) - 1))

\* Decoding what tls_serialize wrote, with other bytes after it, returns
\* the vector and leaves exactly those other bytes in the reader; a vector
\* too long for I is refused by tls_serialize rather than written.
RoundTrip ==
  (~source.none /\ phase \in {"done", "error", "panic"}) =>
     /\ phase = "done"
     /\ items = source.v
     /\ reader = source.t

\* spec.md 4.C1: a decode that fails reports one of the codec's error
\* kinds ("unexpected end of input", "length overflow", ...).  Whatever
\* bytes it is given, tls_deserialize returns Ok or an error and never
\* panics, including when the length prefix announces more than the
\* reservation at vector.rs:46 can hold.
DecodeNeverPanics == phase # "panic"

\* The bytes a successful decode consumed.
Consumed == SubSeq(input, 1, Len(input) - Len(reader))

\* An accepted input is the serialization of what it decodes to: a
\* decode consumes exactly the prefix and the `len` bytes it announces.
DecodeIsCanonical ==
  phase = "done" =>
     /\ tls_serialize(items).ok
     /\ tls_serialize(items).bytes = Consumed

\* A decode that fails leaves the reader where it was (spec.md 4.C1:
\* "decoding is strictly non-consuming in error"); tls_deserialize reads
\* the prefix and the elements from the caller's reader before it fails.
ErrorConsumesNothing ==
  phase = "error" => reader = input
=============================================================================
