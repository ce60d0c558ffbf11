----------------------------- MODULE MCTlsVector -----------------------------
(* Model-checking instance of TlsVector: Vector<u8, u16> and               *)
(* Vector<u32, u16>.  A u8 prefix holds at most 255 bytes, so 127 u16       *)
(* elements fit and 128 overflow; a u32 prefix holds them all.             *)
EXTENDS TlsVector

MCValues == {0, 258}
MCLongLengths == {127, 128}
MCTrailing == {<<>>, <<1>>}
=============================================================================
