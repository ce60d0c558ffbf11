------------------------------ MODULE Credential ------------------------------
(***************************************************************************)
(* The Credential codec of aws-mls-core/src/identity/credential.rs and     *)
(* basic.rs: a credential is written as its CredentialType (u16) followed  *)
(* by its body, and read back by dispatching on that type.                 *)
(*                                                                         *)
(* A credential travels from a sender to a receiver, which decodes it and  *)
(* re-encodes it when it forwards it (a leaf node in a Welcome or a tree). *)
(* The two endpoints may be built with or without the "x509" feature,      *)
(* which decides whether type 2 is read as a certificate chain.            *)
(*                                                                         *)
(* aws_mls_codec::byte_vec and the Vec<T> codec are not in this source     *)
(* tree; they are modelled from spec.md 4.C1: a length prefix in the       *)
(* one-byte varint form (lengths below 64), then the bytes.                *)
(***************************************************************************)
EXTENDS Naturals, Sequences, SequencesExt, StdInt

CONSTANTS
  Bytes,        \* byte values that identifiers, certificates and data use
  MaxData,      \* bound on the length of an identifier, certificate or data
  MaxChain,     \* bound on the number of certificates in a chain
  CustomTypes   \* raw CredentialType values given to CustomCredential::new

ASSUME Bytes \subseteq 0..255 /\ CustomTypes \subseteq 0..65535
\* Every length prefix stays in the one-byte varint form.
ASSUME MaxChain * (1 + MaxData) < 64

VARIABLES
  sender_x509,    \* the sender is built with the "x509" feature
  receiver_x509,  \* the receiver is built with the "x509" feature
  sent,           \* the Credential the sender encodes
  wire,           \* the bytes in transit
  received,       \* the Credential the receiver decoded
  forwarded,      \* the receiver's encoding of what it decoded
  phase           \* "encode", "decode", "forward", "done" or "error"

vars == <<sender_x509, receiver_x509, sent, wire, received, forwarded, phase>>

----------------------------------------------------------------------------
(* CredentialType and the Credential enum.                                 *)

BASIC == 1
X509 == 2

\* The CredentialType constants defined in a build.
Reserved(x509) == IF x509 THEN {BASIC, X509} ELSE {BASIC}

Data == BoundedSeq(Bytes, MaxData)

\* Credential::Basic, Credential::X509 and Credential::Custom as records of
\* one shape: `data` is the identifier or custom data, `chain` the
\* certificates.
Basic(d) == [kind |-> "Basic", type |-> BASIC, data |-> d, chain |-> <<>>]
X509Cred(c) == [kind |-> "X509", type |-> X509, data |-> <<>>, chain |-> c]
Custom(t, d) == [kind |-> "Custom", type |-> t, data |-> d, chain |-> <<>>]

NoCredential == [kind |-> "None", type |-> 0, data |-> <<>>, chain |-> <<>>]

\* Every credential a build can construct: CustomCredential::new accepts
\* any type, the reserved ones included.
Credentials(x509) ==
  {Basic(d) : d \in Data}
  \cup (IF x509 THEN {X509Cred(c) : c \in BoundedSeq(Data, MaxChain)} ELSE {})
  \cup {Custom(t, d) : t \in CustomTypes, d \in Data}

\* Mutant of credential_type: the Custom arm returns BASIC.
credential_type_custom_basic(c) ==
  IF c.kind = "X509" THEN X509 ELSE BASIC

\* Credential::credential_type
credential_type(c) ==
  CASE c.kind = "Basic" -> BASIC
    [] c.kind = "X509"  -> X509
    [] c.kind = "Custom" -> c.type

----------------------------------------------------------------------------
(* The byte-vector and vector codecs of aws_mls_codec (spec.md 4.C1).      *)

byte_vec_encode(d) == <<Len(d)>> \o d

Fail == [ok |-> FALSE, val |-> <<>>, rest |-> <<>>]

\* Reads a length prefix and that many bytes.
byte_vec_decode(r) ==
  IF Len(r) >= 1 /\ r[1] < 64 /\ Len(r) >= 1 + r[1]
  THEN [ok |-> TRUE, val |-> SubSeq(r, 2, 1 + r[1]), rest |-> SubSeq(r, 2 + r[1], Len(r))]
  ELSE Fail

\* CertificateChain: a Vec of DerCertificate, each a byte vector.
chain_encode(c) == byte_vec_encode(FlattenSeq([i \in DOMAIN c |-> byte_vec_encode(c[i])]))

\* The certificates of a vector's body, read until the body is used up.
RECURSIVE DerCertificates(_)
DerCertificates(s) ==
  IF s = <<>> THEN [ok |-> TRUE, val |-> <<>>]
  ELSE LET h == byte_vec_decode(s)
           t == IF h.ok THEN DerCertificates(h.rest) ELSE Fail
       IN  IF h.ok /\ t.ok THEN [ok |-> TRUE, val |-> <<h.val>> \o t.val]
           ELSE [ok |-> FALSE, val |-> <<>>]

chain_decode(r) ==
  LET outer == byte_vec_decode(r)
      certs == DerCertificates(outer.val)
  IN  IF outer.ok /\ certs.ok
      THEN [ok |-> TRUE, val |-> certs.val, rest |-> outer.rest]
      ELSE Fail

----------------------------------------------------------------------------
(* MlsSize, MlsEncode and MlsDecode for Credential.                        *)

\* The body's encoding: BasicCredential's identifier and CustomCredential's
\* data are both written with byte_vec.
body_encode(c) ==
  IF c.kind = "X509" THEN chain_encode(c.chain) ELSE byte_vec_encode(c.data)

\* Credential::mls_encoded_len: the type's size plus the body's, the
\* Basic and X509 bodies sized by their own MlsSize (the identifier's and
\* the chain's encodings) and the Custom body by byte_vec::mls_encoded_len,
\* which is not in this tree (spec.md 4.C1, one-byte varint prefix).
byte_vec_encoded_len(d) == 1 + Len(d)

mls_encoded_len(c) ==
  int_encoded_len(2) +
    CASE c.kind = "Basic"  -> Len(byte_vec_encode(c.data))
      [] c.kind = "X509"   -> Len(chain_encode(c.chain))
      [] c.kind = "Custom" -> byte_vec_encoded_len(c.data)

\* Credential::mls_encode: the credential type, then the body.
mls_encode(c) == to_be_bytes(credential_type(c), 2) \o body_encode(c)

\* Mutant of mls_decode: the CredentialType::BASIC arm is missing, so a
\* basic credential is read as a CustomCredential of type 1.
mls_decode_no_basic_arm(r, x509) ==
  LET ty == int_mls_decode(r, 2)
      t  == ty.val
      b  == ty.rest
  IN  IF ~ty.ok THEN Fail
      ELSE CASE t = X509 /\ x509 ->
                  LET d == chain_decode(b) IN [d EXCEPT !.val = X509Cred(d.val)]
             [] OTHER ->
                  LET d == byte_vec_decode(b) IN [d EXCEPT !.val = Custom(t, d.val)]

\* Credential::mls_decode: read the type, then dispatch on it; every type
\* that is not a constant of this build is read as a CustomCredential.
mls_decode(r, x509) ==
  LET ty == int_mls_decode(r, 2)
      t  == ty.val
      b  == ty.rest
  IN  IF ~ty.ok THEN Fail
      ELSE CASE t = BASIC ->
                  LET d == byte_vec_decode(b) IN [d EXCEPT !.val = Basic(d.val)]
             [] t = X509 /\ x509 ->
                  LET d == chain_decode(b) IN [d EXCEPT !.val = X509Cred(d.val)]
             [] OTHER ->
                  LET d == byte_vec_decode(b) IN [d EXCEPT !.val = Custom(t, d.val)]

----------------------------------------------------------------------------
(* A credential sent from one endpoint to another and forwarded.           *)

Init ==
  /\ sender_x509 \in BOOLEAN
  /\ receiver_x509 \in BOOLEAN
  /\ sent \in Credentials(sender_x509)
  /\ wire = <<>>
  /\ received = NoCredential
  /\ forwarded = <<>>
  /\ phase = "encode"

Encode ==
  /\ phase = "encode"
  /\ wire' = mls_encode(sent)
  /\ phase' = "decode"
  /\ UNCHANGED <<sender_x509, receiver_x509, sent, received, forwarded>>

\* The receiver decodes the bytes, consuming what it reads.
Decode ==
  /\ phase = "decode"
  /\ LET d == mls_decode(wire, receiver_x509)
     IN  /\ d.ok
         /\ received' = d.val
         /\ wire' = d.rest
  /\ phase' = "forward"
  /\ UNCHANGED <<sender_x509, receiver_x509, sent, forwarded>>

\* The receiver's decode fails: a `?` in mls_decode returns an Error.
DecodeError ==
  /\ phase = "decode"
  /\ ~mls_decode(wire, receiver_x509).ok
  /\ phase' = "error"
  /\ UNCHANGED <<sender_x509, receiver_x509, sent, wire, received, forwarded>>

\* The receiver writes the credential it holds into its own messages.
Forward ==
  /\ phase = "forward"
  /\ forwarded' = mls_encode(received)
  /\ phase' = "done"
  /\ UNCHANGED <<sender_x509, receiver_x509, sent, wire, received>>

Next == Encode \/ Decode \/ DecodeError \/ Forward

Spec == Init /\ [][Next]_vars

----------------------------------------------------------------------------
(* Properties                                                              *)

TypeOK ==
  /\ sender_x509 \in BOOLEAN /\ receiver_x509 \in BOOLEAN
  /\ sent \in Credentials(sender_x509)
  /\ wire \in Seq(0..255) /\ forwarded \in Seq(0..255)
  /\ received \in [kind : {"Basic", "X509", "Custom", "None"}, type : 0..65535,
                   data : Seq(0..255), chain : Seq(Seq(0..255))]
  /\ phase \in {"encode", "decode", "forward", "done", "error"}

\* Between two endpoints built alike, every credential that does not use a
\* reserved type as a custom type (the case CustomCredential::new warns
\* about) is decoded to itself and the whole encoding is consumed.
RoundTrip ==
  (/\ sender_x509 = receiver_x509
   /\ phase \in {"forward", "done", "error"}
   /\ sent.kind = "Custom" => sent.type \notin Reserved(sender_x509))
  => /\ phase # "error"
     /\ received = sent
     /\ wire = <<>>

\* Whatever the two builds, a receiver that accepts a credential writes
\* back exactly the bytes it was sent, so signatures over an encoded leaf
\* node still verify when a member without the "x509" feature forwards
\* an X.509 credential.
ForwardPreservesBytes ==
  phase = "done" => forwarded = mls_encode(sent)
=============================================================================
