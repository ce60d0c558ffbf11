\* Identifiers, certificates and custom data of up to 2 bytes over {0, 1},
\* chains of up to 2 certificates, both builds at each end.
CONSTANTS
  Bytes = {0, 1}
  MaxData = 2
  MaxChain = 2
  CustomTypes <- MCCustomTypes
INIT Init
NEXT Next
INVARIANTS
  TypeOK
  RoundTrip
  ForwardPreservesBytes
\* A credential is sent once: every behaviour ends in done or error.
CHECK_DEADLOCK FALSE
