---------------------------- MODULE MCCredential ----------------------------
(* Model-checking instance of Credential: custom types 1 and 2 collide     *)
(* with BASIC and X509, 3 and 0xF001 (private use) do not.               *)
EXTENDS Credential

MCCustomTypes == {1, 2, 3, 61441}
=============================================================================
