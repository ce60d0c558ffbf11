---------------------------- MODULE MCTranscript ----------------------------
(* Model-checking instance of Transcript: three members.                  *)
EXTENDS Transcript

CONSTANTS a, b, c

MCMembers == {a, b, c}
=============================================================================
