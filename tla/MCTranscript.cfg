\* Three members, commits in epochs 0 and 1 as plaintext or ciphertext,
\* sequenced by the delivery service and delivered under weak fairness.
CONSTANTS
  a = a
  b = b
  c = c
  Members <- MCMembers
  MaxEpoch = 2
  WireFormats = {"Plain", "Cipher"}
  Ordered = TRUE
SPECIFICATION LiveSpec
INVARIANTS
  TypeOK
  Agreement
PROPERTIES
  Converge
\* Commits are bounded by MaxEpoch; once every member is in the last
\* sequenced epoch nothing more can happen.
CHECK_DEADLOCK FALSE
