\* Three members, commits in epochs 0 and 1, every sent commit receivable
\* by every member in any order, so members may fork.
CONSTANTS
  a = a
  b = b
  c = c
  Members <- MCMembers
  MaxEpoch = 2
  WireFormats = {"Plain", "Cipher"}
  Ordered = FALSE
SPECIFICATION Spec
PROPERTIES
  RefinesEpochLog
\* Commits are bounded by MaxEpoch; a forked member may have nothing left
\* it can accept.
CHECK_DEADLOCK FALSE
