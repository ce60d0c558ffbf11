\* Every bundle of up to two proposals over the whole proposal universe,
\* under both strategies.
CONSTANTS
  Leaves <- MCLeaves
  Committer = 0
  External = External
  NewMemberCommit = NewMemberCommit
  NewMemberProposal = NewMemberProposal
  NoLeaf = NoLeaf
  MaxProposals = 2

INIT Init
NEXT Next

INVARIANTS
  TypeOK
  OutputValid
  IgnoreNoneAllOrNothing
  UpdateSendersAreMembers
  
  IgnoreByRefFailsOnlyOnByValue

PROPERTIES
  ByValueNeverDropped

\* A call of apply_proposals_from_member ends in "done" or "failed".
CHECK_DEADLOCK FALSE
