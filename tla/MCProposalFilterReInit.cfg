\* spec.md 4.C5 step 6 against filter_out_reinit_if_other_proposals:
\* a by-value ReInit next to by-reference proposals only.
CONSTANTS
  Leaves <- MCLeaves
  Committer = 0
  External = External
  NewMemberCommit = NewMemberCommit
  NewMemberProposal = NewMemberProposal
  NoLeaf = NoLeaf
  MaxProposals = 2

INIT Init
NEXT Next

INVARIANTS
  SpecIgnoreByRefFailsOnlyOnByValue

\* A call of apply_proposals_from_member ends in "done" or "failed".
CHECK_DEADLOCK FALSE
