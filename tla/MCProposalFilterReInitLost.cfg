\* spec.md 8 against the order of the ReInit and leaf-node filters:
\* a valid ReInit next to by-reference proposals that fail later checks.
CONSTANTS
  Leaves <- MCLeaves
  Committer = 0
  External = External
  NewMemberCommit = NewMemberCommit
  NewMemberProposal = NewMemberProposal
  NoLeaf = NoLeaf
  MaxProposals = 2

INIT Init
NEXT Next

INVARIANTS
  SpecReInitSurvivesFailingCompanions

\* A call of apply_proposals_from_member ends in "done" or "failed".
CHECK_DEADLOCK FALSE
