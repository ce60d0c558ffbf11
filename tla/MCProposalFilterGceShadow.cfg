\* spec.md 8 against the order of the one-GroupContextExtensions rule and
\* the capabilities check: an ignored first extensions proposal and a valid second.
CONSTANTS
  Leaves <- MCLeaves
  Committer = 0
  External = External
  NewMemberCommit = NewMemberCommit
  NewMemberProposal = NewMemberProposal
  NoLeaf = NoLeaf
  MaxProposals = 2

INIT Init
NEXT Next

INVARIANTS
  SpecGceSurvivesFailingPredecessor

\* A call of apply_proposals_from_member ends in "done" or "failed".
CHECK_DEADLOCK FALSE
