--------------------------- MODULE MCProposalFilter ---------------------------
(* Model-checking instance of ProposalFilter: two members, the committer  *)
(* at leaf 0, the three non-member senders as model values.               *)
EXTENDS ProposalFilter

MCLeaves == {0, 1, 2}
=============================================================================
