---------------------------- MODULE ProposalFilter ----------------------------
(***************************************************************************)
(* The proposal filter that a committer runs over a ProposalBundle before  *)
(* applying it: ProposalApplier::apply_proposals_from_member in            *)
(* aws-mls/src/group/proposal_filter/filtering.rs.                         *)
(*                                                                         *)
(* The pipeline is a fixed sequence of filter functions, each of which     *)
(* either returns the (possibly shortened) bundle or an error that aborts  *)
(* the commit (the `?` after every call).  Each filter function is one     *)
(* action; `pc` names the call about to be made, so the order of the calls *)
(* is the code's order and no call can be skipped.  A proposal's payload   *)
(* is abstracted to what the filters look at: its type, sender, whether it *)
(* was sent by reference, the leaf a Remove targets, and the verdicts of   *)
(* the external providers (PSK storage, identity provider, leaf-node       *)
(* validator, extension decoding) that are consulted for it.               *)
(***************************************************************************)
EXTENDS Naturals, Sequences, SequencesExt, FiniteSets

CONSTANTS
  Leaves,            \* leaf indices of current members (Sender::Member(i))
  Committer,         \* commit_sender, a member of Leaves
  External,          \* Sender::External(_)
  NewMemberCommit,   \* Sender::NewMemberCommit
  NewMemberProposal, \* Sender::NewMemberProposal
  NoLeaf,            \* the `target` of every proposal that is not a Remove
  MaxProposals       \* bound on the number of proposals in the input bundle

ASSUME Committer \in Leaves
ASSUME MaxProposals \in Nat

VARIABLES
  strategy,   \* FilterStrategy chosen by the committer
  input,      \* the bundle passed in (history variable for the properties)
  proposals,  \* the bundle as it is threaded through the filter functions
  pc,         \* the filter function about to run, or "done" / "failed"
  error,      \* [stage, kind] of the error returned, or NoError
  update_senders  \* proposals.update_senders: the leaf of each Update

vars == <<strategy, input, proposals, pc, error, update_senders>>

Senders == Leaves \cup {External, NewMemberCommit, NewMemberProposal}

\* The proposal types the bundle keeps a separate sequence for (custom
\* proposals are filtered elsewhere, not by apply_proposals_from_member).
ProposalTypes == {"Add", "Update", "Remove", "Psk", "ReInit", "ExternalInit", "Gce"}

\* Types whose validity depends on an external provider's verdict `ok`:
\* PSK lookup, external-senders identity check, ReInit version, leaf node
\* validation of Adds and Updates.  `caps_ok` is the decoding of a
\* GroupContextExtensions proposal's required capabilities.
Checked == {"Add", "Update", "Psk", "ReInit", "Gce"}

Proposal ==
  { p \in [type: ProposalTypes, sender: Senders, by_ref: BOOLEAN,
           target: Leaves \cup {NoLeaf}, ok: BOOLEAN, caps_ok: BOOLEAN] :
      /\ (p.type = "Remove") = (p.target # NoLeaf)
      /\ p.type \notin Checked => p.ok
      /\ p.type # "Gce" => p.caps_ok }

Bundle == [ProposalTypes -> Seq(Proposal)]

\* ProposalBundle keeps the proposals of each type in insertion order.
ToBundle(s) == [t \in ProposalTypes |-> SelectSeq(s, LAMBDA p : p.type = t)]

\* ProposalBundle::length
Length(b) == SumFunction([t \in ProposalTypes |-> Len(b[t])])

ByValue(p) == ~p.by_ref

NoError == [stage |-> "none", kind |-> "none"]

----------------------------------------------------------------------------
(* FilterStrategy and apply_strategy.  A check's verdict is "keep", "drop" *)
(* or the name of the error that aborts the commit.                        *)

\* Mutant of `ignore`: the strategy is not consulted.
ignore_whatever_strategy(by_ref) == by_ref

\* FilterStrategy::ignore
ignore(by_ref) == strategy = "IgnoreByRef" /\ by_ref

\* FilterStrategy::is_ignore
is_ignore == strategy = "IgnoreByRef"

\* apply_strategy: Ok keeps the proposal; an error drops it when the
\* strategy ignores it, and is returned otherwise.
apply_strategy(by_ref, ok, err) ==
  IF ok THEN "keep" ELSE IF ignore(by_ref) THEN "drop" ELSE err

IsVerdict(v) == v \in {"keep", "drop"}

\* The first error among the verdicts of a sequence, or "none".
FirstError(v) ==
  LET bad == {i \in DOMAIN v : ~IsVerdict(v[i])}
  IN  IF bad = {} THEN "none" ELSE v[Min(bad)]

\* The proposals whose verdict is "keep", in their order.
Kept(s, v) ==
  LET idx == SelectSeq([i \in DOMAIN s |-> i], LAMBDA i : v[i] = "keep")
  IN  [j \in DOMAIN idx |-> s[idx[j]]]

\* ProposalBundle::retain_by_type, and the `for i in (..).rev()` loops that
\* remove the i-th proposal: v[i] is the verdict on the i-th proposal of
\* type t.  The loops and retain stop at the first error; which error is
\* returned first does not matter, since a loop only ever returns one kind.
RetainByType(b, t, v) ==
  [err |-> FirstError(v), bundle |-> [b EXCEPT ![t] = Kept(b[t], v)]]

Ok(b) == [err |-> "none", bundle |-> b]
Fail(e) == [err |-> e]

----------------------------------------------------------------------------
(* The filter functions, in the order apply_proposals_from_member calls    *)
(* them.                                                                   *)

\* Mutant of proposer_can_propose: members may send Update by value.
proposer_can_propose_update_by_value(p) ==
  \/ p.sender \in Leaves /\ p.type \in {"Add", "Update", "Remove", "Psk", "ReInit", "Gce"}
  \/ p.sender = External /\ p.by_ref /\ p.type \in {"Add", "Remove", "ReInit", "Psk", "Gce"}
  \/ p.sender = NewMemberCommit /\ ~p.by_ref /\ p.type \in {"Remove", "Psk", "ExternalInit"}
  \/ p.sender = NewMemberProposal /\ p.by_ref /\ p.type = "Add"

\* Mutant of proposer_can_propose: External may send Update by reference.
proposer_can_propose_external_update(p) ==
  \/ p.sender \in Leaves /\ ~p.by_ref /\ p.type \in {"Add", "Remove", "Psk", "ReInit", "Gce"}
  \/ p.sender \in Leaves /\ p.by_ref /\ p.type \in {"Add", "Update", "Remove", "Psk", "ReInit", "Gce"}
  \/ p.sender = External /\ p.by_ref /\ p.type \in {"Add", "Update", "Remove", "ReInit", "Psk", "Gce"}
  \/ p.sender = NewMemberCommit /\ ~p.by_ref /\ p.type \in {"Remove", "Psk", "ExternalInit"}
  \/ p.sender = NewMemberProposal /\ p.by_ref /\ p.type = "Add"

\* proposer_can_propose: the (sender, by-reference) -> allowed types table.
proposer_can_propose(p) ==
  LET member == p.sender \in Leaves
  IN  \/ member /\ ~p.by_ref /\ p.type \in {"Add", "Remove", "Psk", "ReInit", "Gce"}
      \/ member /\ p.by_ref /\ p.type \in {"Add", "Update", "Remove", "Psk", "ReInit", "Gce"}
      \/ p.sender = External /\ p.by_ref /\ p.type \in {"Add", "Remove", "ReInit", "Psk", "Gce"}
      \/ p.sender = NewMemberCommit /\ ~p.by_ref /\ p.type \in {"Remove", "Psk", "ExternalInit"}
      \/ p.sender = NewMemberProposal /\ p.by_ref /\ p.type = "Add"

\* filter_out_invalid_proposers: one reverse loop per type.
filter_out_invalid_proposers(b) ==
  LET V(i, p) == apply_strategy(p.by_ref, proposer_can_propose(p), "InvalidProposalTypeForSender")
      v == [t \in ProposalTypes |-> [i \in DOMAIN b[t] |-> V(i, b[t][i])]]
  IN  IF \E t \in ProposalTypes : FirstError(v[t]) # "none"
      THEN Fail("InvalidProposalTypeForSender")
      ELSE Ok([t \in ProposalTypes |-> Kept(b[t], v[t])])

\* filter_out_update_for_committer
filter_out_update_for_committer(b) ==
  RetainByType(b, "Update", [i \in DOMAIN b["Update"] |->
    LET p == b["Update"][i] IN apply_strategy(p.by_ref, p.sender # Committer, "InvalidCommitSelfUpdate")])

\* proposals.update_senders = updates.map(leaf_index_of_update_sender)?
leaf_index_of_update_sender(b) ==
  IF \A i \in DOMAIN b["Update"] : b["Update"][i].sender \in Leaves
  THEN [err |-> "none", bundle |-> b,
        senders |-> [i \in DOMAIN b["Update"] |-> b["Update"][i].sender]]
  ELSE Fail("InvalidProposalTypeForSender")

\* filter_out_removal_of_committer
filter_out_removal_of_committer(b) ==
  RetainByType(b, "Remove", [i \in DOMAIN b["Remove"] |->
    LET p == b["Remove"][i] IN apply_strategy(p.by_ref, p.target # Committer, "CommitterSelfRemoval")])

\* filter_out_invalid_psks (filtering_common): the PSK must exist in the
\* storage and be of the right type; `ok` is that verdict.
filter_out_invalid_psks(b) ==
  RetainByType(b, "Psk", [i \in DOMAIN b["Psk"] |->
    LET p == b["Psk"][i] IN apply_strategy(p.by_ref, p.ok, "InvalidPsk")])

\* filter_out_invalid_group_extensions: the external-senders extension of
\* a GroupContextExtensions proposal must verify with the identity provider.
filter_out_invalid_group_extensions(b) ==
  RetainByType(b, "Gce", [i \in DOMAIN b["Gce"] |->
    LET p == b["Gce"][i] IN apply_strategy(p.by_ref, p.ok, "IdentityProviderError")])

\* filter_out_extra_group_context_extensions: `found` is set by the first
\* proposal visited, so every later one is an error.
filter_out_extra_group_context_extensions(b) ==
  RetainByType(b, "Gce", [i \in DOMAIN b["Gce"] |->
    LET p == b["Gce"][i] IN apply_strategy(p.by_ref, i = 1, "MoreThanOneGroupContextExtensionsProposal")])

\* filter_out_invalid_reinit: `ok` is p.proposal.version >= protocol_version.
filter_out_invalid_reinit(b) ==
  RetainByType(b, "ReInit", [i \in DOMAIN b["ReInit"] |->
    LET p == b["ReInit"][i] IN apply_strategy(p.by_ref, p.ok, "InvalidProtocolVersionInReInit")])

\* Mutant of filter_out_reinit_if_other_proposals: `any_by_val` left out.
reinit_if_other_proposals_no_by_val(b) ==
  IF Length(b) > Len(b["ReInit"])
  THEN IF b["ReInit"] # <<>> /\ ~is_ignore THEN Fail("OtherProposalWithReInit")
       ELSE Ok([b EXCEPT !["ReInit"] = <<>>])
  ELSE Ok(b)

\* filter_out_reinit_if_other_proposals(strategy.is_ignore(), _)
filter_out_reinit_if_other_proposals(b) ==
  LET has_other_types == Length(b) > Len(b["ReInit"])
      any_by_val == \E i \in DOMAIN b["ReInit"] : ByValue(b["ReInit"][i])
  IN  CASE ~has_other_types -> Ok(b)
        [] any_by_val \/ (b["ReInit"] # <<>> /\ ~is_ignore) -> Fail("OtherProposalWithReInit")
        [] OTHER -> Ok([b EXCEPT !["ReInit"] = <<>>])

\* filter_out_external_init: a member's commit may carry no ExternalInit.
filter_out_external_init(b) ==
  RetainByType(b, "ExternalInit", [i \in DOMAIN b["ExternalInit"] |->
    LET p == b["ExternalInit"][i] IN apply_strategy(p.by_ref, FALSE, "InvalidProposalTypeForSender")])

\* Mutant of apply_proposal_changes: a decoding error is returned without
\* asking the strategy.
apply_proposal_changes_strict(b) ==
  LET gce == b["Gce"]
  IN  CASE gce # <<>> /\ gce[1].caps_ok -> Ok(b)
        [] gce # <<>> -> Fail("ExtensionError")
        [] OTHER -> Ok(b)

\* apply_proposal_changes: decode the required capabilities of the (first)
\* GroupContextExtensions proposal; if it is ignored, or there is none, the
\* extensions proposals are cleared.  When one is kept, the code goes on to
\* apply_proposals_with_new_capabilities (line 123), which is not in this
\* tree; the model goes on to validate_new_nodes as for no extensions.
apply_proposal_changes(b) ==
  LET gce == b["Gce"]
  IN  CASE gce # <<>> /\ gce[1].caps_ok -> Ok(b)
        [] gce # <<>> /\ ~ignore(gce[1].by_ref) -> Fail("ExtensionError")
        [] OTHER -> Ok([b EXCEPT !["Gce"] = <<>>])

\* ProposalBundle::remove::<UpdateProposal>(i) on the bundle r.bundle and
\* its update_senders r.senders: the i-th Update and the i-th sender go,
\* and the later ones move down by one.
RemoveUpdate(r, i) ==
  [r EXCEPT !.bundle = [@ EXCEPT !["Update"] = RemoveAt(@, i)],
            !.senders = RemoveAt(@, i)]

\* One pass of the Update loop of validate_new_nodes at index i of r:
\* `update_senders.get(i).ok_or(InternalProposalFilterError)?`, then the
\* leaf node check (`ok`: the leaf validator under the sender's index,
\* extension support and valid_successor), then apply_strategy, removing
\* the Update when it says so.  The `?` on get_leaf_node (line 212), which
\* fails the commit whatever the strategy, has no outcome here: every
\* Update sender is a member with an occupied leaf (UpdateSendersAreMembers).
UpdateStep(r, i) ==
  LET p == r.bundle["Update"][i]
      v == apply_strategy(p.by_ref, p.ok, "InvalidLeafNode")
  IN  CASE i > Len(r.senders) -> Fail("InternalProposalFilterError")
        [] ~IsVerdict(v)      -> Fail(v)
        [] v = "drop"         -> RemoveUpdate(r, i)
        [] OTHER              -> r

\* `for i in (0..updates.len()).rev()`: indices from n down to 1.
RECURSIVE UpdateLoop(_, _)
UpdateLoop(r, i) ==
  IF i = 0 \/ r.err # "none" THEN r ELSE UpdateLoop(UpdateStep(r, i), i - 1)

\* The same loop run upwards over 1..n, as `for i in 0..len` would.
RECURSIVE UpdateLoopForward(_, _, _)
UpdateLoopForward(r, i, n) ==
  IF i > n \/ r.err # "none" THEN r
  ELSE UpdateLoopForward(UpdateStep(r, i), i + 1, n)

\* The Add loop: bad indices are collected, then removed in reverse, which
\* keeps exactly the Adds whose verdict is "keep".
AddLoop(r) ==
  LET s == r.bundle["Add"]
      v == [i \in DOMAIN s |-> apply_strategy(s[i].by_ref, s[i].ok, "InvalidLeafNode")]
      a == RetainByType(r.bundle, "Add", v)
  IN  IF r.err # "none" THEN r
      ELSE [err |-> a.err, bundle |-> a.bundle, senders |-> r.senders]

validate_new_nodes(b, senders) ==
  AddLoop(UpdateLoop([err |-> "none", bundle |-> b, senders |-> senders],
                     Len(b["Update"])))

----------------------------------------------------------------------------
(* The pipeline.                                                           *)

\* apply_proposals_from_member is called with a bundle of at most
\* MaxProposals proposals and a strategy.
Init ==
  /\ strategy \in {"IgnoreByRef", "IgnoreNone"}
  /\ \E s \in BoundedSeq(Proposal, MaxProposals) : input = ToBundle(s)
  /\ proposals = input
  /\ pc = "invalid_proposers"
  /\ error = NoError
  /\ update_senders = <<>>

\* Mutant of Call: the error is attributed to the call after the failing one.
Call_error_next_stage(s, r, next) ==
  /\ pc = s
  /\ pc' = IF r.err = "none" THEN next ELSE "failed"
  /\ proposals' = IF r.err = "none" THEN r.bundle ELSE proposals
  /\ error' = IF r.err = "none" THEN error ELSE [stage |-> next, kind |-> r.err]
  /\ update_senders' = IF r.err = "none" /\ "senders" \in DOMAIN r
                      THEN r.senders ELSE update_senders
  /\ UNCHANGED <<strategy, input>>

\* The call at `pc` = s returns r; `?` makes an error the commit's result,
\* and otherwise the returned bundle goes to the next call.
Call(s, r, next) ==
  /\ pc = s
  /\ pc' = IF r.err = "none" THEN next ELSE "failed"
  /\ proposals' = IF r.err = "none" THEN r.bundle ELSE proposals
  /\ error' = IF r.err = "none" THEN error ELSE [stage |-> s, kind |-> r.err]
  /\ update_senders' = IF r.err = "none" /\ "senders" \in DOMAIN r
                      THEN r.senders ELSE update_senders
  /\ UNCHANGED <<strategy, input>>

InvalidProposers ==
  Call("invalid_proposers", filter_out_invalid_proposers(proposals), "update_for_committer")
UpdateForCommitter ==
  Call("update_for_committer", filter_out_update_for_committer(proposals), "update_senders")
UpdateSenders ==
  Call("update_senders", leaf_index_of_update_sender(proposals), "removal_of_committer")
RemovalOfCommitter ==
  Call("removal_of_committer", filter_out_removal_of_committer(proposals), "invalid_psks")
InvalidPsks ==
  Call("invalid_psks", filter_out_invalid_psks(proposals), "invalid_group_extensions")
InvalidGroupExtensions ==
  Call("invalid_group_extensions", filter_out_invalid_group_extensions(proposals),
       "extra_group_context_extensions")
ExtraGroupContextExtensions ==
  Call("extra_group_context_extensions",
       filter_out_extra_group_context_extensions(proposals), "invalid_reinit")
InvalidReInit ==
  Call("invalid_reinit", filter_out_invalid_reinit(proposals), "reinit_if_other_proposals")
ReInitIfOtherProposals ==
  Call("reinit_if_other_proposals", filter_out_reinit_if_other_proposals(proposals),
       "external_init")
ExternalInitFilter ==
  Call("external_init", filter_out_external_init(proposals), "proposal_changes")
ProposalChanges ==
  Call("proposal_changes", apply_proposal_changes(proposals), "new_nodes")
NewNodes ==
  Call("new_nodes", validate_new_nodes(proposals, update_senders), "done")

\* The call ends with "done" (the bundle goes on to batch_edit) or
\* "failed"; no step is enabled after that.
Next ==
  \/ InvalidProposers
  \/ UpdateForCommitter
  \/ UpdateSenders
  \/ RemovalOfCommitter
  \/ InvalidPsks
  \/ InvalidGroupExtensions
  \/ ExtraGroupContextExtensions
  \/ InvalidReInit
  \/ ReInitIfOtherProposals
  \/ ExternalInitFilter
  \/ ProposalChanges
  \/ NewNodes

Spec == Init /\ [][Next]_vars

----------------------------------------------------------------------------
(* What the filter promises, stated from spec.md 4.C5 and 7 independently *)
(* of the code above.                                                      *)

StageNames == {"invalid_proposers", "update_for_committer", "update_senders",
               "removal_of_committer", "invalid_psks", "invalid_group_extensions",
               "extra_group_context_extensions", "invalid_reinit",
               "reinit_if_other_proposals", "external_init",
               "proposal_changes", "new_nodes"}

TypeOK ==
  /\ strategy \in {"IgnoreByRef", "IgnoreNone"}
  /\ input \in Bundle
  /\ proposals \in Bundle
  /\ pc \in StageNames \cup {"done", "failed"}
  /\ error \in {NoError} \cup [stage: StageNames, kind: STRING]
  /\ update_senders \in Seq(Leaves)

SenderKind(s) ==
  CASE s \in Leaves            -> "Member"
    [] s = External            -> "External"
    [] s = NewMemberCommit     -> "NewMemberCommit"
    [] s = NewMemberProposal   -> "NewMemberProposal"

\* The "Allowed (sender, by-ref?) -> proposal types" table of spec.md 4.C5.
AllowedByValue ==
  [Member |-> {"Add", "Remove", "Psk", "ReInit", "Gce"}, External |-> {},
   NewMemberCommit |-> {"Remove", "Psk", "ExternalInit"}, NewMemberProposal |-> {}]
AllowedByRef ==
  [Member |-> {"Add", "Update", "Remove", "Psk", "ReInit", "Gce"},
   External |-> {"Add", "Remove", "ReInit", "Psk", "Gce"},
   NewMemberCommit |-> {}, NewMemberProposal |-> {"Add"}]

Authorised(p) ==
  p.type \in (IF p.by_ref THEN AllowedByRef ELSE AllowedByValue)[SenderKind(p.sender)]

\* The checks of spec.md 4.C5 that concern one proposal on its own: sender
\* authorisation, no self-update, no self-removal, the provider verdicts
\* (PSK, external senders, ReInit version, leaf revalidation, extension
\* decoding), and no ExternalInit in a member's commit.
IndividuallyValid(p) ==
  /\ Authorised(p)
  /\ ~(p.type = "Update" /\ p.sender = Committer)
  /\ ~(p.type = "Remove" /\ p.target = Committer)
  /\ p.ok /\ p.caps_ok
  /\ p.type # "ExternalInit"

Proposals(b) == UNION {Range(b[t]) : t \in ProposalTypes}

\* A bundle that may be applied as it is: every proposal valid, at most one
\* GroupContextExtensions, and a ReInit only on its own.
BundleValid(b) ==
  /\ \A p \in Proposals(b) : IndividuallyValid(p)
  /\ Len(b["Gce"]) <= 1
  /\ b["ReInit"] # <<>> => Length(b) = Len(b["ReInit"])

\* A bundle the filter returns is one that may be applied: every proposal
\* in it passed every check of every stage, whatever it was dropped next to.
OutputValid == pc = "done" => BundleValid(proposals)

\* "By-value proposals can never be silently dropped": no filter function
\* that returns Ok removes a by-value proposal (the committer chose it).
ByValueNeverDropped ==
  [][pc' # "failed" =>
       \A t \in ProposalTypes :
          SelectSeq(proposals'[t], ByValue) = SelectSeq(proposals[t], ByValue)]_vars

\* Under IgnoreNone the filter is all or nothing: it returns the bundle it
\* was given, untouched, or it fails, and it fails only when that bundle
\* could not be applied as it is.
IgnoreNoneAllOrNothing ==
  strategy = "IgnoreNone" =>
     /\ pc = "done" => proposals = input
     /\ pc = "failed" => ~BundleValid(input)

\* The comment before `update_senders` (filtering.rs:57): once the proposer
\* check has run, every Update is from a member, so mapping the senders to
\* leaf indices never fails.
UpdateSendersAreMembers == error.stage # "update_senders"

ByValueFault(b) ==
  \E t \in ProposalTypes : \E i \in DOMAIN b[t] :
     LET p == b[t][i] IN
     /\ ByValue(p)
     /\ \/ ~IndividuallyValid(p)
        \/ t = "Gce" /\ Len(b["Gce"]) > 1
        \/ t = "ReInit" /\ Length(b) > Len(b["ReInit"])

\* Under IgnoreByRef a commit never fails because of by-reference
\* proposals alone: whatever check a by-reference proposal fails, at any
\* stage, it is dropped, and the commit fails only for a by-value fault.
IgnoreByRefFailsOnlyOnByValue ==
  (strategy = "IgnoreByRef" /\ pc = "failed") => ByValueFault(input)

\* spec.md 4.C5 step 6: a ReInit "must be alone (no other by-value
\* proposals; any by-reference others are dropped under IgnoreByRef)".  So a
\* by-value ReInit is a fault only next to another by-value proposal.
SpecByValueFault(b) ==
  \E t \in ProposalTypes : \E i \in DOMAIN b[t] :
     LET p == b[t][i] IN
     /\ ByValue(p)
     /\ \/ ~IndividuallyValid(p)
        \/ t = "Gce" /\ Len(b["Gce"]) > 1
        \/ t = "ReInit" /\ \E u \in ProposalTypes : \E j \in DOMAIN b[u] :
                              <<u, j>> # <<t, i>> /\ ByValue(b[u][j])

\* The same promise with the ReInit rule as spec.md states it.
SpecIgnoreByRefFailsOnlyOnByValue ==
  (strategy = "IgnoreByRef" /\ pc = "failed") => SpecByValueFault(input)

\* spec.md 8: "Under IgnoreByRef, a commit with only by-reference failures
\* always succeeds and excludes exactly the failing proposals".  A valid
\* by-reference ReInit whose companions are all failing by-reference proposals is, once
\* they are excluded, alone, so it must be in the applied bundle.
SpecReInitSurvivesFailingCompanions ==
  LET others == UNION {Range(input[t]) : t \in ProposalTypes \ {"ReInit"}}
  IN  (/\ strategy = "IgnoreByRef"
       /\ pc \in {"done", "failed"}
       /\ \A q \in others : q.by_ref /\ ~IndividuallyValid(q)
       /\ \A q \in Proposals(input) : ~IndividuallyValid(q) => q.by_ref)
      => \A r \in Range(input["ReInit"]) :
            (r.by_ref /\ IndividuallyValid(r)) => (pc = "done" /\ r \in Range(proposals["ReInit"]))

\* spec.md 8 with spec.md 4.C5 step 5: under IgnoreByRef the filter
\* "excludes exactly the failing proposals", and a commit holds at most one
\* GroupContextExtensions proposal.  When every failing proposal is by
\* reference, every extensions proposal is by reference and one of them is
\* valid, excluding the failing ones leaves a valid extensions proposal, so
\* the applied bundle holds one: the one-per-commit rule
\* (filter_out_extra_group_context_extensions) must not discard it in
\* favour of an earlier one that the capabilities check then ignores.
SpecGceSurvivesFailingPredecessor ==
  (/\ strategy = "IgnoreByRef"
   /\ pc \in {"done", "failed"}
   /\ input["ReInit"] = <<>>
   /\ \A q \in Proposals(input) : ~IndividuallyValid(q) => q.by_ref
   /\ \A g \in Range(input["Gce"]) : g.by_ref
   /\ \E g \in Range(input["Gce"]) : IndividuallyValid(g))
  => pc = "done" /\ proposals["Gce"] # <<>>
=============================================================================
