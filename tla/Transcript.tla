----------------------------- MODULE Transcript -----------------------------
(***************************************************************************)
(* The transcript hashes of aws-mls/src/group/transcript_hash.rs and the   *)
(* membership tag of src/group/membership_tag.rs, driven by the commit     *)
(* processor of spec.md 4.C6 (its code is not in this source tree).        *)
(*                                                                         *)
(* Members commit against their current epoch and send the commit to the  *)
(* delivery service; `msgs` holds every commit ever sent, so a commit may  *)
(* be received late, twice, or never.  When Ordered, the delivery service  *)
(* sequences one commit per epoch (`ds`) and members receive only those;   *)
(* otherwise a member may receive any commit, and members may fork.        *)
(*                                                                         *)
(* Hashes and MACs are ideal: a hash is the record of its input, so two    *)
(* are equal exactly when their inputs are.  The key schedule is not in    *)
(* this tree; each epoch's keys are modelled as a function of the          *)
(* GroupContext alone, so that what binds an epoch to its history is the   *)
(* transcript hash inside that context, as spec.md 4.C7 derives it.        *)
(***************************************************************************)
EXTENDS Naturals, Sequences, SequencesExt

CONSTANTS
  Members,      \* the group's members
  MaxEpoch,     \* commits are made in epochs 0 .. MaxEpoch - 1
  WireFormats,  \* subset of {"Plain", "Cipher"} commits are sent as
  Ordered       \* the delivery service sequences one commit per epoch

ASSUME MaxEpoch \in Nat /\ WireFormats \subseteq {"Plain", "Cipher"}
ASSUME Ordered \in BOOLEAN

VARIABLES
  epoch,      \* epoch[m]: the epoch of member m's GroupContext
  confirmed,  \* confirmed[m]: its confirmed_transcript_hash
  interim,    \* interim[m]: its interim transcript hash
  pending,    \* pending[m]: the commit m sent and the state it will adopt
  msgs,       \* every commit message ever sent
  ds          \* the delivery service's sequence of commits, one per epoch

vars == <<epoch, confirmed, interim, pending, msgs, ds>>

----------------------------------------------------------------------------
(* Hash values, tags and keys.                                             *)

\* The empty hash both transcripts start from at group creation.
EmptyHash == [kind |-> "empty"]

NoTag == [kind |-> "none"]

\* GroupContext, reduced to the fields that change at a commit and that
\* the transcript determines.
GroupContext(e, c) == [epoch |-> e, confirmed |-> c]

\* Mutant of ConfirmedTranscriptHash::create: the hash input omits the
\* previous interim hash.
ConfirmedTranscriptHashCreate_no_interim(interim_hash, ac) ==
  [kind |-> "confirmed", interim |-> EmptyHash,
   input |-> [wire_format |-> ac.wire_format, content |-> ac.content,
              signature |-> ac.auth.signature]]

\* Mutant of ConfirmedTranscriptHash::create: the whole auth data is
\* encoded, confirmation tag included, instead of the signature alone.
ConfirmedTranscriptHashCreate_whole_auth(interim_hash, ac) ==
  [kind |-> "confirmed", interim |-> interim_hash,
   input |-> [wire_format |-> ac.wire_format, content |-> ac.content,
              signature |-> ac.auth]]

\* ConfirmedTranscriptHash::create: H(interim || encode(wire_format,
\* content, signature)).
ConfirmedTranscriptHashCreate(interim_hash, ac) ==
  [kind |-> "confirmed", interim |-> interim_hash,
   input |-> [wire_format |-> ac.wire_format, content |-> ac.content,
              signature |-> ac.auth.signature]]

\* Mutant of InterimTranscriptHash::create: the confirmed hash is returned.
InterimTranscriptHashCreate_confirmed(confirmed_hash, tag) == confirmed_hash

\* InterimTranscriptHash::create: H(confirmed || encode(confirmation_tag)).
InterimTranscriptHashCreate(confirmed_hash, tag) ==
  [kind |-> "interim", confirmed |-> confirmed_hash, tag |-> tag]

\* A secret of the key schedule of the epoch with this GroupContext.
KeyOf(label, ctx) == [label |-> label, context |-> ctx]

\* ConfirmationTag: MAC(confirmation_key, confirmed_transcript_hash).
ConfirmationTagCreate(ctx, c) ==
  [kind |-> "mac", key |-> KeyOf("confirmation", ctx), msg |-> c]

\* A member's signature over the content and the GroupContext.
Sign(m, content, ctx) ==
  [kind |-> "sig", signer |-> m, content |-> content, context |-> ctx]

\* MLSContentTBM::from_authenticated_content: the content to be signed,
\* with the group context, and the auth data.
MLSContentTBM(ac, ctx) ==
  [content_tbs |-> [wire_format |-> ac.wire_format, content |-> ac.content,
                    context |-> ctx],
   auth |-> ac.auth]

\* MembershipTag::create: refused for any wire format but plaintext, else
\* the HMAC of the serialized MLSContentTBM under the membership key.
MembershipTagCreate(ac, ctx, membership_key) ==
  IF ac.wire_format # "Plain"
  THEN [ok |-> FALSE, tag |-> NoTag]
  ELSE [ok |-> TRUE,
        tag |-> [kind |-> "mac", key |-> membership_key, msg |-> MLSContentTBM(ac, ctx)]]

----------------------------------------------------------------------------
(* The commit processor (spec.md 4.C6).                                    *)

NoPending == [commit |-> NoTag, confirmed |-> EmptyHash, interim |-> EmptyHash]

Context(m) == GroupContext(epoch[m], confirmed[m])

\* The commits member m can receive.
Deliverable(m) == IF Ordered THEN Range(ds) ELSE msgs

\* Mutant of CommitterInterim: the committer chains its new interim hash
\* from the confirmed hash of the epoch it is leaving.
CommitterInterim_stale(m, c, tag) == InterimTranscriptHashCreate(confirmed[m], tag)

\* Step 9 on the committer's side.
CommitterInterim(m, c, tag) == InterimTranscriptHashCreate(c, tag)

\* The committer's order (generate_test_vector): sign the content with no
\* confirmation tag, hash it into the transcript, tag the hash under the
\* new epoch's confirmation key, chain the interim hash from the tag, and
\* only then set the tag in the auth data.
CommitterTranscript(m, wf) ==
  LET ctx     == Context(m)
      content == [sender |-> m, epoch |-> epoch[m]]
      draft   == [wire_format |-> wf, content |-> content,
                  auth |-> [signature |-> Sign(m, content, ctx), confirmation_tag |-> NoTag]]
      c       == ConfirmedTranscriptHashCreate(interim[m], draft)
      tag     == ConfirmationTagCreate(GroupContext(epoch[m] + 1, c), c)
  IN  [ac |-> [draft EXCEPT !.auth.confirmation_tag = tag],
       confirmed |-> c, interim |-> CommitterInterim(m, c, tag)]

\* The receiver's check (the transcript_hash test): recompute both hashes
\* from its own interim hash and the received content, and accept the
\* confirmation tag only if it matches the recomputed confirmed hash.
ReceiverTranscript(m, ac) ==
  LET c == ConfirmedTranscriptHashCreate(interim[m], ac)
  IN  [tag_ok |-> ac.auth.confirmation_tag
                    = ConfirmationTagCreate(GroupContext(epoch[m] + 1, c), c),
       confirmed |-> c,
       interim |-> InterimTranscriptHashCreate(c, ac.auth.confirmation_tag)]

Init ==
  /\ epoch = [m \in Members |-> 0]
  /\ confirmed = [m \in Members |-> EmptyHash]
  /\ interim = [m \in Members |-> EmptyHash]
  /\ pending = [m \in Members |-> NoPending]
  /\ msgs = {}
  /\ ds = <<>>

\* Steps 5-10 for a committer: sign the content, hash it into the
\* transcript, tag the new context, frame it, send it, and keep the new
\* state pending until the commit comes back.
Commit(m, wf) ==
  LET ctx     == Context(m)
      t       == CommitterTranscript(m, wf)
      ac      == t.ac
      content == ac.content
      msg     == [wire_format |-> wf, content |-> content, auth |-> ac.auth,
                  membership_tag |->
                     IF wf = "Plain"
                     THEN MembershipTagCreate(ac, ctx, KeyOf("membership", ctx)).tag
                     ELSE NoTag,
                  encrypted_under |->
                     IF wf = "Cipher" THEN KeyOf("encryption", ctx) ELSE NoTag]
  IN  /\ epoch[m] < MaxEpoch
      /\ \A x \in msgs : x.content # content
      /\ msgs' = msgs \cup {msg}
      /\ pending' = [pending EXCEPT ![m] =
                       [commit |-> msg, confirmed |-> t.confirmed,
                        interim |-> t.interim]]
      /\ UNCHANGED <<epoch, confirmed, interim, ds>>

\* The delivery service accepts the first commit made in the next epoch.
Sequence(msg) ==
  /\ Ordered
  /\ msg \in msgs
  /\ msg.content.epoch = Len(ds)
  /\ ds' = Append(ds, msg)
  /\ UNCHANGED <<epoch, confirmed, interim, pending, msgs>>

\* Framing: a plaintext commit's membership tag verifies under the
\* receiver's context and membership key; a ciphertext one decrypts under
\* the receiver's epoch keys.  The signature verifies over the receiver's
\* context.
FramingValid(msg, ctx) ==
  /\ IF msg.wire_format = "Plain"
     THEN msg.membership_tag = MembershipTagCreate(msg, ctx, KeyOf("membership", ctx)).tag
     ELSE msg.encrypted_under = KeyOf("encryption", ctx)
  /\ msg.auth.signature = Sign(msg.content.sender, msg.content, ctx)

\* Receive path: a commit of another member for the receiver's epoch is
\* accepted iff framing verifies and the confirmation tag equals the one
\* recomputed from the receiver's own transcript; any pending commit of
\* the receiver is then obsolete.  A rejected commit changes nothing.
ProcessCommit(m, msg) ==
  LET t == ReceiverTranscript(m, msg)
  IN  /\ msg \in Deliverable(m)
      /\ msg.content.sender # m
      /\ msg.content.epoch = epoch[m]
      /\ FramingValid(msg, Context(m))
      /\ t.tag_ok
      /\ epoch' = [epoch EXCEPT ![m] = @ + 1]
      /\ confirmed' = [confirmed EXCEPT ![m] = t.confirmed]
      /\ interim' = [interim EXCEPT ![m] = t.interim]
      /\ pending' = [pending EXCEPT ![m] = NoPending]
      /\ UNCHANGED <<msgs, ds>>

\* The committer receives its own commit and adopts the pending state.
ApplyPending(m) ==
  /\ pending[m] # NoPending
  /\ pending[m].commit \in Deliverable(m)
  /\ pending[m].commit.content.epoch = epoch[m]
  /\ epoch' = [epoch EXCEPT ![m] = @ + 1]
  /\ confirmed' = [confirmed EXCEPT ![m] = pending[m].confirmed]
  /\ interim' = [interim EXCEPT ![m] = pending[m].interim]
  /\ pending' = [pending EXCEPT ![m] = NoPending]
  /\ UNCHANGED <<msgs, ds>>

\* A member takes in the next commit it can receive.
Deliver(m) == (\E msg \in msgs : ProcessCommit(m, msg)) \/ ApplyPending(m)

Next ==
  \/ \E m \in Members, wf \in WireFormats : Commit(m, wf)
  \/ \E msg \in msgs : Sequence(msg)
  \/ \E m \in Members, msg \in msgs : ProcessCommit(m, msg)
  \/ \E m \in Members : ApplyPending(m)

Spec == Init /\ [][Next]_vars

\* The delivery service eventually sequences a commit for the next epoch
\* once one was sent, and a member eventually takes in a commit it can
\* receive.
Fairness ==
  /\ WF_vars(\E msg \in msgs : Sequence(msg))
  /\ \A m \in Members : WF_vars(Deliver(m))

LiveSpec == Spec /\ Fairness

----------------------------------------------------------------------------
(* Properties                                                              *)

TypeOK ==
  /\ epoch \in [Members -> 0..MaxEpoch]
  /\ \A m \in Members :
        /\ confirmed[m].kind \in {"empty", "confirmed"}
        /\ interim[m].kind \in {"empty", "interim"}
        /\ pending[m].commit = NoTag \/ pending[m].commit \in msgs
  /\ Len(ds) <= MaxEpoch

\* Members that have reached the same epoch hold the same confirmed and
\* interim transcript hashes, whether they got there by processing the
\* commit (ProcessCommit) or by adopting the state they computed when
\* they made it (ApplyPending).
Agreement ==
  \A m, n \in Members :
     epoch[m] = epoch[n] => /\ confirmed[m] = confirmed[n]
                            /\ interim[m] = interim[n]

\* With a delivery service that sequences commits and delivers them
\* eventually, every member ends up in the last sequenced epoch: no
\* member's recomputation of the transcript rejects a commit the
\* committer itself adopted.
Converge == <>[](\A m \in Members : epoch[m] = Len(ds))

\* The commits a confirmed transcript hash chains, oldest first, read
\* back through the interim hashes it contains.
RECURSIVE HistoryOf(_)
HistoryOf(h) ==
  IF h.kind = "empty" THEN <<>>
  ELSE Append(IF h.interim.kind = "empty" THEN <<>> ELSE HistoryOf(h.interim.confirmed),
              h.input.content)

\* The transcript refines EpochLog: a member's log is the history its
\* confirmed hash chains, and a commit was made on the history of the
\* context it was signed in.
Log == INSTANCE EpochLog WITH
         log <- [m \in Members |-> HistoryOf(confirmed[m])],
         created <- {[id |-> msg.content,
                      parent |-> HistoryOf(msg.auth.signature.context.confirmed)]
                     : msg \in msgs}

\* Every member's accepted history only grows by a commit made on that
\* exact history, even when commits arrive late, twice, out of order or
\* from another branch of a fork.
RefinesEpochLog == Log!Spec
=============================================================================
