------------------------------ MODULE EpochLog ------------------------------
(***************************************************************************)
(* What the transcript of an MLS group promises (spec.md 4.C6, 4.C9): each *)
(* member holds the sequence of commits it has accepted, one per epoch,    *)
(* and a member only ever extends it with a commit that was created on     *)
(* exactly that sequence.  Commits are identified by their sender and the  *)
(* epoch they were made in; `created` records each with the history it was *)
(* made on.                                                                *)
(***************************************************************************)
EXTENDS Naturals, Sequences

CONSTANTS Members, MaxEpoch

VARIABLES
  log,      \* log[m]: the commits member m has accepted, oldest first
  created   \* set of [id, parent]: a commit and the log it was made on

CommitIds == [sender : Members, epoch : 0..(MaxEpoch - 1)]

Init ==
  /\ log = [m \in Members |-> <<>>]
  /\ created = {}

\* Member m makes a commit on top of its own log.
Create(m) ==
  /\ Len(log[m]) < MaxEpoch
  /\ created' = created \cup
       {[id |-> [sender |-> m, epoch |-> Len(log[m])], parent |-> log[m]]}
  /\ UNCHANGED log

\* Member m accepts a commit that was made on its current log.
Accept(m) ==
  \E x \in created :
     /\ x.parent = log[m]
     /\ log' = [log EXCEPT ![m] = Append(@, x.id)]
     /\ UNCHANGED created

Next == \E m \in Members : Create(m) \/ Accept(m)

Spec == Init /\ [][Next]_<<log, created>>
=============================================================================
