---------------------------- MODULE ContactRecords ----------------------------
(***************************************************************************)
(* A contact as package contacts defines it: what a valid contact is, which *)
(* changes of state exist, and what each service operation makes of a       *)
(* contact.  Names and messages never change after submission and are left  *)
(* out; of a contact only its state and its timestamps are kept.            *)
(***************************************************************************)
EXTENDS Naturals

CONSTANTS
  ReviewDelay,    \* 24 months
  DeletionDelay,  \* 30 days
  None

ASSUME DelayAssumption == ReviewDelay \in Nat /\ DeletionDelay \in Nat \ {0}
ASSUME NoTimeAssumption == None \notin Nat

State == {"new", "read", "archived"}

Time == Nat \cup {None}

Contact ==
  [state : State, created : Nat, updated : Nat, readAt : Time, archivedAt : Time, due : Time]

ReviewDue(contact) == contact.created + ReviewDelay

Valid(contact) ==
  /\ contact.created <= contact.updated
  /\ contact.readAt = None <=> contact.state = "new"
  /\ contact.archivedAt = None <=> contact.state # "archived"
  /\ contact.readAt # None =>
       contact.created <= contact.readAt /\ contact.readAt <= contact.updated
  /\ contact.archivedAt # None =>
       contact.readAt <= contact.archivedAt /\ contact.archivedAt <= contact.updated
  /\ contact.due # None => contact.created < contact.due

\* The table of allowed changes of state.
ValidTransition(from, to) ==
  \/ from = to
  \/ <<from, to>> \in {<<"new", "read">>, <<"read", "archived">>, <<"archived", "read">>}

Submitted(time) ==
  [state |-> "new", created |-> time, updated |-> time,
   readAt |-> None, archivedAt |-> None, due |-> None]

Opened(contact, time) ==
  [contact EXCEPT !.state = "read", !.readAt = time, !.updated = time]

Archived(contact, time) ==
  [contact EXCEPT !.state = "archived", !.archivedAt = time, !.updated = time]

Restored(contact, time) ==
  [contact EXCEPT !.state = "read", !.archivedAt = None, !.updated = time]

DeletionScheduled(contact, time) ==
  [contact EXCEPT !.due = time + DeletionDelay, !.updated = time]

DeletionCancelled(contact, time) == [contact EXCEPT !.due = None, !.updated = time]

Action == {"read", "archive", "restore", "schedule-deletion", "cancel-deletion"}

\* The guard each operation checks on the contact it has read.
Possible(action, contact) ==
  CASE action = "read" -> contact.state = "new"
    [] action = "archive" -> contact.state = "read"
    [] action = "restore" -> contact.state = "archived"
    [] action = "schedule-deletion" -> contact.due = None
    [] action = "cancel-deletion" -> contact.due # None

Result(action, contact, time) ==
  CASE action = "read" -> Opened(contact, time)
    [] action = "archive" -> Archived(contact, time)
    [] action = "restore" -> Restored(contact, time)
    [] action = "schedule-deletion" -> DeletionScheduled(contact, time)
    [] action = "cancel-deletion" -> DeletionCancelled(contact, time)

\* PurgeDue's condition on a listed contact.
Due(contact, cutoff) == contact.due # None /\ contact.due <= cutoff
=============================================================================
