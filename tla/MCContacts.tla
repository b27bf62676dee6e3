----------------------------- MODULE MCContacts -----------------------------
(***************************************************************************)
(* A small instance of Contacts.                                           *)
(***************************************************************************)
EXTENDS Contacts, TLC

All == [state |-> None, retentionReview |-> FALSE, deletionScheduled |-> FALSE]
NewOnly == [All EXCEPT !.state = "new"]

Filters == {All, NewOnly}

CONSTANTS e1, e2, p1, v1

\* Two beginnings: an empty table with two editors, or one where visitors 1 and 2
\* have been handled, in one instant, and the second one's contact is due.
Old(full) == IF full THEN {1, 2} ELSE {}

\* Requests with no part in it have failed long ago.
Part(full) == {3, e1, p1} \cup IF full THEN {v1} ELSE {e2}

OldContact(id) == [Submitted(0) EXCEPT !.due = IF id = 2 THEN 2 ELSE None]

Start(full) ==
  /\ now = IF full THEN 2 ELSE 0
  /\ rows = [id \in Visitor |->
       IF id \in Old(full) THEN [contact |-> OldContact(id), by |-> id, etag |-> 1] ELSE None]
  /\ pc = [r \in Request |-> IF r \in Part(full) THEN "idle" ELSE "done"]
  /\ answer = [r \in Request |->
       IF r \in Part(full) THEN "none" ELSE IF r \in Old(full) THEN "ok" ELSE "unavailable"]
  /\ landed = Old(full)
  /\ call = [r \in Request |->
       IF r \in Old(full) THEN [action |-> "create", id |-> r, etag |-> 0] ELSE None]
  /\ desired = [r \in Request |-> IF r \in Old(full) THEN OldContact(r) ELSE None]
  /\ stored = [r \in Request |-> None]
  /\ filter = [v \in Viewer |-> None]
  /\ cutoff = [p \in Purger |-> 0]
  /\ page = [p \in Purger |-> {}]
  /\ more = [p \in Purger |-> FALSE]
  /\ cursor = [s \in Scanner |-> None]
  /\ shown = [v \in Viewer |-> [id \in Visitor |-> 0]]
  /\ inflight = {} /\ faults = 0
  /\ steady = [s \in Scanner |-> {}]

StartEither == Start(TRUE) \/ Start(FALSE)

\* What can still matter: a request that is over keeps only its answer, an
\* editor's aim for the rows it wrote, and a scan what it owes.
Over(r) == pc[r] = "done" /\ r \notin inflight

Owed(s) ==
  IF answer[s] \notin {"none", "ok"} THEN <<>>
  ELSE IF s \in Purger THEN <<steady[s], cutoff[s], page[s], more[s], cursor[s]>>
  ELSE <<steady[s], filter[s], shown[s], cursor[s]>>

LiveState ==
  <<now, rows, pc, answer, inflight, faults,
    [r \in Request |-> IF Over(r) THEN <<>> ELSE <<call[r], stored[r], desired[r]>>],
    [s \in Scanner |-> Owed(s)]>>

=============================================================================
