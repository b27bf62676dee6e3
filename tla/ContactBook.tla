----------------------------- MODULE ContactBook -----------------------------
(***************************************************************************)
(* What the contact service promises, with every operation a single step: a *)
(* book of contacts in which an administrator changes a contact only by the *)
(* five actions, and a contact leaves only when its scheduled deletion is   *)
(* due.  The in-memory repository, which holds a lock for each operation,   *)
(* is this book; the Azure repository behaves like it (Contacts).           *)
(***************************************************************************)
EXTENDS ContactRecords

CONSTANT Id

VARIABLES book, now

bookVars == <<book, now>>

\* Create: an ID is never used twice at once; timestamps are the submission's.
Create(id) ==
  /\ book[id] = None
  /\ \E time \in 0..now : book' = [book EXCEPT ![id] = Submitted(time)]
  /\ UNCHANGED now

Update(id) ==
  /\ book[id] # None
  /\ \E action \in Action, time \in 0..now :
       /\ Possible(action, book[id])
       /\ Valid(Result(action, book[id], time))
       /\ book' = [book EXCEPT ![id] = Result(action, book[id], time)]
  /\ UNCHANGED now

Delete(id) ==
  /\ book[id] # None /\ Due(book[id], now)
  /\ book' = [book EXCEPT ![id] = None]
  /\ UNCHANGED now

Tick == now' = now + 1 /\ UNCHANGED book

BookInit == book = [id \in Id |-> None] /\ now = 0

BookNext == Tick \/ \E id \in Id : Create(id) \/ Update(id) \/ Delete(id)

BookSpec == BookInit /\ [][BookNext]_bookVars
=============================================================================
