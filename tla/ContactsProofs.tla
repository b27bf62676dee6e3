---------------------------- MODULE ContactsProofs ----------------------------
(***************************************************************************)
(* What holds of the contact requests for any numbers of visitors, editors, *)
(* purgers and viewers, any delays, filters and page sizes.                 *)
(***************************************************************************)
EXTENDS Contacts, TLAPS

-----------------------------------------------------------------------------
(* Contacts *)

\* Lemma: a submission is a valid contact, made at the time it is read.
LEMMA SubmittedContact ==
  ASSUME NEW time \in Nat
  PROVE  /\ Submitted(time) \in Contact
         /\ Submitted(time).created = time /\ Submitted(time).due = None
         /\ Valid(Submitted(time))
BY DEF Submitted, Valid, Contact, State, Time

\* Lemma: what each action makes of a contact.
LEMMA ResultContact ==
  ASSUME NEW action \in Action, NEW contact \in Contact, NEW time \in Nat
  PROVE  /\ Result(action, contact, time) \in Contact
         /\ Result(action, contact, time).updated = time
         /\ Result(action, contact, time).created = contact.created
         /\ Result(action, contact, time).due \in {None, contact.due, time + DeletionDelay}
         /\ Possible(action, contact) =>
              ValidTransition(contact.state, Result(action, contact, time).state)
<1>1. CASE action = "read"
  BY <1>1 DEF Result, Possible, ValidTransition, Opened, Contact, State, Time
<1>2. CASE action = "archive"
  BY <1>2 DEF Result, Possible, ValidTransition, Archived, Contact, State, Time
<1>3. CASE action = "restore"
  BY <1>3 DEF Result, Possible, ValidTransition, Restored, Contact, State, Time
<1>4. CASE action = "schedule-deletion"
  <2>1. Result(action, contact, time) = DeletionScheduled(contact, time)
    BY <1>4 DEF Result
  <2>2. time + DeletionDelay \in Nat
    BY DelayAssumption
  <2>3. /\ DeletionScheduled(contact, time) \in Contact
        /\ DeletionScheduled(contact, time).updated = time
        /\ DeletionScheduled(contact, time).created = contact.created
        /\ DeletionScheduled(contact, time).due = time + DeletionDelay
        /\ DeletionScheduled(contact, time).state = contact.state
    BY <2>2 DEF DeletionScheduled, Contact, Time
  <2> QED BY <2>1, <2>3 DEF ValidTransition
<1>5. CASE action = "cancel-deletion"
  BY <1>5 DEF Result, Possible, ValidTransition, DeletionCancelled, Contact, State, Time
<1> QED BY <1>1, <1>2, <1>3, <1>4, <1>5 DEF Action

\* Lemma: every instance reads a clock that is not ahead, and not far behind.
LEMMA ReadingInTime ==
  ASSUME now \in Nat, NEW r
  PROVE  Reading(r) \in Nat /\ Reading(r) <= now /\ now < Reading(r) + DeletionDelay
BY SkewAssumption, DelayAssumption DEF Reading

-----------------------------------------------------------------------------
(* The inductive invariant *)

\* Requests that write a contact's row; a purger may delete several.
Writer == Visitor \cup Editor

Unsent(r) == pc[r] \in {"idle", "create", "add", "get", "compare", "update"}

\* Where each kind of request may be, and what it has done by then: a writer's
\* change is sent once, and only then in flight or in the table.
Progress ==
  /\ \A v \in Visitor :
       pc[v] \in {"idle", "create", "add", "settleAdd", "refresh", "done"}
  /\ \A e \in Editor :
       pc[e] \in {"idle", "get", "compare", "update", "settleUpdate", "refresh", "done"}
  /\ \A p \in Purger :
       pc[p] \in {"idle", "list", "find", "delete", "settleDelete", "done"}
  /\ \A v \in Viewer : pc[v] \in {"idle", "list", "done"}
  /\ inflight \cup landed \subseteq Writer \cup Purger
  /\ \A p \in Purger : p \in inflight => pc[p] \in {"settleDelete", "done"}
  /\ \A r \in Writer :
       /\ r \in inflight \cup landed => ~Unsent(r)
       /\ r \in landed => r \notin inflight
  /\ \A r \in Request : answer[r] # "none" => pc[r] = "done"

\* Whether a request's call and the content it wants to store are settled.
Called(r) == pc[r] \notin {"idle", "done"} \/ r \in inflight \cup landed

\* Whether a purger's call is a deletion it has sent or is about to send.
Deleting(p) == pc[p] \in {"delete", "settleDelete"} \/ p \in inflight

\* Whether an editor has computed what it wants to store.
Computed(e) == pc[e] \in {"compare", "update", "settleUpdate", "refresh"} \/ e \in inflight

\* What each kind of request calls for.
Calls ==
  /\ \A v \in Visitor : Called(v) =>
       /\ call[v] = [action |-> "create", id |-> v, etag |-> 0]
       /\ \E time \in 0..now : desired[v] = Submitted(time)
  /\ \A e \in Editor : Called(e) =>
       call[e] # None /\ call[e].action \in Action /\ call[e].etag >= 1
  /\ \A e \in Editor : Computed(e) => desired[e] # None
  /\ \A p \in Purger : Deleting(p) => call[p] # None /\ call[p].action = "delete"
  /\ \A p \in Purger : cutoff[p] <= now

\* A row carries the version after the one its writer named.
WrittenByItsCall(row, id) ==
  /\ row.by \in landed /\ call[row.by].id = id
  /\ row.etag = call[row.by].etag + 1
  /\ row.contact.created = desired[id].created
  /\ row.contact.due # None => row.contact.due >= row.contact.created + DeletionDelay

RowsWritten ==
  \A id \in Visitor : rows[id] # None => id \in landed /\ WrittenByItsCall(rows[id], id)

Current(id, etag) == rows[id] # None /\ rows[id].etag = etag

\* A version that has existed: it is the contact's, or one it has left for good.
Existed(id, etag) == id \in landed /\ (rows[id] # None => rows[id].etag >= etag)

\* An editor's version has existed; while it is the contact's, what the editor
\* wants to store is what its action makes of the contact.
EditsApt ==
  \A e \in Editor :
    /\ Called(e) => Existed(call[e].id, call[e].etag)
    /\ Computed(e) /\ Current(call[e].id, call[e].etag) =>
         LET contact == rows[call[e].id].contact IN
         /\ Possible(call[e].action, contact) /\ Valid(desired[e])
         /\ \E time \in 0..now : desired[e] = Result(call[e].action, contact, time)
    /\ e \in landed => ~Current(call[e].id, call[e].etag)

\* A version that a purger deletes was due by its cutoff.
PurgeApt(p, id, etag) ==
  Existed(id, etag) /\ (Current(id, etag) => Due(rows[id].contact, cutoff[p]))

PurgesApt ==
  \A p \in Purger :
    /\ \A entry \in page[p] : PurgeApt(p, entry.place.id, entry.etag)
    /\ Deleting(p) => PurgeApt(p, call[p].id, call[p].etag)
    /\ pc[p] = "idle" => page[p] = {}

\* A submission ends long before its contact can be due.
SubmissionsShort ==
  \A v \in Visitor : pc[v] \notin {"idle", "done"} => now < desired[v].created + DeletionDelay

\* What a request reads before its change is sent, and after an unknown outcome.
OutcomesKnown ==
  /\ \A v \in Visitor : v \in landed /\ pc[v] # "done" => rows[v] # None
  /\ \A e \in Editor : pc[e] \in {"update", "settleUpdate"} =>
       /\ stored[e] # None /\ stored[e].by \in landed
       /\ call[stored[e].by].etag + 1 = call[e].etag

\* What an answer claims that does not depend on a change landing late.
Answered ==
  \A r \in Writer :
    /\ answer[r] = "ok" => r \in landed
    /\ ~LateDelivery /\ answer[r] \notin {"none", "ok", "commitUnknown"} =>
         r \notin landed

\* The place a contact has in the order of row keys from its creation on.
KeyOf(id) == [created |-> desired[id].created, id |-> id]

\* What a scan has when it begins, and what it has been promised.
ScansBegin ==
  \A s \in Scanner :
    /\ pc[s] = "idle" => cursor[s] = None
    /\ \A id \in steady[s] : rows[id] # None

\* Whether a contact's deletion is still to come on a purger's page.
OnPage(p, id) ==
  \/ \E entry \in page[p] : entry.place.id = id
  \/ pc[p] \in {"delete", "settleDelete"} /\ call[p].id = id

\* What is due and nobody else touches is ahead of a purger, or on its page.
PurgesReach ==
  \A p \in Purger : \A id \in steady[p] : Due(rows[id].contact, cutoff[p]) =>
    /\ answer[p] # "ok"
    /\ pc[p] = "list" => id \in Ahead(p)
    /\ pc[p] \in {"find", "delete", "settleDelete"} =>
         OnPage(p, id) \/ (more[p] /\ id \in Ahead(p))

\* What has been given is not ahead, so that it is given once.
GivenOnce ==
  \A v \in Viewer, id \in Visitor :
    /\ shown[v][id] \in {0, 1}
    /\ shown[v][id] = 1 =>
         id \in landed /\ cursor[v] # None /\ ~Precedes(cursor[v], KeyOf(id))

\* What nobody touches is ahead of a viewer, or has been decided.
ViewsReach ==
  \A v \in Viewer : \A id \in steady[v] :
    ~filter[v].retentionReview /\ (pc[v] = "list" \/ answer[v] = "ok") =>
      \/ pc[v] = "list" /\ id \in Ahead(v)
      \/ shown[v][id] = 1 <=> Matches(rows[id].contact, filter[v], now)


-----------------------------------------------------------------------------
(* Types *)

\* Lemma: the initial state has the types declared.
LEMMA TypesHoldAtFirst == Init => Types
<1> SUFFICES ASSUME Init PROVE Types
  OBVIOUS
<1> QED
  BY NumberAssumption DEF Init, Types, Request, Scanner, Steps, Answers

\* Lemma: a request's move to another step keeps the types.
LEMMA GotoTypes ==
  ASSUME Types, NEW r \in Request, NEW step \in Steps, Goto(r, step)
  PROVE  /\ pc' \in [Request -> Steps]
         /\ UNCHANGED answer => answer' \in [Request -> Answers]
BY DEF Goto, Types, Steps

\* Lemma: so does its end.
LEMMA FinishTypes ==
  ASSUME Types, NEW r \in Request, NEW reply \in Answers, Finish(r, reply)
  PROVE  pc' \in [Request -> Steps] /\ answer' \in [Request -> Answers]
BY DEF Finish, Goto, Types, Steps

\* Lemma: Apply keeps the types of the table.
LEMMA ApplyTypes ==
  ASSUME Types, NEW r \in Request, Apply(r),
         r \in Visitor \cup Editor \/ call[r].action = "delete",
         call[r] # None, call[r].action # "delete" => desired[r] # None
  PROVE  /\ now' \in 0..MaxTime
         /\ rows' \in [Visitor -> Row \cup {None}]
         /\ landed' \subseteq Request
         /\ steady' \in [Scanner -> SUBSET Visitor]
<1>1. call[r] \in Call
  BY DEF Types
<1>2. Written(r) \in Row \cup {None}
  <2>1. CASE call[r].action = "delete"
    BY <2>1 DEF Written
  <2>2. CASE call[r].action # "delete"
    <3>1. desired[r] \in Contact /\ r \in Visitor \cup Editor
      BY <2>2 DEF Types
    <3>2. CASE call[r].action = "create"
      BY <2>2, <3>1, <3>2 DEF Written, Row
    <3>3. CASE call[r].action # "create"
      <4>1. rows[call[r].id] # None
        BY <3>3 DEF Apply, Meets
      <4>2. rows[call[r].id].etag \in Nat
        BY <1>1, <4>1 DEF Types, Call, Row
      <4> QED BY <2>2, <3>1, <3>3, <4>2 DEF Written, Row
    <3> QED BY <3>2, <3>3
  <2> QED BY <2>1, <2>2
<1>3. rows' = [rows EXCEPT ![call[r].id] = Written(r)] /\ call[r].id \in Visitor
  BY <1>1 DEF Apply, Call
<1>4. rows' \in [Visitor -> Row \cup {None}]
  BY <1>2, <1>3 DEF Types
<1>5. now' \in 0..MaxTime /\ landed' \subseteq Request /\ steady' \in [Scanner -> SUBSET Visitor]
  BY DEF Apply, Types
<1> QED BY <1>4, <1>5
\* Lemma: an end of a page keeps the types.
LEMMA PageTypes ==
  ASSUME Types, NEW r \in Request, NEW further \in BOOLEAN,
         PageDone(r, further) \/ (Goto(r, "find") /\ UNCHANGED answer)
  PROVE  pc' \in [Request -> Steps] /\ answer' \in [Request -> Answers]
BY DEF PageDone, Goto, Finish, Types, Steps, Answers

\* Lemma: a row has a place in the order of keys.
LEMMA PlaceTypes ==
  ASSUME Types, NEW id \in Visitor, rows[id] # None
  PROVE  PlaceOf(id) \in Place /\ rows[id].etag \in Nat /\ rows[id].contact \in Contact
BY DEF Types, Row, Contact, Place, PlaceOf

\* Lemma: every instance reads a time.
LEMMA ReadingNat ==
  ASSUME Types, NEW r
  PROVE  Reading(r) \in Nat
BY SkewAssumption DEF Reading, Types

\* Lemma: a scan's page keeps the types.
LEMMA ListTypes ==
  ASSUME Types, NEW s \in Scanner, Lists(s)
  PROVE  Types'
<1> USE DEF Request
<1>1. PICK listed \in SUBSET Visitor :
       /\ Listed(s, listed)
       /\ cursor' \in {[cursor EXCEPT ![s] = place] : place \in Boundary(s, Given(s, listed))}
       /\ \/ PurgerLists(s, listed) \/ ViewerLists(s, listed)
          \/ Stuck(s)
  BY DEF Lists
<1>2. PICK place \in Boundary(s, Given(s, listed)) : cursor' = [cursor EXCEPT ![s] = place]
  BY <1>1
<1>3. Given(s, listed) \subseteq Visitor /\ \A id \in Given(s, listed) : rows[id] # None
  BY <1>1 DEF Given, Listed, Ahead, Repeated, Present
<1>4. place \in Place \cup {None}
  BY <1>2, <1>3, PlaceTypes DEF Boundary, Types
<1>5. cursor' \in [Scanner -> Place \cup {None}]
  BY <1>2, <1>4 DEF Types
<1>6. /\ page' \in [Purger -> SUBSET Entry] /\ more' \in [Purger -> BOOLEAN]
      /\ pc' \in [Request -> Steps] /\ answer' \in [Request -> Answers]
      /\ shown' \in [Viewer -> [Visitor -> Nat]]
  <2>1. CASE PurgerLists(s, listed)
    <3>1. ToPurge(s, Given(s, listed)) \subseteq Entry
      <4>1. \A id \in Given(s, listed) :
              [place |-> PlaceOf(id), etag |-> rows[id].etag] \in Entry
        BY <1>3, PlaceTypes DEF Entry
      <4> QED BY <1>3, <4>1 DEF ToPurge
    <3>2. page' \in [Purger -> SUBSET Entry]
      BY <2>1, <3>1 DEF PurgerLists, Types
    <3>3. Further(s, listed) \in BOOLEAN
      BY DEF Further
    <3>4. more' \in [Purger -> BOOLEAN] /\ more'[s] = Further(s, listed)
      BY <2>1, <3>3 DEF PurgerLists, Types
    <3>5. pc' \in [Request -> Steps] /\ answer' \in [Request -> Answers]
      <4>1. CASE page'[s] = {}
        <5>1. PageDone(s, Further(s, listed))
          BY <2>1, <3>4, <4>1 DEF PurgerLists
        <5> QED BY <3>3, <5>1, PageTypes DEF Scanner
      <4>2. CASE page'[s] # {}
        BY <2>1, <4>2, PageTypes DEF PurgerLists, Scanner
      <4> QED BY <4>1, <4>2
    <3> QED BY <2>1, <3>2, <3>4, <3>5 DEF PurgerLists, Types
  <2>2. CASE ViewerLists(s, listed)
    <3>1. Further(s, listed) \in BOOLEAN
      BY DEF Further
    <3>2. pc' \in [Request -> Steps] /\ answer' \in [Request -> Answers]
      <4>1. PageDone(s, Further(s, listed))
        BY <2>2, Zenon DEF ViewerLists
      <4> QED BY <3>1, <4>1, PageTypes DEF Scanner
    <3>3. shown' \in [Viewer -> [Visitor -> Nat]]
      BY <2>2 DEF ViewerLists, Types
    <3> QED BY <2>2, <3>2, <3>3 DEF ViewerLists, Types
  <2>3. CASE Stuck(s)
    BY <2>3 DEF Stuck, Finish, Goto, Types, Steps, Answers
  <2> QED BY <1>1, <2>1, <2>2, <2>3
<1> QED
  BY <1>5, <1>6 DEF Lists, table, change, Types
\* Lemma: a request that is about to send, or whose change may still land, has
\* everything Apply needs.
LEMMA SenderTypes ==
  ASSUME Types, Progress, Calls, NEW r \in Request, Sending(r) \/ r \in inflight
  PROVE  /\ call[r] \in Call
         /\ r \in Visitor \cup Editor \/ call[r].action = "delete"
         /\ call[r].action # "delete" => desired[r] \in Contact
         /\ r \in Visitor => call[r].action = "create"
         /\ r \in Editor => call[r].action \in Action
         /\ r \in Purger => call[r].action = "delete"
<1> USE DEF Request
<1>1. CASE r \in Visitor
  <2>1. Called(r)
    BY <1>1 DEF Progress, Sending, Called
  <2>2. PICK time \in 0..now : desired[r] = Submitted(time)
    BY <1>1, <2>1 DEF Calls
  <2>3. desired[r] \in Contact
    BY <2>2, SubmittedContact DEF Types
  <2>4. call[r] = [action |-> "create", id |-> r, etag |-> 0]
    BY <1>1, <2>1 DEF Calls
  <2>5. call[r] \in Call
    BY <1>1, <2>4 DEF Call
  <2> QED BY <1>1, <2>3, <2>4, <2>5, KindAssumption DEF Scanner
<1>2. CASE r \in Editor
  <2>1. Called(r) /\ Computed(r)
    BY <1>2, KindAssumption DEF Progress, Sending, Called, Computed, Scanner
  <2> QED BY <1>2, <2>1, NoneAssumption, KindAssumption DEF Calls, Types, Action, Scanner
<1>3. CASE r \in Purger
  <2>1. Deleting(r)
    BY <1>3 DEF Progress, Sending, Deleting
  <2> QED BY <1>3, <2>1, NoneAssumption, KindAssumption DEF Calls, Types, Scanner
<1>4. CASE r \in Viewer
  <2> QED BY <1>4, KindAssumption DEF Progress, Sending, Writer, Scanner
<1> QED BY <1>1, <1>2, <1>3, <1>4

\* Lemma: the end of a deletion keeps the types.
LEMMA DeletedTypes ==
  ASSUME Types, NEW p \in Purger, Deleted(p)
  PROVE  pc' \in [Request -> Steps] /\ answer' \in [Request -> Answers]
<1>1. more[p] \in BOOLEAN /\ p \in Request
  BY DEF Types, Request
<1>2. CASE page[p] = {}
  BY <1>1, <1>2, PageTypes DEF Deleted
<1>3. CASE page[p] # {}
  BY <1>1, <1>3, PageTypes DEF Deleted
<1> QED BY <1>2, <1>3

\* Lemma: a settled outcome keeps the types.
LEMMA SettleTypes ==
  ASSUME Types, NEW r \in Request, Settle(r), pc[r] = "settleDelete" => r \in Purger
  PROVE  Types'
<1>1. pc' \in [Request -> Steps] /\ answer' \in [Request -> Answers]
  <2>1. CASE pc[r] = "settleAdd"
    <3>1. AddOutcome(r) \in Answers /\ Finish(r, AddOutcome(r))
      BY <2>1 DEF Settle, AddOutcome, Answers
    <3> QED BY <3>1, FinishTypes
  <2>2. CASE pc[r] = "settleUpdate"
    <3>1. UpdateOutcome(r) \in Answers /\ Finish(r, UpdateOutcome(r))
      BY <2>2 DEF Settle, UpdateOutcome, Answers
    <3> QED BY <3>1, FinishTypes
  <2>3. CASE pc[r] = "settleDelete"
    <3>1. SettleDelete(r)
      BY <2>3 DEF Settle
    <3>2. CASE rows[call[r].id] = None
      BY <2>3, <3>1, <3>2, DeletedTypes DEF SettleDelete
    <3>3. CASE rows[call[r].id] # None
      <4>1. PICK reply \in {"unavailable", "commitUnknown"} : Finish(r, reply)
        BY <3>1, <3>3 DEF SettleDelete
      <4>2. reply \in Answers
        BY <4>1 DEF Answers
      <4> QED BY <4>1, <4>2, FinishTypes
    <3> QED BY <3>2, <3>3
  <2> QED BY <2>1, <2>2, <2>3 DEF Settle
<1>2. inflight' \subseteq Request
  BY DEF Settle, Types
<1> QED
  BY <1>1, <1>2 DEF Settle, table, change, scan, purge, Types
\* Lemma: every step keeps the types declared.
LEMMA TypesHold ==
  ASSUME Types, Progress, Calls, [Next]_vars
  PROVE  Types'
<1> USE DEF Request
<1>1. ASSUME NEW v \in Visitor, Reject(v) \/ CreateReads(v) PROVE Types'
  <2>1. \/ \E reply \in {"rejected", "conflict"} : Finish(v, reply)
        \/ (Goto(v, "add") /\ UNCHANGED answer)
    BY <1>1 DEF Reject, CreateReads
  <2>2. pc' \in [Request -> Steps] /\ answer' \in [Request -> Answers]
    BY <2>1, GotoTypes, FinishTypes DEF Steps, Answers
  <2> QED
    BY <1>1, <2>2 DEF Reject, CreateReads, table, change, scan, purge, Types
<1>2. ASSUME NEW v \in Visitor, Submit(v) PROVE Types'
  <2>1. Submitted(Reading(v)) \in Contact
    BY ReadingNat, SubmittedContact
  <2>2. [action |-> "create", id |-> v, etag |-> 0] \in Call
    BY DEF Call
  <2>3. desired' \in [Request -> Contact \cup {None}] /\ call' \in [Request -> Call \cup {None}]
    BY <1>2, <2>1, <2>2 DEF Submit, Types
  <2>4. pc' \in [Request -> Steps]
    BY <1>2, GotoTypes DEF Submit, Steps
  <2> QED BY <1>2, <2>3, <2>4 DEF Submit, table, scan, purge, Types
<1>3. CASE \E e \in Editor : Request428(e)
  BY <1>3 DEF Request428, Finish, Goto, table, change, scan, purge, Types, Steps, Answers
<1>4. ASSUME NEW e \in Editor, Act(e) PROVE Types'
  <2>1. PICK id \in Present, action \in Action : \E etag \in 1..rows[id].etag :
          call' = [call EXCEPT ![e] = [action |-> action, id |-> id, etag |-> etag]]
    BY <1>4 DEF Act
  <2>2. PICK etag \in 1..rows[id].etag :
          call' = [call EXCEPT ![e] = [action |-> action, id |-> id, etag |-> etag]]
    BY <2>1
  <2>3. id \in Visitor /\ rows[id].etag \in Nat
    BY PlaceTypes DEF Present
  <2>4. [action |-> action, id |-> id, etag |-> etag] \in Call
    BY <2>3 DEF Call
  <2>5. call' \in [Request -> Call \cup {None}]
    BY <2>2, <2>4 DEF Types
  <2>6. pc' \in [Request -> Steps]
    BY <1>4, GotoTypes DEF Act, Steps
  <2> QED BY <1>4, <2>5, <2>6 DEF Act, table, scan, purge, Types
<1>5. ASSUME NEW e \in Editor, ServiceGets(e) PROVE Types'
  <2>1. call[e] \in Call
    BY <1>5, KindAssumption, NoneAssumption DEF ServiceGets, Calls, Called, Types
  <2> DEFINE row == rows[call[e].id]
             result == Result(call[e].action, row.contact, Reading(e))
  <2>2. row # None => result \in Contact
    <3>1. call[e].action \in Action
      BY <1>5 DEF ServiceGets, Calls, Called
    <3>2. row # None => row.contact \in Contact
      BY <2>1, PlaceTypes DEF Call
    <3> QED BY <3>1, <3>2, ReadingNat, ResultContact
  <2>3. desired' = desired \/ (row # None /\ desired' = [desired EXCEPT ![e] = result])
    BY <1>5 DEF ServiceGets
  <2>4. desired' \in [Request -> Contact \cup {None}]
    BY <2>2, <2>3 DEF Types
  <2>5. pc' \in [Request -> Steps] /\ answer' \in [Request -> Answers]
    <3>1. \/ \E reply \in {"notFound", "invalidTransition", "validation"} : Finish(e, reply)
          \/ Goto(e, "compare") /\ UNCHANGED answer
      BY <1>5 DEF ServiceGets
    <3> QED BY <3>1, GotoTypes, FinishTypes DEF Steps, Answers
  <2> QED BY <1>5, <2>4, <2>5 DEF ServiceGets, table, scan, purge, Types
<1>6. ASSUME NEW r \in Request, NEW wanted \in Call, NEW next \in Steps, Compares(r, wanted, next)
      PROVE  /\ stored' \in [Request -> Row \cup {None}]
             /\ pc' \in [Request -> Steps] /\ answer' \in [Request -> Answers]
  <2>1. rows[wanted.id] \in Row \cup {None}
    BY DEF Types, Call
  <2>2. stored' = stored \/ stored' = [stored EXCEPT ![r] = rows[wanted.id]]
    BY <1>6 DEF Compares
  <2>3. \/ Finish(r, "notFound") \/ Finish(r, "conflict")
        \/ (Goto(r, next) /\ UNCHANGED answer)
    BY <1>6 DEF Compares
  <2>4. pc' \in [Request -> Steps] /\ answer' \in [Request -> Answers]
    BY <2>3, GotoTypes, FinishTypes DEF Answers
  <2> QED BY <2>1, <2>2, <2>4 DEF Types
<1>7. ASSUME NEW e \in Editor, UpdateCompares(e) PROVE Types'
  <2>1. call[e] \in Call
    BY <1>7, KindAssumption, NoneAssumption DEF UpdateCompares, Calls, Called, Types
  <2>2. /\ stored' \in [Request -> Row \cup {None}]
        /\ pc' \in [Request -> Steps] /\ answer' \in [Request -> Answers]
    BY <1>6, <1>7, <2>1 DEF UpdateCompares, Steps
  <2> QED BY <1>7, <2>2 DEF UpdateCompares, Compares, table, scan, purge, Types
<1>8. ASSUME NEW s \in Scanner, Begin(s) PROVE Types'
  <2>1. pc' \in [Request -> Steps]
    BY <1>8, GotoTypes DEF Begin, Scanner, Steps
  <2>2. cutoff' \in [Purger -> Nat] /\ filter' \in [Viewer -> Filter \cup {None}]
    <3>1. CASE BeginPurge(s)
      BY <3>1, ReadingNat DEF BeginPurge, Types
    <3>2. CASE BeginView(s)
      BY <3>2 DEF BeginView, Types
    <3> QED BY <1>8, <3>1, <3>2 DEF Begin
  <2>3. steady' \in [Scanner -> SUBSET Visitor]
    BY <1>8 DEF Begin, Present, Types
  <2> QED BY <1>8, <2>1, <2>2, <2>3 DEF Begin, change, Types
<1>9. ASSUME NEW s \in Scanner, Lists(s) PROVE Types'
  BY <1>9, ListTypes
<1>10. ASSUME NEW p \in Purger, DeleteCompares(p) PROVE Types'
  <2> DEFINE wanted(entry) == [action |-> "delete", id |-> entry.place.id, etag |-> entry.etag]
  <2>1. PICK entry \in page[p] :
          /\ page' = [page EXCEPT ![p] = @ \ {entry}]
          /\ call' = [call EXCEPT ![p] = wanted(entry)]
          /\ Compares(p, wanted(entry), "delete")
    BY <1>10 DEF DeleteCompares
  <2>2. entry \in Entry
    BY <2>1 DEF Types
  <2>3. wanted(entry) \in Call
    BY <2>2 DEF Entry, Place, Call
  <2>4. page' \in [Purger -> SUBSET Entry]
    BY <2>1 DEF Types
  <2>5. call' \in [Request -> Call \cup {None}]
    BY <2>1, <2>3 DEF Types
  <2>6. /\ stored' \in [Request -> Row \cup {None}]
        /\ pc' \in [Request -> Steps] /\ answer' \in [Request -> Answers]
    BY <1>6, <2>1, <2>3 DEF Steps
  <2> QED BY <1>10, <2>1, <2>4, <2>5, <2>6 DEF DeleteCompares, Compares, table, Types
<1>11. ASSUME NEW r \in Request, Commit(r) PROVE Types'
  <2>1. /\ now' \in 0..MaxTime /\ rows' \in [Visitor -> Row \cup {None}]
        /\ landed' \subseteq Request /\ steady' \in [Scanner -> SUBSET Visitor]
    BY <1>11, SenderTypes, ApplyTypes, NoneAssumption DEF Commit, Call
  <2>2. pc' \in [Request -> Steps] /\ answer' \in [Request -> Answers] /\ faults' \in 0..MaxFaults
    <3>1. CASE r \in Purger
      BY <1>11, <3>1, DeletedTypes DEF Commit, Types
    <3>2. CASE r \notin Purger
      <4>1. CASE Finish(r, "ok") /\ UNCHANGED faults
        BY <4>1, FinishTypes DEF Types, Answers
      <4>2. CASE /\ faults < MaxFaults /\ faults' = faults + 1 /\ UNCHANGED answer
                 /\ Goto(r, "refresh")
        BY <4>2, GotoTypes, NumberAssumption DEF Types, Steps
      <4> QED BY <1>11, <3>2, <4>1, <4>2 DEF Commit
    <3> QED BY <3>1, <3>2
  <2> QED BY <1>11, <2>1, <2>2 DEF Commit, change, scan, purge, Types
<1>12. CASE \E r \in Request : Refuse(r)
  BY <1>12 DEF Refuse, Finish, Goto, table, change, scan, purge, Types, Steps, Answers
<1>13. CASE \E r \in Request : NoAnswer(r)
  <2>1. PICK r \in Request : NoAnswer(r)
    BY <1>13
  <2>2. \E step \in Steps : Goto(r, step)
    BY <2>1 DEF NoAnswer, Sending, Steps
  <2>3. pc' \in [Request -> Steps]
    BY <2>2, GotoTypes
  <2> QED BY <2>1, <2>3, NumberAssumption DEF NoAnswer, table, change, scan, purge, Types
<1>14. ASSUME NEW r \in Request, Land(r) PROVE Types'
  <2>1. /\ now' \in 0..MaxTime /\ rows' \in [Visitor -> Row \cup {None}]
        /\ landed' \subseteq Request /\ steady' \in [Scanner -> SUBSET Visitor]
    BY <1>14, SenderTypes, ApplyTypes, NoneAssumption DEF Land, Call
  <2> QED BY <1>14, <2>1 DEF Land, progress, change, scan, purge, Types
<1>15. ASSUME NEW r \in Request, Settle(r) PROVE Types'
  BY <1>15, SettleTypes DEF Settle, Progress
<1>16. CASE \E r \in Request : Refresh(r)
  BY <1>16 DEF Refresh, Finish, Goto, table, change, scan, purge, Types, Steps, Answers
<1>17. CASE \E r \in Request : Fail(r)
  BY <1>17, NumberAssumption
  DEF Fail, Finish, Goto, table, change, scan, purge, Types, Steps, Answers
<1>18. CASE Tick
  BY <1>18, NumberAssumption DEF Tick, progress, change, scan, purge, Types
<1>19. CASE UNCHANGED vars
  BY <1>19 DEF vars, table, progress, change, scan, purge, Types
<1> QED
  BY <1>1, <1>2, <1>3, <1>4, <1>5, <1>7, <1>8, <1>9, <1>10, <1>11, <1>12, <1>13, <1>14, <1>15,
     <1>16, <1>17, <1>18, <1>19 DEF Next
-----------------------------------------------------------------------------
(* Progress *)

\* Lemma: what a request's move must keep to.
LEMMA MoveProgresses ==
  ASSUME Types, Progress, NEW r \in Request, NEW step, Goto(r, step), pc[r] # "done",
         answer' = answer \/ (step = "done" /\ \E reply : answer' = [answer EXCEPT ![r] = reply]),
         r \in Visitor => step \in {"create", "add", "settleAdd", "refresh", "done"},
         r \in Editor => step \in {"get", "compare", "update", "settleUpdate", "refresh", "done"},
         r \in Purger => step \in {"list", "find", "delete", "settleDelete", "done"},
         r \in Viewer => step \in {"list", "done"},
         inflight' \subseteq inflight \cup {r}, landed' \subseteq landed \cup {r},
         r \in inflight' \cup landed' =>
           /\ r \notin Viewer
           /\ r \in Writer => step \in {"settleAdd", "settleUpdate", "refresh", "done"},
         r \in Writer /\ r \in landed' => r \notin inflight',
         r \in Purger /\ r \in inflight' => step \in {"settleDelete", "done"}
  PROVE  Progress'
<1> USE DEF Request
<1>1. /\ pc' = [pc EXCEPT ![r] = step]
      /\ pc'[r] = step /\ \A q \in Request : q # r => pc'[q] = pc[q]
  BY DEF Goto, Types
<1>2. \A q \in Request : answer'[q] # "none" => pc'[q] = "done"
  <2>1. CASE answer' = answer
    BY <1>1, <2>1 DEF Progress
  <2>2. CASE step = "done" /\ \E reply : answer' = [answer EXCEPT ![r] = reply]
    BY <1>1, <2>2 DEF Progress, Types
  <2> QED BY <2>1, <2>2
<1>3. inflight' \cup landed' \subseteq Writer \cup Purger
  BY DEF Progress, Writer
<1>4. \A q \in Writer : q # r =>
        /\ q \in inflight' \cup landed' => ~Unsent(q)'
        /\ q \in landed' => q \notin inflight'
  BY <1>1 DEF Progress, Writer, Unsent
<1>5. r \in Writer =>
        /\ r \in inflight' \cup landed' => ~Unsent(r)'
        /\ r \in landed' => r \notin inflight'
  BY <1>1 DEF Unsent
<1>6. \A p \in Purger : p \in inflight' => pc'[p] \in {"settleDelete", "done"}
  BY <1>1 DEF Progress
<1>7. /\ \A v \in Visitor :
           pc'[v] \in {"idle", "create", "add", "settleAdd", "refresh", "done"}
      /\ \A e \in Editor :
           pc'[e] \in {"idle", "get", "compare", "update", "settleUpdate", "refresh", "done"}
  BY <1>1 DEF Progress
<1>8. /\ \A p \in Purger :
           pc'[p] \in {"idle", "list", "find", "delete", "settleDelete", "done"}
      /\ \A v \in Viewer : pc'[v] \in {"idle", "list", "done"}
  BY <1>1 DEF Progress
<1> QED BY <1>2, <1>3, <1>4, <1>5, <1>6, <1>7, <1>8 DEF Progress
\* Lemma: the kinds of request are apart.
LEMMA KindsApart ==
  /\ \A r \in Visitor : r \notin Editor /\ r \notin Purger /\ r \notin Viewer
  /\ \A r \in Editor : r \notin Purger /\ r \notin Viewer
  /\ \A r \in Purger : r \notin Viewer
BY KindAssumption DEF Scanner

\* Lemma: a request that sends is a writer or a purger, and has sent nothing yet.
LEMMA SendersFresh ==
  ASSUME Progress, NEW r \in Request, Sending(r)
  PROVE  /\ r \in Writer \cup Purger
         /\ r \notin inflight
         /\ r \in Writer => r \notin landed
         /\ r \in Visitor => pc[r] = "add"
         /\ r \in Editor => pc[r] = "update"
         /\ r \in Purger => pc[r] = "delete"
BY KindsApart DEF Progress, Sending, Writer, Unsent, Request

\* Lemma: every step keeps to the order of a request's steps.
LEMMA ProgressHolds ==
  ASSUME Types, Progress, [Next]_vars
  PROVE  Progress'
<1> USE DEF Request
<1>1. ASSUME NEW r \in Request, NEW step, NEW reply,
             (Goto(r, step) /\ UNCHANGED answer) \/ (step = "done" /\ Finish(r, reply)),
             UNCHANGED <<inflight, landed>>, pc[r] # "done",
             r \in Visitor => step \in {"create", "add", "settleAdd", "refresh", "done"},
             r \in Editor =>
               step \in {"get", "compare", "update", "settleUpdate", "refresh", "done"},
             r \in Purger => step \in {"list", "find", "delete", "settleDelete", "done"},
             r \in Viewer => step \in {"list", "done"},
             r \in inflight \/ (r \in Writer /\ r \in landed) => step = "done"
      PROVE  Progress'
  <2>1. /\ Goto(r, step)
        /\ answer' = answer \/ (step = "done" /\ \E said : answer' = [answer EXCEPT ![r] = said])
    BY <1>1 DEF Finish
  <2>2. r \in Viewer => r \notin inflight \cup landed
    BY KindsApart DEF Progress, Writer
  <2>3. r \in Writer /\ r \in landed => r \notin inflight
    BY DEF Progress
  <2> QED BY <1>1, <2>1, <2>2, <2>3, MoveProgresses
<1>2. ASSUME NEW v \in Visitor, Reject(v) \/ Submit(v) \/ CreateReads(v) PROVE Progress'
  <2>1. v \notin inflight \cup landed
    BY <1>2 DEF Progress, Unsent, Writer, Reject, Submit, CreateReads
  <2>2. \/ Finish(v, "rejected") \/ Finish(v, "conflict")
        \/ (Goto(v, "create") /\ UNCHANGED answer) \/ (Goto(v, "add") /\ UNCHANGED answer)
    BY <1>2 DEF Reject, Submit, CreateReads
  <2>3. Goto(v, "done") \/ Goto(v, "create") \/ Goto(v, "add")
    BY <2>2 DEF Finish
  <2>4. UNCHANGED <<inflight, landed>> /\ pc[v] # "done"
    BY <1>2 DEF Reject, Submit, CreateReads, table
  <2> QED BY <1>1, <2>1, <2>2, <2>4, KindsApart
<1>3. ASSUME NEW e \in Editor, Request428(e) \/ Act(e) \/ ServiceGets(e) \/ UpdateCompares(e)
      PROVE  Progress'
  <2>1. e \notin inflight \cup landed
    BY <1>3 DEF Progress, Unsent, Writer, Request428, Act, ServiceGets, UpdateCompares
  <2>2. \/ \E reply \in {"preconditionRequired", "notFound", "invalidTransition", "validation",
                         "conflict"} : Finish(e, reply)
        \/ \E step \in {"get", "compare", "update"} : Goto(e, step) /\ UNCHANGED answer
    BY <1>3 DEF Request428, Act, ServiceGets, UpdateCompares, Compares
  <2>3. UNCHANGED <<inflight, landed>> /\ pc[e] # "done"
    BY <1>3 DEF Request428, Act, ServiceGets, UpdateCompares, Compares, table
  <2> QED BY <1>1, <2>1, <2>2, <2>3, KindsApart
<1>4. ASSUME NEW s \in Scanner, Begin(s) \/ Lists(s) PROVE Progress'
  <2>1. s \notin inflight
    BY <1>4, KindsApart DEF Progress, Writer, Begin, BeginPurge, BeginView, Lists, Scanner
  <2>2. \/ \E reply \in {"ok", "unavailable"} : Finish(s, reply)
        \/ \E step \in {"list", "find"} :
             Goto(s, step) /\ UNCHANGED answer /\ (step = "find" => s \in Purger)
    <3>1. CASE Begin(s)
      BY <3>1 DEF Begin
    <3>2. CASE Lists(s)
      <4>1. PICK listed \in SUBSET Visitor :
              PurgerLists(s, listed) \/ ViewerLists(s, listed) \/ Stuck(s)
        BY <3>2 DEF Lists
      <4>2. CASE PurgerLists(s, listed)
        BY <4>2, Zenon DEF PurgerLists, PageDone
      <4>3. CASE ViewerLists(s, listed)
        <5>1. PageDone(s, Further(s, listed))
          BY <4>3, Zenon DEF ViewerLists
        <5> QED BY <5>1 DEF PageDone
      <4> QED BY <4>1, <4>2, <4>3 DEF Stuck
    <3> QED BY <1>4, <3>1, <3>2
  <2>3. UNCHANGED <<inflight, landed>> /\ pc[s] # "done"
    BY <1>4 DEF Begin, BeginPurge, BeginView, Lists, table
  <2> QED BY <1>1, <2>1, <2>2, <2>3, KindsApart DEF Scanner, Writer
<1>5. ASSUME NEW p \in Purger, DeleteCompares(p) PROVE Progress'
  <2>1. p \notin inflight
    BY <1>5 DEF Progress, DeleteCompares
  <2>2. \/ \E reply \in {"notFound", "conflict"} : Finish(p, reply)
        \/ (Goto(p, "delete") /\ UNCHANGED answer)
    BY <1>5 DEF DeleteCompares, Compares
  <2>3. UNCHANGED <<inflight, landed>> /\ pc[p] # "done"
    BY <1>5 DEF DeleteCompares, Compares, table
  <2> QED BY <1>1, <2>1, <2>2, <2>3, KindsApart DEF Writer
<1>6. ASSUME NEW r \in Request, Commit(r) PROVE Progress'
  <2>1. /\ r \in Writer \cup Purger /\ r \notin inflight /\ pc[r] # "done"
        /\ inflight' = inflight /\ landed' = landed \cup {r}
    BY <1>6, SendersFresh DEF Commit, Apply, Sending
  <2>2. \/ \E reply : Finish(r, reply)
        \/ \E step \in {"list", "find", "refresh"} :
             /\ Goto(r, step) /\ UNCHANGED answer
             /\ IF step = "refresh" THEN r \in Writer ELSE r \in Purger
    BY <1>6, <2>1 DEF Commit, Deleted, PageDone
  <2>3. \E step \in {"list", "find", "refresh", "done"} :
             /\ Goto(r, step)
             /\ \/ answer' = answer
                \/ step = "done" /\ \E said : answer' = [answer EXCEPT ![r] = said]
             /\ step = "refresh" => r \in Writer
             /\ step \in {"list", "find"} => r \in Purger
    BY <2>2 DEF Finish
  <2> QED BY <2>1, <2>3, KindsApart, MoveProgresses DEF Writer
<1>7. ASSUME NEW r \in Request, NoAnswer(r) PROVE Progress'
  <2>1. /\ r \in Writer \cup Purger
        /\ r \in Writer => r \notin landed
        /\ r \in Visitor => Goto(r, "settleAdd")
        /\ r \in Editor => Goto(r, "settleUpdate")
        /\ r \in Purger => Goto(r, "settleDelete")
        /\ inflight' = inflight \cup {r} /\ landed' = landed /\ answer' = answer
        /\ pc[r] # "done"
    BY <1>7, SendersFresh DEF NoAnswer, Sending, table
  <2> QED BY <2>1, KindsApart, MoveProgresses DEF Writer
<1>8. ASSUME NEW r \in Request, Land(r) PROVE Progress'
  BY <1>8 DEF Land, Apply, progress, Progress, Unsent
<1>9. ASSUME NEW r \in Request, Settle(r) PROVE Progress'
  <2>1. /\ r \in Writer => \E reply : Finish(r, reply)
        /\ r \in Writer \cup Purger
        /\ \/ \E reply : Finish(r, reply)
           \/ (\E step \in {"list", "find"} : Goto(r, step) /\ UNCHANGED answer)
    BY <1>9, KindsApart DEF Settle, Settling, Progress, SettleDelete, Deleted, PageDone, Writer
  <2>2. \E step \in {"list", "find", "done"} :
          /\ Goto(r, step)
          /\ answer' = answer \/ (step = "done" /\ \E said : answer' = [answer EXCEPT ![r] = said])
          /\ r \in Writer => step = "done"
    BY <2>1, KindsApart DEF Finish, Writer
  <2>3. /\ landed' = landed /\ inflight' \subseteq inflight /\ pc[r] # "done"
        /\ pc'[r] # "done" => r \notin inflight'
    BY <1>9 DEF Settle, Settling, table
  <2>4. \A step : Goto(r, step) => pc'[r] = step
    BY DEF Goto, Types
  <2>5. r \in Writer /\ r \in landed => r \notin inflight
    BY DEF Progress
  <2> QED BY <2>1, <2>2, <2>3, <2>4, <2>5, KindsApart, MoveProgresses DEF Writer
<1>10. ASSUME NEW r \in Request, Refuse(r) \/ Refresh(r) PROVE Progress'
  <2>1. /\ UNCHANGED <<inflight, landed>> /\ pc[r] # "done"
        /\ \E reply : Finish(r, reply)
    BY <1>10 DEF Refuse, Refresh, Sending, table
  <2> QED BY <1>1, <2>1
<1>11. ASSUME NEW r \in Request, Fail(r) PROVE Progress'
  <2>1. /\ landed' = landed /\ inflight' \subseteq inflight /\ pc[r] # "done"
        /\ Goto(r, "done") /\ \E said : answer' = [answer EXCEPT ![r] = said]
    BY <1>11 DEF Fail, Finish, table
  <2>2. /\ r \in Writer /\ r \in landed => r \notin inflight
        /\ r \in Viewer => r \notin inflight \cup landed
    BY KindsApart DEF Progress, Writer
  <2> QED BY <2>1, <2>2, MoveProgresses
<1>12. CASE Tick \/ UNCHANGED vars
  BY <1>12 DEF Tick, vars, table, progress, change, scan, purge, Progress, Unsent
<1> QED
  BY <1>2, <1>3, <1>4, <1>5, <1>6, <1>7, <1>8, <1>9, <1>10, <1>11, <1>12 DEF Next
-----------------------------------------------------------------------------
(* Calls *)

\* Whether a step leaves what a request is about as it is.
KeepsCall(r) ==
  /\ call'[r] = call[r] /\ desired'[r] = desired[r]
  /\ r \in Writer /\ Called(r)' => Called(r)
  /\ r \in Editor /\ Computed(r)' => Computed(r)
  /\ r \in Purger => cutoff'[r] = cutoff[r] /\ (Deleting(r)' => Deleting(r))

\* Lemma: a step that moves one request and sends or lands at most its change.
LEMMA OthersKeepCalls ==
  ASSUME Types, NEW q \in Request, NEW r \in Request, r # q,
         pc' = pc \/ \E step : Goto(q, step),
         call' = call \/ \E wanted : call' = [call EXCEPT ![q] = wanted],
         desired' = desired \/ \E content : desired' = [desired EXCEPT ![q] = content],
         cutoff' = cutoff \/ \E time : cutoff' = [cutoff EXCEPT ![q] = time],
         inflight' \subseteq inflight \cup {q}, landed' \subseteq landed \cup {q}
  PROVE  KeepsCall(r)
<1>1. /\ pc'[r] = pc[r] /\ call'[r] = call[r] /\ desired'[r] = desired[r]
      /\ r \in Purger => cutoff'[r] = cutoff[r]
  BY DEF Goto, Types
<1> QED BY <1>1 DEF KeepsCall, Called, Computed, Deleting

\* Lemma: what a request is about changes only at the steps that decide it.
LEMMA CallsKept ==
  ASSUME Types, Progress, [Next]_vars, NEW r \in Request
  PROVE  \/ r \in Visitor /\ Submit(r)
         \/ r \in Editor /\ (Act(r) \/ ServiceGets(r))
         \/ r \in Purger /\ (Begin(r) \/ DeleteCompares(r))
         \/ KeepsCall(r)
<1> USE DEF Request
<1>1. ASSUME NEW v \in Visitor, Reject(v) \/ CreateReads(v) PROVE KeepsCall(r)
  <2>1. UNCHANGED <<call, desired, cutoff, inflight, landed>> /\ \E step : Goto(v, step)
    BY <1>1 DEF Reject, CreateReads, Finish, change, scan, purge, table
  <2>2. CASE r # v
    BY <2>1, <2>2, OthersKeepCalls
  <2>3. CASE r = v
    BY <1>1, <2>1, <2>3, KindsApart
    DEF KeepsCall, Called, Writer, Reject, CreateReads, Finish, Goto, Types
  <2> QED BY <2>2, <2>3
<1>2. ASSUME NEW v \in Visitor, Submit(v) PROVE r = v \/ KeepsCall(r)
  BY <1>2, OthersKeepCalls DEF Submit, scan, purge, table
<1>3. ASSUME NEW e \in Editor, Request428(e) \/ UpdateCompares(e) PROVE KeepsCall(r)
  <2>1. UNCHANGED <<call, desired, cutoff, inflight, landed>> /\ \E step : Goto(e, step)
    BY <1>3 DEF Request428, UpdateCompares, Compares, Finish, change, scan, purge, table
  <2>2. CASE r # e
    BY <2>1, <2>2, OthersKeepCalls
  <2>3. CASE r = e
    <3>1. CASE Request428(e)
      BY <2>1, <2>3, <3>1, KindsApart
      DEF KeepsCall, Called, Computed, Writer, Request428, Finish, Goto, Types
    <3>2. CASE UpdateCompares(e)
      BY <2>1, <2>3, <3>2, KindsApart DEF KeepsCall, Called, Computed, Writer, UpdateCompares
    <3> QED BY <1>3, <3>1, <3>2
  <2> QED BY <2>2, <2>3
<1>4. ASSUME NEW e \in Editor, Act(e) \/ ServiceGets(e) PROVE r = e \/ KeepsCall(r)
  BY <1>4, OthersKeepCalls DEF Act, ServiceGets, scan, purge, table, Finish
<1>5. ASSUME NEW s \in Scanner, Begin(s) PROVE (r = s /\ s \in Purger) \/ KeepsCall(r)
  <2>1. /\ UNCHANGED <<call, desired, inflight, landed>> /\ \E step : Goto(s, step)
        /\ cutoff' = cutoff \/ \E time : cutoff' = [cutoff EXCEPT ![s] = time]
    BY <1>5 DEF Begin, BeginPurge, BeginView, change
  <2>2. CASE r # s
    BY <2>1, <2>2, OthersKeepCalls DEF Scanner
  <2>3. CASE r = s /\ s \notin Purger
    BY <1>5, <2>1, <2>3, KindsApart DEF KeepsCall, Writer, Scanner
  <2> QED BY <2>2, <2>3
<1>6. ASSUME NEW s \in Scanner, Lists(s) PROVE KeepsCall(r)
  <2>1. /\ UNCHANGED <<call, desired, inflight, landed, cutoff>>
        /\ \E step \in {"list", "find", "done"} : Goto(s, step)
    <3>1. PICK listed \in SUBSET Visitor :
            PurgerLists(s, listed) \/ ViewerLists(s, listed) \/ Stuck(s)
      BY <1>6 DEF Lists
    <3>2. CASE PurgerLists(s, listed)
      BY <1>6, <3>2, Zenon DEF PurgerLists, PageDone, Finish, Lists, change, table
    <3>3. CASE ViewerLists(s, listed)
      <4>1. PageDone(s, Further(s, listed))
        BY <3>3, Zenon DEF ViewerLists
      <4> QED BY <1>6, <4>1 DEF PageDone, Finish, Lists, change, table
    <3>4. CASE Stuck(s)
      BY <1>6, <3>4 DEF Stuck, Finish, Lists, change, table
    <3> QED BY <3>1, <3>2, <3>3, <3>4
  <2>2. CASE r # s
    BY <2>1, <2>2, OthersKeepCalls DEF Scanner
  <2>3. CASE r = s
    BY <2>1, <2>3, KindsApart DEF KeepsCall, Deleting, Writer, Scanner, Goto, Types
  <2> QED BY <2>2, <2>3
<1>7. ASSUME NEW p \in Purger, DeleteCompares(p) PROVE r = p \/ KeepsCall(r)
  BY <1>7, OthersKeepCalls DEF DeleteCompares, Compares, table, Finish
<1>8. ASSUME NEW q \in Request, Commit(q) \/ Refuse(q) \/ NoAnswer(q) PROVE KeepsCall(r)
  <2>1. /\ UNCHANGED <<call, desired, cutoff>> /\ Sending(q)
        /\ inflight' \subseteq inflight \cup {q} /\ landed' \subseteq landed \cup {q}
        /\ q \in Purger =>
             \/ inflight' \subseteq inflight /\ \E step \in {"list", "find", "done"} : Goto(q, step)
             \/ Goto(q, "settleDelete")
        /\ \E step : Goto(q, step)
    BY <1>8, SendersFresh
    DEF Commit, Refuse, NoAnswer, Sending, Apply, Deleted, PageDone, Finish,
        change, scan, purge, table
  <2>2. CASE r # q
    BY <2>1, <2>2, OthersKeepCalls
  <2>3. CASE r = q
    BY <2>1, <2>3, SendersFresh, KindsApart
    DEF KeepsCall, Called, Computed, Deleting, Writer, Sending, Goto, Types
  <2> QED BY <2>2, <2>3
<1>9. ASSUME NEW q \in Request, Land(q) PROVE KeepsCall(r)
  BY <1>9
  DEF Land, Apply, progress, change, scan, purge, KeepsCall, Called, Computed, Deleting
<1>10. ASSUME NEW q \in Request, Settle(q) \/ Refresh(q) \/ Fail(q) PROVE KeepsCall(r)
  <2>1. /\ UNCHANGED <<call, desired, cutoff, landed>> /\ inflight' \subseteq inflight
        /\ pc[q] \notin {"idle", "done"}
        /\ \E step \in {"list", "find", "done"} : Goto(q, step)
        /\ q \in Editor => pc[q] \in {"settleUpdate", "refresh"} \/ Goto(q, "done")
    <3>1. CASE Settle(q)
      <4>1. /\ UNCHANGED <<call, desired, cutoff, landed>> /\ inflight' \subseteq inflight
            /\ Settling(q)
        BY <3>1 DEF Settle, change, scan, purge, table
      <4>2. CASE pc[q] \in {"settleAdd", "settleUpdate"}
        BY <3>1, <4>1, <4>2 DEF Settle, Settling, Finish
      <4>3. CASE pc[q] = "settleDelete"
        <5>1. q \notin Editor
          BY <4>3 DEF Progress
        <5>2. SettleDelete(q)
          BY <3>1, <4>3 DEF Settle
        <5>3. \E step \in {"list", "find", "done"} : Goto(q, step)
          BY <5>2 DEF SettleDelete, Deleted, PageDone, Finish
        <5> QED BY <4>1, <4>3, <5>1, <5>3
      <4> QED BY <4>1, <4>2, <4>3 DEF Settling
    <3>2. CASE Refresh(q)
      BY <3>2 DEF Refresh, Finish, change, scan, purge, table
    <3>3. CASE Fail(q)
      BY <3>3 DEF Fail, Finish, change, scan, purge, table
    <3> QED BY <1>10, <3>1, <3>2, <3>3
  <2>2. CASE r # q
    BY <2>1, <2>2, OthersKeepCalls
  <2>3. CASE r = q
    BY <2>1, <2>3, KindsApart
    DEF KeepsCall, Called, Computed, Deleting, Writer, Goto, Types
  <2> QED BY <2>2, <2>3
<1>11. CASE Tick \/ UNCHANGED vars
  BY <1>11
  DEF Tick, vars, table, progress, change, scan, purge, KeepsCall, Called, Computed, Deleting
<1> QED
  BY <1>1, <1>2, <1>3, <1>4, <1>5, <1>6, <1>7, <1>8, <1>9, <1>10, <1>11 DEF Next
\* Lemma: time does not go back.
LEMMA TimePasses ==
  ASSUME Types, [Next]_vars
  PROVE  now \in Nat /\ now' \in Nat /\ now <= now' /\ (now' # now => Tick)
<1>1. now' = now \/ Tick
  BY DEF Next, vars, table, Reject, Submit, CreateReads, Request428, Act, ServiceGets,
         UpdateCompares, Compares, Begin, Lists, DeleteCompares, Commit, Apply, Refuse, NoAnswer,
         Land, Settle, Refresh, Fail
<1> QED BY <1>1, NumberAssumption, SMTT(30) DEF Tick, Types

\* Lemma: every step keeps what the requests call for.
LEMMA CallsHold ==
  ASSUME Types, Progress, Calls, [Next]_vars
  PROVE  Calls'
<1> USE DEF Request
<1>1. ASSUME NEW v \in Visitor, Called(v)'
      PROVE  /\ call'[v] = [action |-> "create", id |-> v, etag |-> 0]
             /\ \E time \in 0..now' : desired'[v] = Submitted(time)
  <2>1. CASE Submit(v)
    <3>1. Reading(v) \in 0..now'
      BY ReadingInTime, TimePasses
    <3> QED BY <2>1, <3>1 DEF Submit, Types
  <2>2. CASE KeepsCall(v)
    <3>1. Called(v)
      BY <1>1, <2>2 DEF KeepsCall, Writer
    <3>2. PICK time \in 0..now : desired[v] = Submitted(time)
      BY <3>1 DEF Calls
    <3> QED BY <2>2, <3>1, <3>2, TimePasses DEF KeepsCall, Calls
  <2> QED BY <2>1, <2>2, CallsKept, KindsApart
<1>2. ASSUME NEW e \in Editor, Called(e)'
      PROVE  call'[e] # None /\ call'[e].action \in Action /\ call'[e].etag >= 1
  <2>1. CASE Act(e)
    <3>1. PICK id \in Present, action \in Action : \E etag \in 1..rows[id].etag :
            call' = [call EXCEPT ![e] = [action |-> action, id |-> id, etag |-> etag]]
      BY <2>1 DEF Act
    <3>2. PICK etag \in 1..rows[id].etag :
            call' = [call EXCEPT ![e] = [action |-> action, id |-> id, etag |-> etag]]
      BY <3>1
    <3>3. call'[e] = [action |-> action, id |-> id, etag |-> etag]
      BY <3>2 DEF Types
    <3>4. call'[e] \in Call
      BY <3>3, <3>2, PlaceTypes DEF Call, Present
    <3> QED BY <3>3, <3>4, NoneAssumption
  <2>2. CASE ServiceGets(e)
    <3>1. Called(e) /\ call' = call
      BY <2>2 DEF ServiceGets, Called
    <3> QED BY <3>1 DEF Calls
  <2>3. CASE KeepsCall(e)
    BY <1>2, <2>3 DEF KeepsCall, Calls, Writer
  <2> QED BY <2>1, <2>2, <2>3, CallsKept, KindsApart
<1>3. ASSUME NEW e \in Editor, Computed(e)' PROVE desired'[e] # None
  <2>1. CASE Act(e)
    BY <1>3, <2>1 DEF Act, Computed, Goto, Types, Progress, Writer, Unsent
  <2>2. CASE ServiceGets(e)
    <3>1. e \notin inflight'
      BY <2>2 DEF ServiceGets, Progress, Writer, Unsent
    <3>2. /\ rows[call[e].id] # None
          /\ desired' =
               [desired EXCEPT ![e] = Result(call[e].action, rows[call[e].id].contact, Reading(e))]
      BY <1>3, <2>2, <3>1 DEF ServiceGets, Computed, Finish, Goto, Types
    <3>3. Called(e) /\ call[e] \in Call /\ call[e].action \in Action
      BY <2>2, NoneAssumption DEF ServiceGets, Called, Calls, Types
    <3>4. Result(call[e].action, rows[call[e].id].contact, Reading(e)) \in Contact
      BY <3>2, <3>3, PlaceTypes, ReadingNat, ResultContact DEF Call
    <3> QED BY <3>2, <3>4, NoneAssumption DEF Types
  <2>3. CASE KeepsCall(e)
    BY <1>3, <2>3 DEF KeepsCall, Calls
  <2> QED BY <2>1, <2>2, <2>3, CallsKept, KindsApart
<1>4. ASSUME NEW p \in Purger
      PROVE  /\ Deleting(p)' => call'[p] # None /\ call'[p].action = "delete"
             /\ cutoff'[p] <= now'
  <2>1. CASE Begin(p)
    <3>1. ~Deleting(p)'
      BY <2>1, KindsApart
      DEF Begin, BeginPurge, BeginView, Deleting, Progress, Goto, Types
    <3>2. cutoff'[p] = Reading(p) /\ now' = now
      BY <2>1, KindsApart DEF Begin, BeginPurge, BeginView, Types
    <3> QED BY <3>1, <3>2, ReadingInTime, TimePasses
  <2>2. CASE DeleteCompares(p)
    <3>1. PICK entry \in page[p] :
            call' = [call EXCEPT ![p] =
                       [action |-> "delete", id |-> entry.place.id, etag |-> entry.etag]]
      BY <2>2 DEF DeleteCompares
    <3>2. entry \in Entry
      BY <3>1 DEF Types
    <3>3. call'[p] = [action |-> "delete", id |-> entry.place.id, etag |-> entry.etag]
      BY <3>1 DEF Types
    <3>4. call'[p] \in Call
      BY <3>2, <3>3 DEF Entry, Place, Call
    <3>5. cutoff' = cutoff /\ now' = now
      BY <2>2 DEF DeleteCompares, Compares, table
    <3> QED BY <3>3, <3>4, <3>5, NoneAssumption DEF Calls
  <2>3. CASE KeepsCall(p)
    BY <2>3, TimePasses DEF KeepsCall, Calls, Types
  <2> QED BY <2>1, <2>2, <2>3, CallsKept, KindsApart
<1> QED BY <1>1, <1>2, <1>3, <1>4 DEF Calls
-----------------------------------------------------------------------------
(* Rows *)

\* Lemma: the table changes only by a change that is applied.
LEMMA TableChanges ==
  ASSUME Types, Progress, [Next]_vars
  PROVE  \/ UNCHANGED <<rows, landed>>
         \/ \E r \in Request :
              /\ Sending(r) \/ r \in inflight
              /\ Apply(r) /\ UNCHANGED <<call, desired, cutoff>>
<1>1. ASSUME NEW r \in Request, Commit(r) \/ Land(r)
      PROVE  /\ Sending(r) \/ r \in inflight
             /\ Apply(r) /\ UNCHANGED <<call, desired, cutoff>>
  BY <1>1, SMTT(30) DEF Commit, Land, change, scan, purge
<1>2. (\E r \in Request : Commit(r) \/ Land(r)) \/ UNCHANGED <<rows, landed>>
  BY DEF Next, vars, table, Reject, Submit, CreateReads, Request428, Act, ServiceGets,
         UpdateCompares, Compares, Begin, Lists, DeleteCompares, Refuse, NoAnswer,
         Settle, Refresh, Fail, Tick
<1> QED BY <1>1, <1>2

\* Lemma: what a change that is applied does to the row it is about.
LEMMA ApplyRow ==
  ASSUME Types, Progress, Calls, RowsWritten, NEW r \in Request, Sending(r) \/ r \in inflight,
         Apply(r)
  PROVE  /\ call[r].id \in Visitor
         /\ rows'[call[r].id] = Written(r)
         /\ \A id \in Visitor : id # call[r].id => rows'[id] = rows[id]
         /\ r \in Visitor =>
              /\ call[r].id = r /\ r \notin landed /\ rows[r] = None
              /\ Written(r) = [contact |-> desired[r], by |-> r, etag |-> 1]
         /\ r \in Editor =>
              /\ Current(call[r].id, call[r].etag) /\ call[r].id \in landed
              /\ Written(r) = [contact |-> desired[r], by |-> r, etag |-> call[r].etag + 1]
         /\ r \in Purger =>
              Current(call[r].id, call[r].etag) /\ call[r].id \in landed /\ Written(r) = None
         /\ r \in Visitor \/ r \in Editor \/ r \in Purger
<1>1. /\ call[r].id \in Visitor /\ Meets(r)
      /\ rows' = [rows EXCEPT ![call[r].id] = Written(r)]
  BY SenderTypes DEF Apply, Call
<1>2. r \in Visitor \/ r \in Editor \/ r \in Purger
  BY SendersFresh DEF Progress, Writer
<1>3. CASE r \in Visitor
  <2>1. Called(r) /\ r \notin landed
    BY <1>3, SendersFresh DEF Progress, Sending, Called, Writer
  <2>2. call[r] = [action |-> "create", id |-> r, etag |-> 0]
    BY <1>3, <2>1 DEF Calls
  <2> QED BY <1>1, <1>3, <2>1, <2>2, KindsApart DEF Meets, Written, Types
<1>4. CASE r \in Editor
  <2>1. call[r].action \notin {"create", "delete"}
    BY <1>4, SenderTypes DEF Action
  <2>2. Current(call[r].id, call[r].etag)
    BY <1>1, <2>1 DEF Meets, Current
  <2> QED BY <1>1, <1>4, <2>1, <2>2, KindsApart DEF Written, Current, RowsWritten, Types
<1>5. CASE r \in Purger
  <2>1. call[r].action = "delete"
    BY <1>5, SenderTypes
  <2>2. Current(call[r].id, call[r].etag)
    BY <1>1, <2>1 DEF Meets, Current
  <2> QED BY <1>1, <1>5, <2>1, <2>2, KindsApart DEF Written, Current, RowsWritten, Types
<1> QED BY <1>2, <1>3, <1>4, <1>5

\* Lemma: a version that has existed never comes back once it is gone.
LEMMA VersionsPass ==
  ASSUME Types, Progress, Calls, RowsWritten, [Next]_vars,
         NEW id \in Visitor, NEW etag \in Nat, Existed(id, etag)
  PROVE  /\ Existed(id, etag)'
         /\ Current(id, etag)' => Current(id, etag) /\ rows'[id] = rows[id]
<1>1. CASE UNCHANGED <<rows, landed>>
  BY <1>1 DEF Existed, Current
<1>2. ASSUME NEW r \in Request, Sending(r) \/ r \in inflight, Apply(r)
      PROVE  /\ Existed(id, etag)'
             /\ Current(id, etag)' => Current(id, etag) /\ rows'[id] = rows[id]
  <2>1. landed' = landed \cup {r} /\ (rows[id] # None => rows[id].etag \in Nat)
    BY <1>2, PlaceTypes DEF Apply
  <2>2. CASE call[r].id = id
    BY <1>2, <2>1, <2>2, ApplyRow DEF Existed, Current
  <2>3. CASE call[r].id # id
    BY <1>2, <2>1, <2>3, ApplyRow DEF Existed, Current
  <2> QED BY <2>2, <2>3
<1> QED BY <1>1, <1>2, TableChanges

\* Lemma: what a change in the table was about stays on record.
LEMMA LandedKeepCalls ==
  ASSUME Types, Progress, [Next]_vars, NEW r \in Writer, r \in landed
  PROVE  r \in landed' /\ call'[r] = call[r] /\ desired'[r] = desired[r]
<1>1. r \in landed'
  BY TableChanges DEF Apply
<1>2. ~Unsent(r) /\ r \in Request
  BY DEF Progress, Request, Writer
<1>3. KeepsCall(r)
  BY <1>2, CallsKept, KindsApart DEF Unsent, Submit, Act, ServiceGets, Writer
<1> QED BY <1>1, <1>3 DEF KeepsCall

\* Lemma: what an editor's change makes of the version it was computed for.
LEMMA EditWrites ==
  ASSUME Types, Progress, Calls, RowsWritten, EditsApt,
         NEW e \in Editor, Computed(e), Current(call[e].id, call[e].etag)
  PROVE  /\ Possible(call[e].action, rows[call[e].id].contact) /\ Valid(desired[e])
         /\ \E time \in 0..now :
              desired[e] = Result(call[e].action, rows[call[e].id].contact, time)
         /\ ValidTransition(rows[call[e].id].contact.state, desired[e].state)
         /\ desired[e].created = rows[call[e].id].contact.created
         /\ desired[e].due # None => desired[e].due >= desired[e].created + DeletionDelay
<1> USE DEF Request
<1> DEFINE id == call[e].id
           contact == rows[id].contact
<1>1. /\ Possible(call[e].action, contact) /\ Valid(desired[e])
      /\ \E time \in 0..now : desired[e] = Result(call[e].action, contact, time)
  BY DEF EditsApt
<1>2. PICK time \in 0..now : desired[e] = Result(call[e].action, contact, time)
  BY <1>1
<1>3. Called(e) /\ call[e] \in Call /\ call[e].action \in Action
  BY NoneAssumption DEF Calls, Called, Computed, Types
<1>4. id \in Visitor /\ rows[id] # None /\ contact \in Contact
  BY <1>3, PlaceTypes DEF Call, Current
<1>5. time \in Nat
  BY <1>2 DEF Types
<1>6. /\ desired[e] \in Contact /\ desired[e].updated = time
      /\ desired[e].created = contact.created
      /\ desired[e].due \in {None, contact.due, time + DeletionDelay}
      /\ ValidTransition(contact.state, desired[e].state)
  <2> DEFINE made == Result(call[e].action, contact, time)
  <2>1. /\ made \in Contact /\ made.updated = time /\ made.created = contact.created
        /\ made.due \in {None, contact.due, time + DeletionDelay}
        /\ ValidTransition(contact.state, made.state)
    BY <1>1, <1>3, <1>4, <1>5, ResultContact, ZenonT(60)
  <2>2. desired[e] = made
    BY <1>2
  <2> HIDE DEF made
  <2> QED BY <2>1, <2>2
<1>7. desired[e].created <= time
  BY <1>1, <1>6 DEF Valid
<1>8. contact.due # None => contact.due >= contact.created + DeletionDelay
  BY <1>4 DEF RowsWritten, WrittenByItsCall
<1>9. desired[e].due # None => desired[e].due >= desired[e].created + DeletionDelay
  <2>1. CASE desired[e].due = time + DeletionDelay
    <3>1. desired[e].created \in Nat
      BY <1>6 DEF Contact
    <3> QED BY <1>5, <1>7, <2>1, <3>1, DelayAssumption
  <2>2. CASE desired[e].due = contact.due
    BY <1>6, <1>8, <2>2
  <2> QED BY <1>6, <2>1, <2>2
<1> QED BY <1>1, <1>6, <1>9, Zenon

\* Lemma: every row was written by its call.
LEMMA RowsWrittenHold ==
  ASSUME Types, Progress, Calls, RowsWritten, EditsApt, [Next]_vars
  PROVE  RowsWritten'
<1> USE DEF Request
<1>1. ASSUME NEW id \in Visitor, rows'[id] # None, rows'[id] = rows[id]
      PROVE  id \in landed' /\ WrittenByItsCall(rows[id], id)'
  <2>1. id \in landed /\ WrittenByItsCall(rows[id], id)
    BY <1>1 DEF RowsWritten
  <2>2. rows[id].by \in Writer /\ id \in Writer
    BY <1>1 DEF Types, Row, Writer
  <2> QED BY <1>1, <2>1, <2>2, LandedKeepCalls DEF WrittenByItsCall
<1>2. ASSUME NEW r \in Request, Sending(r) \/ r \in inflight, Apply(r),
             UNCHANGED <<call, desired, cutoff>>,
             NEW id \in Visitor, rows'[id] # None, id = call[r].id
      PROVE  id \in landed' /\ WrittenByItsCall(rows[id], id)'
  <2>1. landed' = landed \cup {r}
    BY <1>2 DEF Apply
  <2>2. CASE r \in Visitor
    <3>1. /\ id = r
          /\ rows'[id] = [contact |-> desired[r], by |-> r, etag |-> 1]
      BY <1>2, <2>2, ApplyRow
    <3>2. Called(r)
      BY <1>2, <2>2 DEF Progress, Sending, Called
    <3>3. call[r] = [action |-> "create", id |-> r, etag |-> 0] /\ desired[r].due = None
      BY <2>2, <3>2, SubmittedContact DEF Calls, Types
    <3> QED BY <1>2, <2>1, <3>1, <3>3 DEF WrittenByItsCall
  <2>3. CASE r \in Editor
    <3>1. /\ Current(id, call[r].etag) /\ id \in landed
          /\ rows'[id] = [contact |-> desired[r], by |-> r, etag |-> call[r].etag + 1]
      BY <1>2, <2>3, ApplyRow
    <3>2. Computed(r)
      BY <1>2, <2>3, SendersFresh DEF Computed
    <3>3. /\ desired[r].created = rows[id].contact.created
          /\ desired[r].due # None => desired[r].due >= desired[r].created + DeletionDelay
      BY <1>2, <2>3, <3>1, <3>2, EditWrites
    <3>4. rows[id].contact.created = desired[id].created
      BY <3>1 DEF Current, RowsWritten, WrittenByItsCall
    <3> QED BY <1>2, <2>1, <3>1, <3>3, <3>4 DEF WrittenByItsCall
  <2>4. CASE r \in Purger
    BY <1>2, <2>4, ApplyRow
  <2> QED BY <1>2, <2>2, <2>3, <2>4, ApplyRow
<1>3. ASSUME NEW id \in Visitor, rows'[id] # None
      PROVE  id \in landed' /\ WrittenByItsCall(rows[id], id)'
  <2>1. CASE rows'[id] = rows[id]
    BY <1>1, <1>3, <2>1
  <2>2. CASE rows'[id] # rows[id]
    <3>1. PICK r \in Request :
            /\ Sending(r) \/ r \in inflight
            /\ Apply(r) /\ UNCHANGED <<call, desired, cutoff>>
      BY <2>2, TableChanges
    <3>2. id = call[r].id
      BY <2>2, <3>1, ApplyRow
    <3> QED BY <1>2, <1>3, <3>1, <3>2
  <2> QED BY <2>1, <2>2
<1> QED BY <1>3 DEF RowsWritten

\* Lemma: every row stays valid: a submission is, and an edit was validated.
LEMMA RowsValidHold ==
  ASSUME Types, Progress, Calls, RowsWritten, EditsApt, RowsValid, [Next]_vars
  PROVE  RowsValid'
<1> USE DEF Request
<1>1. ASSUME NEW r \in Request, Sending(r) \/ r \in inflight, Apply(r),
             rows'[call[r].id] # None
      PROVE  Valid(rows'[call[r].id].contact)
  <2>1. CASE r \in Visitor
    <3>1. rows'[call[r].id].contact = desired[r]
      BY <1>1, <2>1, ApplyRow
    <3>2. Called(r)
      BY <1>1, <2>1 DEF Progress, Sending, Called
    <3>3. PICK time \in 0..now : desired[r] = Submitted(time)
      BY <2>1, <3>2 DEF Calls
    <3>4. time \in Nat
      BY <3>3 DEF Types
    <3>5. Valid(Submitted(time))
      BY <3>4, SubmittedContact
    <3> QED BY <3>1, <3>3, <3>5
  <2>2. CASE r \in Editor
    <3>1. rows'[call[r].id].contact = desired[r] /\ Current(call[r].id, call[r].etag)
      BY <1>1, <2>2, ApplyRow
    <3>2. Computed(r)
      BY <1>1, <2>2, SendersFresh DEF Computed
    <3> QED BY <2>2, <3>1, <3>2, EditWrites
  <2>3. CASE r \in Purger
    BY <1>1, <2>3, ApplyRow
  <2> QED BY <1>1, <2>1, <2>2, <2>3, ApplyRow
<1>2. ASSUME NEW id \in Visitor, rows'[id] # None PROVE Valid(rows'[id].contact)
  <2>1. CASE rows'[id] = rows[id]
    BY <1>2, <2>1 DEF RowsValid
  <2>2. CASE rows'[id] # rows[id]
    <3>1. PICK r \in Request : /\ Sending(r) \/ r \in inflight
                               /\ Apply(r) /\ UNCHANGED <<call, desired, cutoff>>
      BY <2>2, TableChanges
    <3>2. id = call[r].id
      BY <2>2, <3>1, ApplyRow
    <3> QED BY <1>1, <1>2, <3>1, <3>2
  <2> QED BY <2>1, <2>2
<1> QED BY <1>2 DEF RowsValid, Valid
-----------------------------------------------------------------------------
(* Edits and purges *)

\* Lemma: the version an editor or a purger has named has existed.
LEMMA CallTypes ==
  ASSUME Types, Progress, Calls
  PROVE  /\ \A e \in Editor : Called(e) => call[e] \in Call /\ call[e].action \in Action
         /\ \A p \in Purger : Deleting(p) => call[p] \in Call
         /\ \A e \in Editor : Computed(e) => Called(e)
BY NoneAssumption DEF Types, Calls, Called, Computed, Request

\* Lemma: an editor's change stays apt.
LEMMA EditsAptHold ==
  ASSUME Types, Progress, Calls, RowsWritten, EditsApt, [Next]_vars
  PROVE  EditsApt'
<1> USE DEF Request
<1>1. ASSUME NEW e \in Editor, Called(e)' PROVE Existed(call[e].id, call[e].etag)'
  <2>1. CASE Act(e)
    <3>1. PICK id \in Present, action \in Action : \E etag \in 1..rows[id].etag :
            call' = [call EXCEPT ![e] = [action |-> action, id |-> id, etag |-> etag]]
      BY <2>1 DEF Act
    <3>2. PICK etag \in 1..rows[id].etag :
            call' = [call EXCEPT ![e] = [action |-> action, id |-> id, etag |-> etag]]
      BY <3>1
    <3>3. call'[e] = [action |-> action, id |-> id, etag |-> etag]
      BY <3>2 DEF Types
    <3>4. UNCHANGED <<rows, landed>>
      BY <2>1 DEF Act, table
    <3>5. id \in landed /\ rows[id].etag >= etag
      BY <3>2, PlaceTypes DEF Present, RowsWritten
    <3> QED BY <3>3, <3>4, <3>5 DEF Existed
  <2>2. CASE ServiceGets(e) \/ KeepsCall(e)
    <3>1. Called(e) /\ call'[e] = call[e]
      BY <1>1, <2>2 DEF ServiceGets, KeepsCall, Called, Writer
    <3>2. call[e].id \in Visitor /\ call[e].etag \in Nat /\ Existed(call[e].id, call[e].etag)
      BY <3>1, CallTypes DEF EditsApt, Call
    <3> QED BY <3>1, <3>2, VersionsPass DEF Existed
  <2> QED BY <2>1, <2>2, CallsKept, KindsApart
<1>2. ASSUME NEW e \in Editor, Computed(e)', Current(call[e].id, call[e].etag)'
      PROVE  /\ Possible(call[e].action, rows[call[e].id].contact)' /\ Valid(desired[e])'
             /\ (\E time \in 0..now :
                   desired[e] = Result(call[e].action, rows[call[e].id].contact, time))'
  <2>1. CASE Act(e)
    BY <1>2, <2>1 DEF Act, Computed, Goto, Types, Progress, Writer, Unsent
  <2>2. CASE ServiceGets(e)
    <3> DEFINE row == rows[call[e].id]
               result == Result(call[e].action, row.contact, Reading(e))
    <3>1. e \notin inflight'
      BY <2>2 DEF ServiceGets, Progress, Writer, Unsent
    <3>2. pc'[e] = "compare"
      BY <1>2, <2>2, <3>1 DEF ServiceGets, Computed, Finish, Goto, Types
    <3>3. row # None /\ Possible(call[e].action, row.contact) /\ Valid(result)
      BY <2>2, <3>2 DEF ServiceGets, Accepts, Finish, Goto, Types
    <3>4. desired' = [desired EXCEPT ![e] = result]
      BY <2>2, <3>3 DEF ServiceGets
    <3>5. desired'[e] = result
      BY <3>4 DEF Types
    <3>6. UNCHANGED <<rows, call, now>>
      BY <2>2 DEF ServiceGets, table
    <3>7. Reading(e) \in 0..now
      BY ReadingInTime, TimePasses
    <3> QED BY <3>3, <3>5, <3>6, <3>7
  <2>3. CASE KeepsCall(e)
    <3>1. Computed(e) /\ Called(e) /\ call'[e] = call[e] /\ desired'[e] = desired[e]
      BY <1>2, <2>3, CallTypes DEF KeepsCall
    <3>2. call[e].id \in Visitor /\ call[e].etag \in Nat /\ Existed(call[e].id, call[e].etag)
      BY <3>1, CallTypes DEF EditsApt, Call
    <3>3. Current(call[e].id, call[e].etag) /\ rows'[call[e].id] = rows[call[e].id]
      BY <1>2, <3>1, <3>2, VersionsPass DEF Current
    <3>4. \E time \in 0..now :
            desired[e] = Result(call[e].action, rows[call[e].id].contact, time)
      BY <3>1, <3>3, EditWrites
    <3>5. Possible(call[e].action, rows[call[e].id].contact) /\ Valid(desired[e])
      BY <3>1, <3>3, EditWrites
    <3> QED BY <3>1, <3>3, <3>4, <3>5, TimePasses
  <2> QED BY <2>1, <2>2, <2>3, CallsKept, KindsApart
<1>3. ASSUME NEW e \in Editor, e \in landed' PROVE ~Current(call[e].id, call[e].etag)'
  <2>1. CASE e \in landed
    <3>1. Called(e) /\ call'[e] = call[e]
      BY <2>1, LandedKeepCalls DEF Called, Writer
    <3>2. call[e].id \in Visitor /\ call[e].etag \in Nat /\ Existed(call[e].id, call[e].etag)
      BY <3>1, CallTypes DEF EditsApt, Call
    <3>3. ~Current(call[e].id, call[e].etag)
      BY <2>1 DEF EditsApt
    <3> QED BY <3>1, <3>2, <3>3, VersionsPass DEF Current
  <2>2. CASE e \notin landed
    <3>1. PICK r \in Request :
            /\ Sending(r) \/ r \in inflight
            /\ Apply(r) /\ UNCHANGED <<call, desired, cutoff>>
      BY <1>3, <2>2, TableChanges
    <3>2. r = e
      BY <1>3, <2>2, <3>1 DEF Apply
    <3>3. /\ call'[e] = call[e] /\ call[e] \in Call
          /\ rows'[call[e].id] = [contact |-> desired[e], by |-> e, etag |-> call[e].etag + 1]
      BY <3>1, <3>2, ApplyRow, SenderTypes
    <3> QED BY <3>3 DEF Current, Call
  <2> QED BY <2>1, <2>2
<1> QED BY <1>1, <1>2, <1>3 DEF EditsApt

\* Lemma: a purger's page changes only when it is listed, and shrinks.
LEMMA PagesKept ==
  ASSUME Types, [Next]_vars, NEW p \in Purger
  PROVE  \/ page'[p] \subseteq page[p]
         \/ /\ UNCHANGED <<rows, landed, cutoff>> /\ pc'[p] # "idle"
            /\ \E given \in SUBSET Present : page'[p] = ToPurge(p, given)
<1> USE DEF Request
<1>1. ASSUME NEW s \in Scanner, Lists(s)
      PROVE  \/ page'[p] \subseteq page[p]
             \/ /\ UNCHANGED <<rows, landed, cutoff>> /\ pc'[p] # "idle"
                /\ \E given \in SUBSET Present : page'[p] = ToPurge(p, given)
  <2>1. PICK listed \in SUBSET Visitor :
          /\ Listed(s, listed)
          /\ PurgerLists(s, listed) \/ ViewerLists(s, listed) \/ Stuck(s)
    BY <1>1 DEF Lists
  <2>2. CASE PurgerLists(s, listed)
    <3>1. page' = [page EXCEPT ![s] = ToPurge(s, Given(s, listed))] /\ s \in Purger
      BY <2>2, Zenon DEF PurgerLists
    <3>2. Given(s, listed) \subseteq Present
      BY <2>1 DEF Given, Listed, Ahead, Repeated
    <3>3. UNCHANGED <<rows, landed, cutoff>>
      BY <1>1 DEF Lists, table
    <3>4. \E step \in {"list", "find", "done"} : Goto(s, step)
      BY <2>2, Zenon DEF PurgerLists, PageDone, Finish
    <3>5. CASE s = p
      BY <3>1, <3>2, <3>3, <3>4, <3>5 DEF Goto, Types
    <3>6. CASE s # p
      BY <3>1, <3>6 DEF Types
    <3> QED BY <3>5, <3>6
  <2>3. CASE ViewerLists(s, listed)
    BY <2>3, Zenon DEF ViewerLists
  <2>4. CASE Stuck(s)
    BY <2>4 DEF Stuck
  <2> QED BY <2>1, <2>2, <2>3, <2>4
<1>2. ASSUME NEW q \in Purger, DeleteCompares(q) PROVE page'[p] \subseteq page[p]
  BY <1>2, SMTT(30) DEF DeleteCompares, Types
<1>3. \/ \E s \in Scanner : Lists(s)
      \/ \E q \in Purger : DeleteCompares(q)
      \/ UNCHANGED page
  BY DEF Next, vars, table, change, scan, purge, Reject, Submit, CreateReads, Request428, Act,
         ServiceGets, UpdateCompares, Compares, Begin, Commit, Refuse, NoAnswer, Land, Settle,
         Refresh, Fail, Tick
<1> QED BY <1>1, <1>2, <1>3

\* Lemma: no step returns a request to its beginning, or takes it from its end.
LEMMA EndsStay ==
  ASSUME Types, [Next]_vars, NEW r \in Request
  PROVE  /\ pc'[r] = "idle" => pc[r] = "idle"
         /\ pc[r] = "done" => pc'[r] = "done"
<1> USE DEF Request
<1> DEFINE Moves(q) == pc[q] # "done" /\ \E step : Goto(q, step) /\ step # "idle"
<1> SUFFICES ASSUME pc' # pc PROVE \E q \in Request : Moves(q)
  BY DEF Goto, Types
<1>1. ASSUME NEW q, NEW reply, Finish(q, reply), pc[q] # "done" PROVE Moves(q)
  BY <1>1 DEF Finish
<1>2. ASSUME NEW v \in Visitor, Reject(v) \/ Submit(v) \/ CreateReads(v)
      PROVE  Moves(v)
  BY <1>1, <1>2 DEF Reject, Submit, CreateReads
<1>3. ASSUME NEW e \in Editor, Request428(e) \/ Act(e) \/ ServiceGets(e) \/ UpdateCompares(e)
      PROVE  Moves(e)
  BY <1>1, <1>3 DEF Request428, Act, ServiceGets, UpdateCompares, Compares
<1>4. ASSUME NEW s \in Scanner, Begin(s) \/ Lists(s)
      PROVE  Moves(s)
  <2>1. CASE Begin(s)
    BY <2>1 DEF Begin, BeginPurge, BeginView
  <2>2. CASE Lists(s)
    <3>0. pc[s] = "list"
      BY <2>2 DEF Lists
    <3>1. PICK listed \in SUBSET Visitor :
            PurgerLists(s, listed) \/ ViewerLists(s, listed) \/ Stuck(s)
      BY <2>2 DEF Lists
    <3>2. CASE PurgerLists(s, listed)
      <4>1. CASE Goto(s, "find")
        BY <3>0, <4>1
      <4>2. ASSUME NEW further, PageDone(s, further) PROVE Moves(s)
        BY <1>1, <3>0, <4>2 DEF PageDone
      <4>3. PICK further : further = more'[s]
        OBVIOUS
      <4>4. PageDone(s, further) \/ Goto(s, "find")
        BY <3>2, <4>3, Zenon DEF PurgerLists
      <4> QED BY <4>1, <4>2, <4>4
    <3>3. CASE ViewerLists(s, listed)
      <4>1. PageDone(s, Further(s, listed))
        BY <3>3, Zenon DEF ViewerLists
      <4> QED BY <1>1, <3>0, <4>1 DEF PageDone
    <3> QED BY <1>1, <3>0, <3>1, <3>2, <3>3 DEF Stuck
  <2> QED BY <1>4, <2>1, <2>2
<1>5. ASSUME NEW p \in Purger, DeleteCompares(p) PROVE Moves(p)
  BY <1>1, <1>5 DEF DeleteCompares, Compares
<1>6. ASSUME NEW q \in Request, Commit(q) \/ Refuse(q) \/ NoAnswer(q)
      PROVE  Moves(q)
  BY <1>1, <1>6 DEF Commit, Refuse, NoAnswer, Sending, Deleted, PageDone
<1>7. ASSUME NEW q \in Request, Settle(q) \/ Refresh(q) \/ Fail(q)
      PROVE  Moves(q)
  BY <1>1, <1>7 DEF Settle, Settling, SettleDelete, Refresh, Fail, Deleted, PageDone
<1>8. ~(\E q \in Request : Land(q)) /\ ~Tick /\ ~UNCHANGED vars
  BY DEF Land, Tick, vars, progress
<1> QED BY <1>2, <1>3, <1>4, <1>5, <1>6, <1>7, <1>8 DEF Next, Scanner

\* Lemma: what a purger deletes stays due by its cutoff.
LEMMA PurgesAptHold ==
  ASSUME Types, Progress, Calls, RowsWritten, PurgesApt, [Next]_vars
  PROVE  PurgesApt'
<1> USE DEF Request
<1>1. ASSUME NEW p \in Purger, NEW id \in Visitor, NEW etag \in Nat, PurgeApt(p, id, etag),
             cutoff'[p] = cutoff[p]
      PROVE  PurgeApt(p, id, etag)'
  BY <1>1, VersionsPass DEF PurgeApt
<1>2. ASSUME NEW p \in Purger, NEW entry \in page'[p]
      PROVE  PurgeApt(p, entry.place.id, entry.etag)'
  <2>1. CASE page'[p] \subseteq page[p]
    <3>1. entry \in page[p] /\ pc[p] # "idle"
      BY <1>2, <2>1 DEF PurgesApt
    <3>2. cutoff'[p] = cutoff[p]
      BY <3>1, CallsKept, KindsApart
      DEF Begin, BeginPurge, BeginView, DeleteCompares, KeepsCall
    <3>3. PurgeApt(p, entry.place.id, entry.etag)
      BY <3>1 DEF PurgesApt
    <3>4. entry.place.id \in Visitor /\ entry.etag \in Nat
      BY <3>1 DEF Types, Entry, Place
    <3> QED BY <1>1, <3>2, <3>3, <3>4
  <2>2. ASSUME UNCHANGED <<rows, landed, cutoff>>, NEW given \in SUBSET Present,
               page'[p] = ToPurge(p, given)
        PROVE  PurgeApt(p, entry.place.id, entry.etag)'
    <3>1. PICK id \in given :
            /\ entry = [place |-> PlaceOf(id), etag |-> rows[id].etag]
            /\ Due(rows[id].contact, cutoff[p])
      BY <1>2, <2>2 DEF ToPurge
    <3>2. id \in Visitor /\ rows[id] # None /\ rows[id].etag \in Nat /\ entry.place.id = id
      BY <3>1, PlaceTypes DEF Present, PlaceOf
    <3>3. id \in landed
      BY <3>2 DEF RowsWritten
    <3> QED BY <2>2, <3>1, <3>2, <3>3 DEF PurgeApt, Existed, Current
  <2> QED BY <2>1, <2>2, PagesKept
<1>3. ASSUME NEW p \in Purger, Deleting(p)' PROVE PurgeApt(p, call[p].id, call[p].etag)'
  <2>1. CASE DeleteCompares(p)
    <3>1. PICK entry \in page[p] :
            call' = [call EXCEPT ![p] =
                       [action |-> "delete", id |-> entry.place.id, etag |-> entry.etag]]
      BY <2>1 DEF DeleteCompares
    <3>2. call'[p] = [action |-> "delete", id |-> entry.place.id, etag |-> entry.etag]
      BY <3>1 DEF Types
    <3>3. entry.place.id \in Visitor /\ entry.etag \in Nat
      BY <3>1 DEF Types, Entry, Place
    <3>4. PurgeApt(p, entry.place.id, entry.etag) /\ cutoff'[p] = cutoff[p]
      BY <2>1, <3>1 DEF PurgesApt, DeleteCompares
    <3>5. PurgeApt(p, entry.place.id, entry.etag)'
      BY <1>1, <3>3, <3>4
    <3> QED BY <3>2, <3>5 DEF PurgeApt, Existed, Current
  <2>2. CASE Begin(p)
    BY <1>3, <2>2, KindsApart
    DEF Begin, BeginPurge, BeginView, Deleting, Progress, Goto, Types
  <2>3. CASE KeepsCall(p)
    <3>1. Deleting(p) /\ call'[p] = call[p] /\ cutoff'[p] = cutoff[p]
      BY <1>3, <2>3 DEF KeepsCall
    <3>2. call[p].id \in Visitor /\ call[p].etag \in Nat /\ PurgeApt(p, call[p].id, call[p].etag)
      BY <3>1, CallTypes DEF PurgesApt, Call
    <3>3. PurgeApt(p, call[p].id, call[p].etag)'
      BY <1>1, <3>1, <3>2 DEF PurgeApt, Existed, Current
    <3> QED BY <3>1, <3>3
  <2> QED BY <2>1, <2>2, <2>3, CallsKept, KindsApart
<1>4. ASSUME NEW p \in Purger, pc'[p] = "idle" PROVE page'[p] = {}
  <2>1. page[p] = {}
    BY <1>4, EndsStay DEF PurgesApt
  <2> QED BY <1>4, <2>1, PagesKept
<1> QED BY <1>2, <1>3, <1>4 DEF PurgesApt
-----------------------------------------------------------------------------
(* Answers *)

\* Lemma: a submission stays short.
LEMMA SubmissionsShortHold ==
  ASSUME Types, Progress, Calls, SubmissionsShort, [Next]_vars
  PROVE  SubmissionsShort'
<1> USE DEF Request
<1> SUFFICES ASSUME NEW v \in Visitor, pc'[v] \notin {"idle", "done"}
             PROVE  now' < desired'[v].created + DeletionDelay
  BY DEF SubmissionsShort
<1>1. CASE Tick
  BY <1>1 DEF Tick, progress, change
<1>2. CASE Submit(v)
  <2>1. desired'[v] = Submitted(Reading(v)) /\ now' = now
    BY <1>2 DEF Submit, table, Types
  <2> QED BY <2>1, ReadingInTime, SubmittedContact, TimePasses
<1>3. CASE KeepsCall(v) /\ ~Tick
  <2>1. pc[v] # "done" /\ Called(v)'
    BY EndsStay DEF Called
  <2>2. pc[v] # "idle"
    BY <1>3, <2>1 DEF KeepsCall, Called, Progress, Unsent, Writer
  <2> QED BY <1>3, <2>1, <2>2, TimePasses DEF KeepsCall, SubmissionsShort
<1> QED BY <1>1, <1>2, <1>3, CallsKept, KindsApart

\* Lemma: an editor that sends has compared what it has stored.
LEMMA StoredKept ==
  ASSUME Types, Progress, [Next]_vars, NEW e \in Editor, pc'[e] \in {"update", "settleUpdate"}
  PROVE  \/ UpdateCompares(e)
         \/ pc[e] \in {"update", "settleUpdate"} /\ stored'[e] = stored[e] /\ call'[e] = call[e]
<1> USE DEF Request
<1>1. CASE pc[e] \in {"update", "settleUpdate"}
  <2>1. stored'[e] = stored[e]
    <3>1. \/ \E d \in Editor : UpdateCompares(d)
          \/ \E p \in Purger : DeleteCompares(p)
          \/ UNCHANGED stored
      BY DEF Next, vars, change, Reject, Submit, CreateReads, Request428, Act, ServiceGets, Begin,
             Lists, Commit, Refuse, NoAnswer, Land, Settle, Refresh, Fail, Tick
    <3>2. ASSUME NEW d \in Editor, UpdateCompares(d) PROVE stored'[e] = stored[e]
      BY <1>1, <3>2 DEF UpdateCompares, Compares, Types
    <3>3. ASSUME NEW p \in Purger, DeleteCompares(p) PROVE stored'[e] = stored[e]
      BY <3>3, KindsApart DEF DeleteCompares, Compares, Types
    <3> QED BY <3>1, <3>2, <3>3
  <2>2. call'[e] = call[e]
    BY <1>1, CallsKept, KindsApart DEF Act, ServiceGets, KeepsCall
  <2> QED BY <1>1, <2>1, <2>2
<1>2. CASE pc[e] \notin {"update", "settleUpdate"}
  <2>1. ASSUME NEW q \in Request, NEW step, Goto(q, step)
        PROVE  q = e /\ step \in {"update", "settleUpdate"}
    BY <1>2, <2>1 DEF Goto, Types
  <2>2. ASSUME NEW q \in Request, NEW reply, Finish(q, reply) PROVE FALSE
    BY <2>1, <2>2 DEF Finish
  <2>3. ASSUME NEW v \in Visitor, Reject(v) \/ Submit(v) \/ CreateReads(v) PROVE FALSE
    BY <2>1, <2>2, <2>3 DEF Reject, Submit, CreateReads
  <2>4. ASSUME NEW d \in Editor, Request428(d) \/ Act(d) \/ ServiceGets(d) PROVE FALSE
    BY <2>1, <2>2, <2>4 DEF Request428, Act, ServiceGets
  <2>5. ASSUME NEW d \in Editor, UpdateCompares(d) PROVE UpdateCompares(e)
    BY <2>1, <2>2, <2>5 DEF UpdateCompares, Compares
  <2>6. ASSUME NEW s \in Scanner, Begin(s) \/ Lists(s) PROVE FALSE
    <3>1. \E step : Goto(s, step)
      <4>1. CASE Begin(s)
        BY <4>1 DEF Begin
      <4>2. CASE Lists(s)
        <5>1. PICK listed \in SUBSET Visitor :
                PurgerLists(s, listed) \/ ViewerLists(s, listed) \/ Stuck(s)
          BY <4>2 DEF Lists
        <5>2. CASE PurgerLists(s, listed)
          BY <5>2, Zenon DEF PurgerLists, PageDone, Finish
        <5>3. CASE ViewerLists(s, listed)
          <6>1. PageDone(s, Further(s, listed))
            BY <5>3, Zenon DEF ViewerLists
          <6> QED BY <6>1 DEF PageDone, Finish
        <5> QED BY <5>1, <5>2, <5>3 DEF Stuck, Finish
      <4> QED BY <2>6, <4>1, <4>2
    <3> QED BY <2>1, <3>1, KindsApart DEF Scanner
  <2>7. ASSUME NEW p \in Purger, DeleteCompares(p) PROVE FALSE
    BY <2>1, <2>2, <2>7 DEF DeleteCompares, Compares
  <2>8. ASSUME NEW q \in Request, Commit(q) \/ Refuse(q) \/ NoAnswer(q) PROVE FALSE
    <3>1. \E step : Goto(q, step)
      BY <2>8 DEF Commit, Refuse, NoAnswer, Sending, Deleted, PageDone, Finish
    <3>2. q = e /\ Sending(e)
      BY <2>1, <2>8, <3>1 DEF Commit, Refuse, NoAnswer
    <3> QED BY <1>2, <3>2, SendersFresh
  <2>9. ASSUME NEW q \in Request, Settle(q) PROVE FALSE
    <3>1. \E step : Goto(q, step)
      BY <2>9 DEF Settle, SettleDelete, Deleted, PageDone, Finish
    <3>2. q = e /\ Settling(e)
      BY <2>1, <2>9, <3>1 DEF Settle
    <3> QED BY <1>2, <3>2 DEF Settling, Progress
  <2>10. ASSUME NEW q \in Request, Refresh(q) \/ Fail(q) PROVE FALSE
    BY <2>2, <2>10 DEF Refresh, Fail
  <2>11. pc' # pc
    BY <1>2
  <2>12. ~(\E q \in Request : Land(q)) /\ ~Tick /\ ~UNCHANGED vars
    BY <2>11 DEF Land, Tick, vars, progress
  <2> QED
    BY <2>3, <2>4, <2>5, <2>6, <2>7, <2>8, <2>9, <2>10, <2>12 DEF Next
<1> QED BY <1>1, <1>2

\* Lemma: what a request reads to learn its outcome stays known.
LEMMA OutcomesKnownHold ==
  ASSUME Types, Progress, Calls, RowsWritten, EditsApt, PurgesApt, SubmissionsShort,
         OutcomesKnown, [Next]_vars
  PROVE  OutcomesKnown'
<1> USE DEF Request
<1>1. ASSUME NEW v \in Visitor, v \in landed', pc'[v] # "done" PROVE rows'[v] # None
  <2>1. pc[v] # "done"
    BY <1>1, EndsStay
  <2>2. CASE UNCHANGED <<rows, landed>>
    BY <1>1, <2>1, <2>2 DEF OutcomesKnown
  <2>3. ASSUME NEW r \in Request, Sending(r) \/ r \in inflight, Apply(r) PROVE rows'[v] # None
    <3>1. CASE call[r].id # v
      <4>1. landed' = landed \cup {r} /\ (r \in Visitor => call[r].id = r)
        BY <2>3, ApplyRow DEF Apply
      <4>2. v \in landed
        BY <1>1, <3>1, <4>1
      <4>3. rows[v] # None
        BY <2>1, <4>2 DEF OutcomesKnown
      <4>4. \A id \in Visitor : id # call[r].id => rows'[id] = rows[id]
        BY <2>3, ApplyRow
      <4> QED BY <3>1, <4>3, <4>4
    <3>2. CASE call[r].id = v /\ r \notin Purger
      <4>1. desired[r] \in Contact /\ call[r].etag \in Nat /\ r \in Writer
        BY <2>3, <3>2, SenderTypes, ApplyRow DEF Call, Action, Writer
      <4>2. \E etag \in Nat : rows'[v] = [contact |-> desired[r], by |-> r, etag |-> etag]
        BY <2>3, <3>2, <4>1, ApplyRow
      <4>3. rows'[v] \in Row
        BY <4>1, <4>2 DEF Row, Writer
      <4> QED BY <4>3, NoneAssumption
    <3>3. CASE call[r].id = v /\ r \in Purger
      <4>1. Deleting(r)
        BY <2>3, <3>3, SendersFresh DEF Deleting
      <4>2. Current(v, call[r].etag) /\ v \in landed
        BY <2>3, <3>3, ApplyRow
      <4>3. Due(rows[v].contact, cutoff[r]) /\ cutoff[r] <= now
        BY <3>3, <4>1, <4>2 DEF PurgesApt, PurgeApt, Calls
      <4>4. /\ rows[v].contact.due >= rows[v].contact.created + DeletionDelay
            /\ rows[v].contact.created = desired[v].created
        BY <4>2, <4>3 DEF Current, Due, RowsWritten, WrittenByItsCall
      <4>5. now < desired[v].created + DeletionDelay
        BY <2>1, <4>2 DEF SubmissionsShort, Progress, Unsent, Writer
      <4>6. /\ rows[v].contact \in Contact /\ rows[v].contact.due \in Nat
            /\ rows[v].contact.created \in Nat
            /\ now \in Nat /\ cutoff[r] \in Nat
        BY <3>3, <4>2, <4>3, PlaceTypes, TimePasses DEF Current, Due, Contact, Time, Types
      <4> QED BY <4>3, <4>4, <4>5, <4>6, DelayAssumption DEF Due
    <3> QED BY <3>1, <3>2, <3>3
  <2> QED BY <2>2, <2>3, TableChanges
<1>2. ASSUME NEW e \in Editor, pc'[e] \in {"update", "settleUpdate"}
      PROVE  /\ stored'[e] # None /\ stored'[e].by \in landed'
             /\ call'[stored'[e].by].etag + 1 = call'[e].etag
  <2>1. CASE UpdateCompares(e)
    <3> DEFINE row == rows[call[e].id]
    <3>1. row # None /\ row.etag = call[e].etag /\ stored'[e] = row
      BY <1>2, <2>1 DEF UpdateCompares, Compares, Finish, Goto, Types
    <3>2. Called(e)
      BY <2>1 DEF UpdateCompares, Called
    <3>3. row.by \in landed /\ row.etag = call[row.by].etag + 1
      BY <3>1, <3>2, CallTypes DEF RowsWritten, WrittenByItsCall, Call
    <3>4. UNCHANGED <<landed, call>>
      BY <2>1 DEF UpdateCompares, Compares, table
    <3> QED BY <3>1, <3>3, <3>4
  <2>2. CASE /\ pc[e] \in {"update", "settleUpdate"}
             /\ stored'[e] = stored[e] /\ call'[e] = call[e]
    <3>1. /\ stored[e] # None /\ stored[e].by \in landed
          /\ call[stored[e].by].etag + 1 = call[e].etag
      BY <2>2 DEF OutcomesKnown
    <3>2. stored[e].by \in Writer
      BY <3>1 DEF Types, Row, Writer
    <3>3. stored[e].by \in landed' /\ call'[stored[e].by] = call[stored[e].by]
      BY <3>1, <3>2, LandedKeepCalls
    <3> QED BY <2>2, <3>1, <3>3
  <2> QED BY <1>2, <2>1, <2>2, StoredKept
<1> QED BY <1>1, <1>2 DEF OutcomesKnown
\* Lemma: a row a request finds to be its own is one it has written.
LEMMA OwnRow ==
  ASSUME RowsWritten, NEW id \in Visitor, NEW content, NEW r, Shows(id, content, r)
  PROVE  r \in landed /\ rows[id].etag = call[r].etag + 1
BY DEF RowsWritten, WrittenByItsCall, Shows

\* Lemma: a new answer says whether the change is in the table.
LEMMA NewAnswers ==
  ASSUME Types, Progress, Calls, RowsWritten, EditsApt, OutcomesKnown, [Next]_vars,
         NEW r \in Writer, answer'[r] # answer[r]
  PROVE  \/ answer'[r] = "commitUnknown"
         \/ answer'[r] = "ok" /\ r \in landed'
         \/ answer'[r] \notin {"none", "ok"} /\ r \notin landed'
<1> USE DEF Request
<1>1. ASSUME NEW q, NEW reply, Finish(q, reply) PROVE q = r /\ answer'[r] = reply
  BY <1>1 DEF Finish, Types, Writer
<1>2. ASSUME UNCHANGED answer PROVE FALSE
  BY <1>2
<1>3. ASSUME Unsent(r) PROVE r \notin landed
  BY <1>3 DEF Progress
<1>4. ASSUME NEW v \in Visitor, Reject(v) \/ Submit(v) \/ CreateReads(v)
      PROVE  answer'[r] \notin {"none", "ok"} /\ r \notin landed'
  <2>1. \/ Finish(v, "rejected") \/ Finish(v, "conflict")
    BY <1>2, <1>4 DEF Reject, Submit, CreateReads
  <2>2. Unsent(v) /\ UNCHANGED landed
    BY <1>4 DEF Reject, Submit, CreateReads, Unsent, table
  <2> QED BY <1>1, <1>3, <2>1, <2>2
<1>5. ASSUME NEW e \in Editor, Request428(e) \/ Act(e) \/ ServiceGets(e) \/ UpdateCompares(e)
      PROVE  answer'[r] \notin {"none", "ok"} /\ r \notin landed'
  <2>1. \E reply \in {"preconditionRequired", "notFound", "invalidTransition", "validation",
                      "conflict"} : Finish(e, reply)
    BY <1>2, <1>5 DEF Request428, Act, ServiceGets, UpdateCompares, Compares
  <2>2. Unsent(e) /\ UNCHANGED landed
    BY <1>5 DEF Request428, Act, ServiceGets, UpdateCompares, Compares, Unsent, table
  <2> QED BY <1>1, <1>3, <2>1, <2>2
<1>6. ASSUME NEW s \in Scanner, Begin(s) \/ Lists(s) PROVE FALSE
  <2>1. \E reply : Finish(s, reply)
    <3>1. CASE Begin(s)
      BY <1>2, <3>1 DEF Begin
    <3>2. CASE Lists(s)
      <4>1. PICK listed \in SUBSET Visitor :
              PurgerLists(s, listed) \/ ViewerLists(s, listed) \/ Stuck(s)
        BY <3>2 DEF Lists
      <4>2. CASE PurgerLists(s, listed)
        BY <1>2, <4>2, Zenon DEF PurgerLists, PageDone
      <4>3. CASE ViewerLists(s, listed)
        <5>1. PageDone(s, Further(s, listed))
          BY <4>3, Zenon DEF ViewerLists
        <5> QED BY <1>2, <5>1 DEF PageDone
      <4> QED BY <4>1, <4>2, <4>3 DEF Stuck
    <3> QED BY <1>6, <3>1, <3>2
  <2> QED BY <1>1, <2>1, KindsApart DEF Scanner, Writer
<1>7. ASSUME NEW p \in Purger, DeleteCompares(p) PROVE FALSE
  <2>1. \E reply : Finish(p, reply)
    BY <1>2, <1>7 DEF DeleteCompares, Compares
  <2> QED BY <1>1, <2>1, KindsApart DEF Writer
<1>8. ASSUME NEW q \in Request, Commit(q)
      PROVE  answer'[r] = "ok" /\ r \in landed'
  <2>1. \E reply : Finish(q, reply)
    BY <1>2, <1>8 DEF Commit, Deleted, PageDone
  <2>2. q = r /\ q \notin Purger
    BY <1>1, <2>1, KindsApart DEF Writer
  <2>3. Finish(q, "ok")
    BY <1>2, <1>8, <2>2 DEF Commit
  <2> QED BY <1>1, <1>8, <2>3 DEF Commit, Apply
<1>9. ASSUME NEW q \in Request, Refuse(q)
      PROVE  answer'[r] \notin {"none", "ok"} /\ r \notin landed'
  <2>1. \E reply \in {"notFound", "conflict"} : Finish(q, reply)
    BY <1>9 DEF Refuse
  <2>2. UNCHANGED landed /\ Sending(q)
    BY <1>9 DEF Refuse, table
  <2> QED BY <1>1, <2>1, <2>2, SendersFresh
<1>10. ASSUME NEW q \in Request, NoAnswer(q) \/ Land(q) PROVE FALSE
  BY <1>2, <1>10 DEF NoAnswer, Land, progress
<1>11. ASSUME NEW q \in Request, Settle(q)
       PROVE  \/ answer'[r] = "commitUnknown"
              \/ answer'[r] = "ok" /\ r \in landed'
              \/ answer'[r] \notin {"none", "ok"} /\ r \notin landed'
  <2>1. \E reply : Finish(q, reply)
    BY <1>2, <1>11 DEF Settle, SettleDelete, Deleted, PageDone
  <2>2. q = r /\ q \notin Purger /\ UNCHANGED landed
    BY <1>1, <1>11, <2>1, KindsApart DEF Settle, Writer, table
  <2>3. CASE pc[r] = "settleAdd"
    <3>1. answer'[r] = AddOutcome(r) /\ r \in Visitor
      BY <1>1, <1>11, <2>2, <2>3 DEF Settle, Progress, Writer
    <3>2. Shows(r, desired[r], r) => r \in landed
      BY <3>1, OwnRow
    <3>3. rows[r] = None => r \notin landed
      BY <2>3, <3>1 DEF OutcomesKnown
    <3> QED BY <2>2, <3>1, <3>2, <3>3 DEF AddOutcome
  <2>4. CASE pc[r] = "settleUpdate"
    <3>1. answer'[r] = UpdateOutcome(r) /\ r \in Editor
      BY <1>1, <1>11, <2>2, <2>4 DEF Settle, Progress, Writer
    <3>2. Called(r) /\ call[r].id \in Visitor
      BY <2>4, <3>1, CallTypes DEF Called, Call
    <3>3. Shows(call[r].id, desired[r], r) => r \in landed
      BY <3>2, OwnRow
    <3>4. Shows(call[r].id, stored[r].contact, stored[r].by) => r \notin landed
      <4>1. SUFFICES ASSUME Shows(call[r].id, stored[r].contact, stored[r].by)
                     PROVE  r \notin landed
        OBVIOUS
      <4>2. rows[call[r].id].etag = call[stored[r].by].etag + 1
        BY <3>2, <4>1, OwnRow
      <4>3. Current(call[r].id, call[r].etag)
        BY <2>4, <3>1, <4>1, <4>2 DEF OutcomesKnown, Current, Shows
      <4> QED BY <3>1, <4>3 DEF EditsApt
    <3> QED BY <2>2, <3>1, <3>3, <3>4 DEF UpdateOutcome
  <2> QED BY <1>11, <2>2, <2>3, <2>4 DEF Settle, Settling, Progress, Writer
<1>12. ASSUME NEW q \in Request, Refresh(q)
       PROVE  answer'[r] = "commitUnknown" \/ (answer'[r] = "ok" /\ r \in landed')
  <2>1. /\ q = r /\ UNCHANGED landed
        /\ answer'[r] = IF Shows(call[r].id, desired[r], r) THEN "ok" ELSE "commitUnknown"
    BY <1>1, <1>12 DEF Refresh, table
  <2>2. call[r].id \in Visitor
    <3>1. Called(r) /\ pc[r] = "refresh"
      BY <1>12, <2>1 DEF Refresh, Called
    <3>2. CASE r \in Visitor
      <4>1. call[r] = [action |-> "create", id |-> r, etag |-> 0]
        BY <3>1, <3>2 DEF Calls
      <4> QED BY <3>2, <4>1
    <3>3. CASE r \in Editor
      BY <3>1, <3>3, CallTypes DEF Call
    <3> QED BY <3>2, <3>3 DEF Writer
  <2> QED BY <2>1, <2>2, OwnRow
<1>13. ASSUME NEW q \in Request, Fail(q)
       PROVE  answer'[r] = "commitUnknown"
              \/ (answer'[r] \notin {"none", "ok"} /\ r \notin landed')
  <2>1. /\ q = r /\ UNCHANGED landed
        /\ answer'[r] =
             IF Settling(r) \/ pc[r] = "refresh" THEN "commitUnknown" ELSE "unavailable"
    BY <1>1, <1>13 DEF Fail, table
  <2>2. Settling(r) \/ pc[r] = "refresh" \/ Unsent(r)
    BY <1>13, <2>1 DEF Fail, Settling, Unsent, Progress, Writer
  <2> QED BY <1>3, <2>1, <2>2
<1>14. ~Tick /\ ~UNCHANGED vars
  BY <1>2 DEF Tick, vars, progress
<1> QED
  BY <1>4, <1>5, <1>6, <1>7, <1>8, <1>9, <1>10, <1>11, <1>12, <1>13, <1>14 DEF Next

\* Lemma: an answer stays true as long as no change lands after its request.
LEMMA AnsweredHold ==
  ASSUME Types, Progress, Calls, RowsWritten, EditsApt, OutcomesKnown, Answered, [Next]_vars
  PROVE  Answered'
<1> USE DEF Request
<1> SUFFICES ASSUME NEW r \in Writer
             PROVE  /\ answer'[r] = "ok" => r \in landed'
                    /\ ~LateDelivery /\ answer'[r] \notin {"none", "ok", "commitUnknown"} =>
                         r \notin landed'
  BY DEF Answered
<1>1. CASE answer'[r] # answer[r]
  BY <1>1, NewAnswers
<1>2. CASE answer'[r] = answer[r] /\ (r \in landed' => r \in landed)
  BY <1>2, TableChanges DEF Answered, Apply
<1>3. CASE answer'[r] = answer[r] /\ r \in landed' /\ r \notin landed
  <2>1. PICK q \in Request : Commit(q) \/ Land(q)
    BY <1>3 DEF Next, vars, table, Reject, Submit, CreateReads, Request428, Act, ServiceGets,
         UpdateCompares, Compares, Begin, Lists, DeleteCompares, Refuse, NoAnswer,
         Settle, Refresh, Fail, Tick
  <2>2. q = r
    BY <1>3, <2>1 DEF Commit, Land, Apply
  <2>3. ~LateDelivery => pc[r] # "done"
    BY <2>1, <2>2 DEF Commit, Sending, Land, Settling
  <2>4. ~LateDelivery => answer[r] = "none"
    BY <2>3 DEF Progress, Writer
  <2> QED BY <1>3, <2>4, SMTT(30)
<1> QED BY <1>1, <1>2, <1>3
-----------------------------------------------------------------------------
(* Scans *)

\* Lemma: row keys are in an order, and the repository's comparison is that order.
LEMMA KeysOrdered ==
  ASSUME NEW a \in Place, NEW b \in Place, NEW c \in Place
  PROVE  /\ ~(Precedes(a, b) /\ Precedes(b, a))
         /\ Precedes(a, b) /\ Precedes(b, c) => Precedes(a, c)
         /\ StrictlyAfter(b, a) <=> Precedes(a, b)
<1>1. /\ a.created \in Nat /\ b.created \in Nat /\ c.created \in Nat
      /\ a.id \in Nat /\ b.id \in Nat /\ c.id \in Nat
  BY KindAssumption DEF Place
<1> QED BY <1>1 DEF Precedes, StrictlyAfter

\* Lemma: a contact nobody has touched is still there, as it was.
LEMMA SteadyKept ==
  ASSUME Types, Progress, Calls, RowsWritten, ScansBegin, [Next]_vars,
         NEW s \in Scanner, ~Begin(s), NEW id \in steady'[s]
  PROVE  id \in steady[s] /\ id \in Visitor /\ rows[id] # None /\ rows'[id] = rows[id]
<1> USE DEF Request
<1>1. ASSUME NEW t \in Scanner, Begin(t) PROVE UNCHANGED rows /\ steady'[s] = steady[s]
  BY <1>1 DEF Begin, Types
<1>2. ASSUME NEW r \in Request, Sending(r) \/ r \in inflight, Apply(r)
      PROVE  id \in steady[s] /\ id # call[r].id
  BY <1>2 DEF Apply
<1>3. ASSUME NEW r \in Request, Commit(r) \/ Land(r)
      PROVE  (Sending(r) \/ r \in inflight) /\ Apply(r)
  BY <1>3, Zenon DEF Commit, Land
<1>4. \/ \E t \in Scanner : Begin(t)
      \/ \E r \in Request : Commit(r) \/ Land(r)
      \/ UNCHANGED <<rows, steady>>
  BY DEF Next, vars, table, Reject, Submit, CreateReads, Request428, Act, ServiceGets,
         UpdateCompares, Compares, Lists, DeleteCompares, Refuse, NoAnswer,
         Settle, Refresh, Fail, Tick
<1>5. id \in steady[s]
  BY <1>1, <1>2, <1>3, <1>4
<1>6. id \in Visitor /\ rows[id] # None
  BY <1>5 DEF Types, ScansBegin
<1>7. ASSUME NEW r \in Request, Commit(r) \/ Land(r) PROVE rows'[id] = rows[id]
  <2>1. (Sending(r) \/ r \in inflight) /\ Apply(r)
    BY <1>3, <1>7
  <2> QED BY <1>2, <1>6, <2>1, ApplyRow
<1> QED BY <1>1, <1>4, <1>5, <1>6, <1>7

\* Whether a step leaves a scan where it is, or ends it without success.
StaysScan(s) ==
  /\ cursor'[s] = cursor[s]
  /\ s \in Purger => page'[s] = page[s] /\ more'[s] = more[s] /\ call'[s] = call[s]
  /\ s \in Viewer => shown'[s] = shown[s] /\ filter'[s] = filter[s]
  /\ \/ /\ answer'[s] = answer[s]
        /\ pc'[s] = pc[s] \/ (pc[s] = "delete" /\ pc'[s] = "settleDelete")
     \/ pc'[s] = "done" /\ answer'[s] # "ok"

\* Lemma: a step of another request leaves a scan where it is.
LEMMA OthersKeepScan ==
  ASSUME Types, NEW q \in Request, NEW s \in Scanner, s # q,
         \/ UNCHANGED progress
         \/ \E step : Goto(q, step) /\ UNCHANGED answer
         \/ \E reply : Finish(q, reply),
         \/ UNCHANGED <<page, more>>
         \/ UNCHANGED more /\ \E entries : page' = [page EXCEPT ![q] = entries]
         \/ \E entries, further : /\ page' = [page EXCEPT ![q] = entries]
                                  /\ more' = [more EXCEPT ![q] = further],
         UNCHANGED call \/ \E wanted : call' = [call EXCEPT ![q] = wanted],
         UNCHANGED cursor \/ \E place : cursor' = [cursor EXCEPT ![q] = place],
         UNCHANGED filter \/ \E options : filter' = [filter EXCEPT ![q] = options],
         UNCHANGED shown \/ \E counts : shown' = [shown EXCEPT ![q] = counts]
  PROVE  StaysScan(s)
<1>1. s \in Request
  BY DEF Request, Scanner
<1>2. pc'[s] = pc[s] /\ answer'[s] = answer[s]
  <2>1. CASE UNCHANGED progress
    BY <2>1 DEF progress
  <2>2. ASSUME NEW step, Goto(q, step) PROVE pc'[s] = pc[s]
    BY <1>1, <2>2 DEF Goto, Types
  <2>3. ASSUME NEW reply, Finish(q, reply) PROVE pc'[s] = pc[s] /\ answer'[s] = answer[s]
    BY <1>1, <2>3 DEF Finish, Goto, Types
  <2> QED BY <2>1, <2>2, <2>3
<1>3. s \in Purger => page'[s] = page[s] /\ more'[s] = more[s] /\ call'[s] = call[s]
  BY <1>1 DEF Types
<1>4. cursor'[s] = cursor[s]
  BY DEF Types
<1>5. s \in Viewer => shown'[s] = shown[s] /\ filter'[s] = filter[s]
  BY DEF Types
<1> QED BY <1>2, <1>3, <1>4, <1>5 DEF StaysScan

\* Lemma: what a step may do to a scan.
LEMMA ScansMove ==
  ASSUME Types, Progress, [Next]_vars, NEW s \in Scanner
  PROVE  \/ Begin(s) \/ Lists(s)
         \/ s \in Purger /\ (DeleteCompares(s) \/ Commit(s) \/ Settle(s))
         \/ StaysScan(s)
<1> USE DEF Request, Scanner
<1> DEFINE Moves(q) ==
      \/ UNCHANGED progress
      \/ \E step : Goto(q, step) /\ UNCHANGED answer
      \/ \E reply : Finish(q, reply)
<1>1. ASSUME NEW r \in Visitor \cup Editor,
             \/ r \in Visitor /\ (Reject(r) \/ Submit(r) \/ CreateReads(r))
             \/ r \in Editor /\ (Request428(r) \/ Act(r) \/ ServiceGets(r) \/ UpdateCompares(r))
      PROVE  StaysScan(s)
  <2>1. s # r /\ r \in Request
    BY KindsApart
  <2>2. Moves(r)
    BY <1>1 DEF Reject, Submit, CreateReads, Request428, Act, ServiceGets, UpdateCompares,
           Compares
  <2>3. UNCHANGED <<page, more, cursor, filter, shown>>
    BY <1>1 DEF Reject, Submit, CreateReads, Request428, Act, ServiceGets, UpdateCompares,
           Compares, scan, purge
  <2>4. UNCHANGED call \/ \E wanted : call' = [call EXCEPT ![r] = wanted]
    BY <1>1 DEF Reject, Submit, CreateReads, Request428, Act, ServiceGets, UpdateCompares,
           change
  <2> HIDE DEF Moves
  <2> QED BY <2>1, <2>2, <2>3, <2>4, OthersKeepScan DEF Moves
<1>2. ASSUME NEW t \in Scanner, t # s, Begin(t) PROVE StaysScan(s)
  <2>1. UNCHANGED <<page, more, cursor, shown, call>> /\ Moves(t)
    BY <1>2 DEF Begin, change
  <2>2. UNCHANGED filter \/ \E options : filter' = [filter EXCEPT ![t] = options]
    BY <1>2 DEF Begin, BeginPurge, BeginView
  <2> HIDE DEF Moves
  <2> QED BY <1>2, <2>1, <2>2, OthersKeepScan DEF Moves
<1>3. ASSUME NEW t \in Scanner, t # s, Lists(t) PROVE StaysScan(s)
  <2>1. PICK listed \in SUBSET Visitor :
          /\ cursor' \in {[cursor EXCEPT ![t] = place] : place \in Boundary(t, Given(t, listed))}
          /\ PurgerLists(t, listed) \/ ViewerLists(t, listed) \/ Stuck(t)
    BY <1>3 DEF Lists
  <2>2. UNCHANGED <<filter, call>>
    BY <1>3 DEF Lists, change
  <2>3. \E place : cursor' = [cursor EXCEPT ![t] = place]
    BY <2>1
  <2>4. CASE PurgerLists(t, listed)
    <3>1. /\ page' = [page EXCEPT ![t] = ToPurge(t, Given(t, listed))]
          /\ more' = [more EXCEPT ![t] = Further(t, listed)]
          /\ UNCHANGED shown
      BY <2>4, Zenon DEF PurgerLists
    <3>2. Moves(t)
      BY <2>4, Zenon DEF PurgerLists, PageDone
    <3> HIDE DEF Moves
    <3> QED BY <1>3, <2>2, <2>3, <3>1, <3>2, OthersKeepScan DEF Moves
  <2>5. CASE ViewerLists(t, listed)
    <3>1. UNCHANGED <<page, more>> /\ \E counts : shown' = [shown EXCEPT ![t] = counts]
      BY <2>5, Zenon DEF ViewerLists
    <3>2. Moves(t)
      BY <2>5, Zenon DEF ViewerLists, PageDone
    <3> HIDE DEF Moves
    <3> QED BY <1>3, <2>2, <2>3, <3>1, <3>2, OthersKeepScan DEF Moves
  <2>6. CASE Stuck(t)
    <3>1. UNCHANGED <<page, more, shown>> /\ Moves(t)
      BY <2>6 DEF Stuck
    <3> HIDE DEF Moves
    <3> QED BY <1>3, <2>2, <2>3, <3>1, OthersKeepScan DEF Moves
  <2> QED BY <2>1, <2>4, <2>5, <2>6
<1>4. ASSUME NEW p \in Purger, p # s, DeleteCompares(p) PROVE StaysScan(s)
  <2>1. PICK entry \in page[p] :
          LET wanted == [action |-> "delete", id |-> entry.place.id, etag |-> entry.etag] IN
          /\ page' = [page EXCEPT ![p] = @ \ {entry}]
          /\ call' = [call EXCEPT ![p] = wanted] /\ Compares(p, wanted, "delete")
    BY <1>4, Zenon DEF DeleteCompares
  <2>2. Moves(p)
    BY <2>1 DEF Compares
  <2>3. UNCHANGED <<more, cursor, filter, shown>>
    BY <1>4 DEF DeleteCompares
  <2>4. /\ \E entries : page' = [page EXCEPT ![p] = entries]
        /\ \E wanted : call' = [call EXCEPT ![p] = wanted]
    BY <2>1
  <2> HIDE DEF Moves
  <2> QED BY <1>4, <2>2, <2>3, <2>4, OthersKeepScan DEF Moves
<1>5. ASSUME NEW r \in Request, r # s,
             Commit(r) \/ Refuse(r) \/ NoAnswer(r) \/ Land(r) \/ Settle(r) \/ Refresh(r) \/ Fail(r)
      PROVE  StaysScan(s)
  <2>1. Moves(r)
    BY <1>5, Zenon DEF Commit, Refuse, NoAnswer, Land, Settle, SettleDelete, Deleted, PageDone,
           Refresh, Fail
  <2>2. UNCHANGED <<page, more, cursor, filter, shown, call>>
    BY <1>5 DEF Commit, Refuse, NoAnswer, Land, Settle, Refresh, Fail, scan, purge, change
  <2> HIDE DEF Moves
  <2> QED BY <1>5, <2>1, <2>2, OthersKeepScan DEF Moves
<1>6. ASSUME Refuse(s) \/ NoAnswer(s) \/ Land(s) \/ Refresh(s) \/ Fail(s)
      PROVE  StaysScan(s)
  <2>1. UNCHANGED <<page, more, cursor, filter, shown, call>>
    BY <1>6 DEF Refuse, NoAnswer, Land, Refresh, Fail, scan, purge, change
  <2>2. \/ UNCHANGED progress
        \/ pc[s] = "delete" /\ Goto(s, "settleDelete") /\ UNCHANGED answer
        \/ \E reply : reply # "ok" /\ Finish(s, reply)
    <3>1. CASE NoAnswer(s)
      BY <3>1, SendersFresh, KindsApart DEF NoAnswer, Writer
    <3>2. CASE Land(s)
      BY <3>2 DEF Land
    <3>3. CASE Refuse(s)
      BY <3>3 DEF Refuse
    <3>4. CASE Fail(s)
      BY <3>4 DEF Fail
    <3>5. CASE Refresh(s)
      BY <3>5 DEF Refresh, Progress
    <3> QED BY <1>6, <3>1, <3>2, <3>3, <3>4, <3>5
  <2>3. s \in Request
    OBVIOUS
  <2> QED BY <2>1, <2>2, <2>3 DEF StaysScan, Goto, Finish, progress, Types
<1>7. ASSUME Commit(s) \/ Settle(s) PROVE s \in Purger
  BY <1>7, KindsApart DEF Commit, Settle, Sending, Settling, Progress
<1>8. ASSUME Tick \/ UNCHANGED vars PROVE StaysScan(s)
  BY <1>8 DEF Tick, vars, scan, purge, progress, change, StaysScan
<1> QED BY <1>1, <1>2, <1>3, <1>4, <1>5, <1>6, <1>7, <1>8 DEF Next

\* Lemma: what a page holds of a contact that is ahead of the scan.
LEMMA PageHolds ==
  ASSUME Types, NEW s \in Scanner, NEW listed \in SUBSET Visitor, Listed(s, listed),
         NEW place \in Boundary(s, Given(s, listed)),
         cursor' = [cursor EXCEPT ![s] = place], UNCHANGED rows, NEW id \in Visitor
  PROVE  /\ id \in Given(s, listed) <=> id \in listed /\ id \in Ahead(s)
         /\ id \in Ahead(s) /\ id \notin listed => id \in Ahead(s)' /\ Further(s, listed)
<1>1. cursor[s] \in Place \cup {None} /\ cursor'[s] = place
  BY DEF Types
<1>2. ASSUME NEW i \in listed
      PROVE  i \in Given(s, listed) <=> i \in Ahead(s)
  <2>1. i \in Visitor /\ i \in Present /\ PlaceOf(i) \in Place
    BY PlaceTypes DEF Listed, Ahead, Repeated, Present
  <2>2. cursor[s] # None => (StrictlyAfter(PlaceOf(i), cursor[s]) <=> Precedes(cursor[s], PlaceOf(i)))
    BY <1>1, <2>1, KeysOrdered
  <2> QED BY <2>1, <2>2 DEF Given, Ahead
<1>3. id \in Given(s, listed) <=> id \in listed /\ id \in Ahead(s)
  BY <1>2 DEF Given
<1>4. ASSUME id \in Ahead(s), id \notin listed PROVE id \in Ahead(s)'
  <2>1. CASE Given(s, listed) = {}
    BY <1>1, <1>4, <2>1 DEF Boundary, Ahead, Present, PlaceOf
  <2>2. CASE Given(s, listed) # {}
    <3>1. PICK i \in Given(s, listed) : place = PlaceOf(i)
      BY <2>2 DEF Boundary
    <3>2. Precedes(place, PlaceOf(id))
      BY <1>4, <3>1 DEF Listed, Given
    <3>3. Precedes(place, PlaceOf(id)')
      BY <3>2 DEF PlaceOf
    <3> QED BY <1>1, <1>4, <3>3 DEF Ahead, Present
  <2> QED BY <2>1, <2>2
<1> QED BY <1>3, <1>4 DEF Further

\* Lemma: a scan begins at the start and with contacts that are there.
LEMMA ScansBeginHold ==
  ASSUME Types, Progress, Calls, RowsWritten, ScansBegin, [Next]_vars
  PROVE  ScansBegin'
<1> SUFFICES ASSUME NEW s \in Scanner
             PROVE  /\ pc'[s] = "idle" => cursor'[s] = None
                    /\ \A id \in steady'[s] : rows'[id] # None
  BY DEF ScansBegin
<1> USE DEF Request, Scanner
<1>1. ASSUME pc'[s] = "idle" PROVE cursor'[s] = None
  <2>1. pc[s] = "idle" /\ cursor[s] = None
    BY <1>1, EndsStay DEF ScansBegin
  <2>2. StaysScan(s) \/ Begin(s)
    BY <2>1, ScansMove DEF Lists, DeleteCompares, Commit, Sending, Settle, Settling
  <2> QED BY <2>1, <2>2 DEF StaysScan, Begin
<1>2. ASSUME NEW id \in steady'[s] PROVE rows'[id] # None
  <2>1. CASE Begin(s)
    BY <1>2, <2>1 DEF Begin, Present, Types
  <2>2. CASE ~Begin(s)
    BY <1>2, <2>2, SteadyKept
  <2> QED BY <2>1, <2>2
<1> QED BY <1>1, <1>2

\* Lemma: what a purger owes stays before it until it is deleted.
LEMMA PurgesReachHold ==
  ASSUME Types, Progress, Calls, RowsWritten, ScansBegin, PurgesReach, [Next]_vars
  PROVE  PurgesReach'
<1> SUFFICES ASSUME NEW p \in Purger, NEW id \in steady'[p], Due(rows'[id].contact, cutoff'[p])
             PROVE  /\ answer'[p] # "ok"
                    /\ pc'[p] = "list" => id \in Ahead(p)'
                    /\ pc'[p] \in {"find", "delete", "settleDelete"} =>
                         OnPage(p, id)' \/ (more'[p] /\ id \in Ahead(p)')
  BY DEF PurgesReach
<1> USE DEF Request, Scanner
<1>1. CASE Begin(p)
  <2>1. pc[p] = "idle" /\ pc'[p] = "list" /\ cursor'[p] = None /\ answer'[p] # "ok"
    BY <1>1 DEF Begin, BeginPurge, BeginView, Goto, ScansBegin, Progress, Types
  <2>2. id \in Ahead(p)'
    BY <1>1, <2>1 DEF Begin, Ahead, Present, Types
  <2> QED BY <2>1, <2>2
<1> SUFFICES ASSUME ~Begin(p)
             PROVE  /\ answer'[p] # "ok"
                    /\ pc'[p] = "list" => id \in Ahead(p)'
                    /\ pc'[p] \in {"find", "delete", "settleDelete"} =>
                         OnPage(p, id)' \/ (more'[p] /\ id \in Ahead(p)')
  BY <1>1
<1>2. id \in steady[p] /\ id \in Visitor /\ rows[id] # None /\ rows'[id] = rows[id]
  BY SteadyKept
<1>3. cutoff'[p] = cutoff[p]
  BY CallsKept, KindsApart DEF DeleteCompares, KeepsCall
<1>4. Due(rows[id].contact, cutoff[p])
  BY <1>2, <1>3
<1>5. /\ answer[p] # "ok"
      /\ pc[p] = "list" => id \in Ahead(p)
      /\ pc[p] \in {"find", "delete", "settleDelete"} =>
           OnPage(p, id) \/ (more[p] /\ id \in Ahead(p))
  BY <1>2, <1>4 DEF PurgesReach
<1>6. cursor'[p] = cursor[p] /\ id \in Ahead(p) => id \in Ahead(p)'
  BY <1>2 DEF Ahead, Present, PlaceOf
<1>7. CASE Lists(p)
  <2>1. PICK listed \in SUBSET Visitor :
          /\ Listed(p, listed)
          /\ cursor' \in {[cursor EXCEPT ![p] = place] : place \in Boundary(p, Given(p, listed))}
          /\ PurgerLists(p, listed) \/ ViewerLists(p, listed) \/ Stuck(p)
    BY <1>7 DEF Lists
  <2>2. PICK place \in Boundary(p, Given(p, listed)) : cursor' = [cursor EXCEPT ![p] = place]
    BY <2>1
  <2>3. UNCHANGED rows /\ id \in Ahead(p)
    BY <1>5, <1>7 DEF Lists, table
  <2>4. CASE Stuck(p)
    BY <2>4 DEF Stuck, Finish, Goto, Types
  <2>5. CASE PurgerLists(p, listed)
    <3>1. page'[p] = ToPurge(p, Given(p, listed)) /\ more'[p] = Further(p, listed)
      BY <2>5 DEF PurgerLists, Types
    <3>2. \/ page'[p] = {} /\ PageDone(p, more'[p])
          \/ page'[p] # {} /\ Goto(p, "find") /\ UNCHANGED answer
      BY <2>5, Zenon DEF PurgerLists
    <3>3. CASE id \in listed
      <4>1. id \in Given(p, listed)
        BY <2>1, <2>2, <2>3, <3>3, <1>2, PageHolds
      <4>2. [place |-> PlaceOf(id), etag |-> rows[id].etag] \in page'[p]
        BY <1>4, <3>1, <4>1 DEF ToPurge
      <4>3. PlaceOf(id).id = id
        BY DEF PlaceOf
      <4>4. \E entry \in page'[p] : entry.place.id = id
        BY <4>2, <4>3
      <4> QED BY <1>5, <3>2, <4>2, <4>4 DEF Goto, OnPage, Types
    <3>4. CASE id \notin listed
      <4>1. id \in Ahead(p)' /\ Further(p, listed)
        BY <2>1, <2>2, <2>3, <3>4, <1>2, PageHolds
      <4>2. answer'[p] # "ok"
        BY <1>5, <3>1, <3>2, <4>1 DEF PageDone
      <4> QED BY <3>1, <4>1, <4>2
    <3> QED BY <3>3, <3>4
  <2>6. ~ViewerLists(p, listed)
    BY KindsApart DEF ViewerLists
  <2> QED BY <2>1, <2>4, <2>5, <2>6
<1>8. CASE DeleteCompares(p)
  <2>1. PICK entry \in page[p] :
          /\ page' = [page EXCEPT ![p] = @ \ {entry}]
          /\ LET wanted == [action |-> "delete", id |-> entry.place.id, etag |-> entry.etag] IN
             call' = [call EXCEPT ![p] = wanted] /\ Compares(p, wanted, "delete")
    BY <1>8 DEF DeleteCompares
  <2>2. pc[p] = "find" /\ UNCHANGED <<cursor, more>>
    BY <1>8 DEF DeleteCompares
  <2>3. page'[p] = page[p] \ {entry} /\ call'[p].id = entry.place.id
    BY <2>1 DEF Types
  <2>4. \/ pc'[p] = "delete" /\ answer'[p] = answer[p]
        \/ pc'[p] = "done" /\ answer'[p] # "ok"
    BY <2>1 DEF Compares, Goto, Finish, Types
  <2>5. OnPage(p, id) => (\E other \in page[p] : other.place.id = id)
    BY <2>2 DEF OnPage
  <2> QED BY <1>5, <1>6, <2>2, <2>3, <2>4, <2>5 DEF OnPage
<1>9. ASSUME Commit(p) \/ Settle(p)
      PROVE  /\ pc[p] \in {"delete", "settleDelete"}
             /\ \/ Deleted(p) /\ id # call[p].id
                \/ \E reply : reply # "ok" /\ Finish(p, reply)
  <2>1. CASE Commit(p)
    <3>1. Sending(p) /\ Apply(p) /\ Deleted(p)
      BY <2>1, KindsApart DEF Commit
    <3>2. pc[p] = "delete"
      BY <3>1, SendersFresh
    <3> QED BY <3>1, <3>2 DEF Apply
  <2>2. CASE Settle(p)
    <3>1. Settling(p) /\ pc[p] = "settleDelete"
      BY <2>2, KindsApart DEF Settle, Settling, Progress
    <3>2. SettleDelete(p)
      BY <2>2, <3>1 DEF Settle
    <3> QED BY <1>2, <3>1, <3>2 DEF SettleDelete
  <2> QED BY <1>9, <2>1, <2>2
<1>10. ASSUME Commit(p) \/ Settle(p)
       PROVE  /\ answer'[p] # "ok"
              /\ pc'[p] = "list" => id \in Ahead(p)'
              /\ pc'[p] \in {"find", "delete", "settleDelete"} =>
                   OnPage(p, id)' \/ (more'[p] /\ id \in Ahead(p)')
  <2>1. UNCHANGED <<page, more, cursor>>
    BY <1>10 DEF Commit, Settle, scan, purge
  <2>2. CASE Deleted(p) /\ id # call[p].id
    <3>1. (\E entry \in page[p] : entry.place.id = id) \/ (more[p] /\ id \in Ahead(p))
      BY <1>5, <1>9, <1>10, <2>2 DEF OnPage
    <3>2. CASE page[p] = {}
      <4>1. Goto(p, "list") /\ UNCHANGED answer
        BY <2>2, <3>1, <3>2 DEF Deleted, PageDone
      <4> QED BY <1>5, <1>6, <2>1, <3>1, <3>2, <4>1 DEF Goto, Types
    <3>3. CASE page[p] # {}
      <4>1. Goto(p, "find") /\ UNCHANGED answer
        BY <2>2, <3>3 DEF Deleted
      <4> QED BY <1>5, <1>6, <2>1, <3>1, <4>1 DEF Goto, OnPage, Types
    <3> QED BY <3>2, <3>3
  <2>3. ASSUME NEW reply, reply # "ok", Finish(p, reply)
        PROVE  answer'[p] # "ok" /\ pc'[p] = "done"
    BY <2>3 DEF Finish, Goto, Types
  <2> QED BY <1>9, <1>10, <2>2, <2>3
<1>11. CASE StaysScan(p)
  <2>1. cursor'[p] = cursor[p] /\ page'[p] = page[p] /\ more'[p] = more[p] /\ call'[p] = call[p]
    BY <1>11 DEF StaysScan
  <2>2. OnPage(p, id) /\ (pc[p] = "find" => pc'[p] \in {"find", "done"})
                      /\ (pc[p] \in {"delete", "settleDelete"} =>
                            pc'[p] \in {"delete", "settleDelete"})
          => OnPage(p, id)'
    BY <2>1 DEF OnPage
  <2> QED BY <1>5, <1>6, <1>11, <2>1, <2>2 DEF StaysScan
<1> QED BY <1>7, <1>8, <1>10, <1>11, ScansMove

\* Lemma: what a viewer's page changes of what it has been given.
LEMMA ViewsPage ==
  ASSUME Types, NEW v \in Viewer, Lists(v)
  PROVE  \/ /\ UNCHANGED shown /\ pc'[v] = "done" /\ answer'[v] # "ok"
            /\ cursor'[v] = cursor[v]
         \/ \E listed \in SUBSET Visitor :
              \E place \in Boundary(v, Given(v, listed)) :
                /\ Listed(v, listed)
                /\ cursor' = [cursor EXCEPT ![v] = place]
                /\ PageDone(v, Further(v, listed))
                /\ \A id \in Visitor : shown'[v][id] =
                     IF id \in Given(v, listed) /\ Matches(rows[id].contact, filter[v], Reading(v))
                       THEN shown[v][id] + 1 ELSE shown[v][id]
<1>1. PICK listed \in SUBSET Visitor :
        /\ Listed(v, listed)
        /\ cursor' \in {[cursor EXCEPT ![v] = place] : place \in Boundary(v, Given(v, listed))}
        /\ \/ PurgerLists(v, listed) \/ ViewerLists(v, listed)
           \/ listed \subseteq Repeated(v) /\ Stuck(v)
  BY DEF Lists
<1>2. PICK place \in Boundary(v, Given(v, listed)) : cursor' = [cursor EXCEPT ![v] = place]
  BY <1>1
<1>3. CASE ViewerLists(v, listed)
  <2>1. PageDone(v, Further(v, listed))
    BY <1>3, Zenon DEF ViewerLists
  <2>2. ASSUME NEW id \in Visitor
        PROVE  shown'[v][id] =
                 IF id \in Given(v, listed) /\ Matches(rows[id].contact, filter[v], Reading(v))
                   THEN shown[v][id] + 1 ELSE shown[v][id]
    <3> DEFINE counts == [i \in Visitor |->
                 IF i \in Given(v, listed) /\ Matches(rows[i].contact, filter[v], Reading(v))
                   THEN shown[v][i] + 1 ELSE shown[v][i]]
    <3>1. shown' = [shown EXCEPT ![v] = counts]
      BY <1>3, Zenon DEF ViewerLists
    <3>2. shown'[v] = counts
      BY <3>1 DEF Types
    <3> QED BY <3>2, Zenon
  <2> QED BY <1>1, <1>2, <2>1, <2>2
<1>4. CASE listed \subseteq Repeated(v) /\ Stuck(v)
  <2>1. pc'[v] = "done" /\ answer'[v] # "ok" /\ UNCHANGED shown
    BY <1>4 DEF Stuck, Finish, Goto, Types, Request, Scanner
  <2>2. Given(v, listed) = {}
    <3> SUFFICES ASSUME NEW id \in Given(v, listed) PROVE FALSE
      OBVIOUS
    <3>1. PlaceOf(id) = cursor[v] /\ id \in Visitor /\ rows[id] # None
      BY <1>4 DEF Given, Repeated, Present
    <3>2. PlaceOf(id) \in Place
      BY <3>1, PlaceTypes
    <3>3. StrictlyAfter(PlaceOf(id), PlaceOf(id))
      BY <3>1, <3>2, NoneAssumption DEF Given
    <3> QED BY <3>2, <3>3, KeysOrdered
  <2>3. cursor'[v] = cursor[v]
    BY <1>2, <2>2 DEF Boundary, Types, Scanner
  <2> QED BY <2>1, <2>3
<1>5. ~PurgerLists(v, listed)
  BY KindsApart DEF PurgerLists
<1> QED BY <1>1, <1>3, <1>4, <1>5

\* Lemma: a row's place is where the contact was put at its creation.
LEMMA RowsInPlace ==
  ASSUME RowsWritten, NEW id \in Visitor, rows[id] # None
  PROVE  PlaceOf(id) = KeyOf(id) /\ id \in landed
BY DEF RowsWritten, WrittenByItsCall, PlaceOf, KeyOf

\* Lemma: a contact is given once.
LEMMA GivenOnceHold ==
  ASSUME Types, Progress, Calls, RowsWritten, ScansBegin, GivenOnce, [Next]_vars
  PROVE  GivenOnce'
<1> SUFFICES ASSUME NEW v \in Viewer, NEW id \in Visitor
             PROVE  /\ shown'[v][id] \in {0, 1}
                    /\ shown'[v][id] = 1 => /\ id \in landed' /\ cursor'[v] # None
                                            /\ ~Precedes(cursor'[v], KeyOf(id)')
  BY DEF GivenOnce
<1> USE DEF Request, Scanner
<1>1. id \in landed => id \in landed' /\ KeyOf(id)' = KeyOf(id) /\ KeyOf(id) \in Place
  <2>1. id \in landed => desired[id].created \in Nat
    BY SubmittedContact DEF Calls, Called, Types
  <2> QED BY <2>1, LandedKeepCalls DEF KeyOf, Writer, Place
<1>2. CASE shown'[v] = shown[v] /\ cursor'[v] = cursor[v]
  BY <1>1, <1>2 DEF GivenOnce
<1>3. CASE Lists(v)
  <2>1. CASE UNCHANGED shown /\ cursor'[v] = cursor[v]
    BY <1>2, <2>1
  <2>2. ASSUME NEW listed \in SUBSET Visitor, NEW place \in Boundary(v, Given(v, listed)),
               Listed(v, listed), cursor' = [cursor EXCEPT ![v] = place],
               shown'[v][id] =
                 IF id \in Given(v, listed) /\ Matches(rows[id].contact, filter[v], Reading(v))
                   THEN shown[v][id] + 1 ELSE shown[v][id]
        PROVE  /\ shown'[v][id] \in {0, 1}
               /\ shown'[v][id] = 1 => /\ id \in landed' /\ cursor'[v] # None
                                       /\ ~Precedes(cursor'[v], KeyOf(id)')
    <3> DEFINE given == Given(v, listed)
    <3>0. UNCHANGED <<rows, landed>> /\ cursor'[v] = place /\ cursor[v] \in Place \cup {None}
      BY <1>3, <2>2 DEF Lists, table, Types
    <3>1. \A i \in given :
            /\ i \in Visitor /\ rows[i] # None /\ PlaceOf(i) \in Place /\ i \in Ahead(v)
            /\ PlaceOf(i) = KeyOf(i) /\ i \in landed
      <4>1. \A i \in given : i \in Visitor /\ rows[i] # None /\ i \in Ahead(v)
        BY <2>2, <3>0, PageHolds DEF Given, Listed, Ahead, Repeated, Present
      <4> HIDE DEF given
      <4> QED BY <4>1, PlaceTypes, RowsInPlace
    <3>2. CASE given = {}
      <4>1. place = cursor[v] /\ shown'[v][id] = shown[v][id]
        BY <2>2, <3>2 DEF Boundary
      <4> QED BY <1>1, <3>0, <4>1 DEF GivenOnce
    <3>3. CASE given # {}
      <4>1. PICK last \in given :
              place = PlaceOf(last) /\ \A i \in given \ {last} : Precedes(PlaceOf(i), PlaceOf(last))
        BY <3>3 DEF Boundary
      <4>2. place \in Place /\ place # None
        BY <3>1, <4>1, NoneAssumption
      <4>3. ASSUME id \in given PROVE shown[v][id] = 0 /\ ~Precedes(place, KeyOf(id))
        <5>1. cursor[v] = None \/ Precedes(cursor[v], KeyOf(id))
          BY <3>1, <4>3 DEF Ahead
        <5>2. shown[v][id] = 0
          BY <5>1 DEF GivenOnce
        <5>3. id = last \/ Precedes(KeyOf(id), place)
          BY <3>1, <4>1, <4>3
        <5>4. KeyOf(id) \in Place /\ (id = last => KeyOf(id) = place)
          BY <3>1, <4>1, <4>3
        <5> HIDE DEF given
        <5> QED BY <4>2, <5>2, <5>3, <5>4, KeysOrdered
      <4>4. ASSUME id \notin given, shown[v][id] = 1
            PROVE  id \in landed /\ ~Precedes(place, KeyOf(id))
        <5>1. id \in landed /\ cursor[v] # None /\ ~Precedes(cursor[v], KeyOf(id))
          BY <4>4 DEF GivenOnce
        <5>2. Precedes(cursor[v], place)
          BY <3>1, <4>1, <5>1 DEF Ahead
        <5> QED BY <1>1, <3>0, <4>2, <5>1, <5>2, KeysOrdered
      <4>5. shown[v][id] \in {0, 1}
        BY DEF GivenOnce
      <4>6. CASE id \in given
        <5>1. shown'[v][id] \in {0, 1}
          BY <2>2, <4>3, <4>6
        <5> HIDE DEF given
        <5> QED BY <1>1, <3>0, <3>1, <4>2, <4>3, <4>6, <5>1
      <4>7. CASE id \notin given
        <5>1. shown'[v][id] = shown[v][id]
          BY <2>2, <4>7
        <5> HIDE DEF given
        <5> QED BY <1>1, <3>0, <4>2, <4>4, <4>5, <4>7, <5>1
      <4> QED BY <4>6, <4>7
    <3> QED BY <3>2, <3>3
  <2> QED BY <1>3, <2>1, <2>2, ViewsPage
<1>4. CASE Begin(v)
  <2>1. UNCHANGED <<shown, cursor>>
    BY <1>4 DEF Begin
  <2> QED BY <1>2, <2>1
<1> QED BY <1>2, <1>3, <1>4, ScansMove, KindsApart DEF StaysScan

\* Lemma: what nobody touches is decided once it is no longer ahead.
LEMMA ViewsReachHold ==
  ASSUME Types, Progress, Calls, RowsWritten, ScansBegin, GivenOnce, ViewsReach, [Next]_vars
  PROVE  ViewsReach'
<1> SUFFICES ASSUME NEW v \in Viewer, NEW id \in steady'[v], ~filter'[v].retentionReview,
                    pc'[v] = "list" \/ answer'[v] = "ok"
             PROVE  \/ pc'[v] = "list" /\ id \in Ahead(v)'
                    \/ shown'[v][id] = 1 <=> Matches(rows'[id].contact, filter'[v], now')
  BY DEF ViewsReach
<1> USE DEF Request, Scanner
<1>1. CASE Begin(v)
  <2>1. pc[v] = "idle" /\ pc'[v] = "list" /\ cursor'[v] = None
    BY <1>1 DEF Begin, BeginPurge, BeginView, Goto, ScansBegin, Types
  <2> QED BY <1>1, <2>1 DEF Begin, Ahead, Present, Types
<1>2. CASE ~Begin(v)
  <2>1. id \in steady[v] /\ id \in Visitor /\ rows[id] # None /\ rows'[id] = rows[id]
    BY <1>2, SteadyKept
  <2>2. ASSUME NEW options, ~options.retentionReview, NEW time, NEW other
        PROVE  Matches(rows[id].contact, options, time) <=> Matches(rows[id].contact, options, other)
    BY <2>2 DEF Matches
  <2>3. CASE StaysScan(v)
    <3>1. /\ shown'[v] = shown[v] /\ filter'[v] = filter[v] /\ cursor'[v] = cursor[v]
          /\ answer'[v] = answer[v] /\ pc'[v] = pc[v]
      BY <2>3, KindsApart DEF StaysScan, Progress
    <3>2. id \in Ahead(v) => id \in Ahead(v)'
      BY <2>1, <3>1 DEF Ahead, Present, PlaceOf
    <3>3. \/ pc[v] = "list" /\ id \in Ahead(v)
          \/ shown[v][id] = 1 <=> Matches(rows[id].contact, filter[v], now)
      BY <2>1, <3>1 DEF ViewsReach
    <3>4. Matches(rows[id].contact, filter[v], now) <=> Matches(rows[id].contact, filter[v], now')
      BY <2>2, <3>1
    <3> QED BY <2>1, <3>1, <3>2, <3>3, <3>4
  <2>4. CASE Lists(v)
    <3>0. UNCHANGED <<rows, filter, now>> /\ pc[v] = "list"
      BY <2>4 DEF Lists, table
    <3>1. CASE pc'[v] = "done" /\ answer'[v] # "ok"
      BY <3>1
    <3>2. ASSUME NEW listed \in SUBSET Visitor, NEW place \in Boundary(v, Given(v, listed)),
                 Listed(v, listed), cursor' = [cursor EXCEPT ![v] = place],
                 PageDone(v, Further(v, listed)),
                 shown'[v][id] =
                   IF id \in Given(v, listed) /\ Matches(rows[id].contact, filter[v], Reading(v))
                     THEN shown[v][id] + 1 ELSE shown[v][id]
          PROVE  \/ pc'[v] = "list" /\ id \in Ahead(v)'
                 \/ shown'[v][id] = 1 <=> Matches(rows'[id].contact, filter'[v], now')
      <4>1. /\ id \in Given(v, listed) <=> id \in listed /\ id \in Ahead(v)
            /\ id \in Ahead(v) /\ id \notin listed => id \in Ahead(v)' /\ Further(v, listed)
        BY <2>1, <3>0, <3>2, PageHolds
      <4>2. Further(v, listed) => pc'[v] = "list"
        BY <3>2 DEF PageDone, Goto, Types
      <4>3. Matches(rows[id].contact, filter[v], Reading(v)) <=>
              Matches(rows'[id].contact, filter'[v], now')
        BY <2>1, <2>2, <3>0
      <4>4. CASE id \in Ahead(v) /\ id \in listed
        <5>1. cursor[v] = None \/ Precedes(cursor[v], KeyOf(id))
          BY <2>1, <4>4, RowsInPlace DEF Ahead
        <5>2. shown[v][id] = 0
          BY <2>1, <5>1 DEF GivenOnce
        <5> QED BY <3>2, <4>1, <4>3, <4>4, <5>2
      <4>5. CASE id \in Ahead(v) /\ id \notin listed
        BY <4>1, <4>2, <4>5
      <4>6. CASE id \notin Ahead(v)
        <5>1. shown[v][id] = 1 <=> Matches(rows[id].contact, filter[v], now)
          BY <2>1, <3>0, <4>6 DEF ViewsReach
        <5>2. shown'[v][id] = shown[v][id]
          BY <3>2, <4>1, <4>6
        <5> QED BY <3>0, <5>1, <5>2
      <4> QED BY <4>4, <4>5, <4>6
    <3> QED BY <2>1, <2>4, <3>1, <3>2, ViewsPage
  <2> QED BY <1>2, <2>3, <2>4, ScansMove, KindsApart
<1> QED BY <1>1, <1>2

-----------------------------------------------------------------------------
(* Theorems *)

Inv ==
  /\ Types /\ Progress /\ Calls /\ RowsWritten /\ RowsValid /\ EditsApt /\ PurgesApt
  /\ SubmissionsShort /\ OutcomesKnown /\ Answered /\ ScansBegin /\ PurgesReach /\ GivenOnce
  /\ ViewsReach

\* Lemma: the invariant holds at first.
LEMMA InvHoldsAtFirst == Init => Inv
<1> SUFFICES ASSUME Init PROVE Inv
  OBVIOUS
<1> USE DEF Request, Scanner, Writer
<1>1. Progress /\ SubmissionsShort /\ OutcomesKnown /\ Answered
  BY DEF Init, Progress, SubmissionsShort, OutcomesKnown, Answered, Unsent
<1>2. Calls
  BY DEF Init, Calls, Called, Computed, Deleting
<1>3. RowsWritten /\ RowsValid /\ EditsApt /\ PurgesApt
  BY DEF Init, RowsWritten, RowsValid, EditsApt, PurgesApt, Called, Computed, Deleting
<1>4. ScansBegin /\ PurgesReach /\ GivenOnce /\ ViewsReach
  BY DEF Init, ScansBegin, PurgesReach, GivenOnce, ViewsReach
<1> QED BY <1>1, <1>2, <1>3, <1>4, TypesHoldAtFirst DEF Inv

\* Lemma: the invariant always holds.
LEMMA InvHolds == Spec => []Inv
<1>1. Inv /\ [Next]_vars => Inv'
  BY TypesHold, ProgressHolds, CallsHold, RowsWrittenHold, RowsValidHold, EditsAptHold,
     PurgesAptHold, SubmissionsShortHold, OutcomesKnownHold, AnsweredHold, ScansBeginHold,
     PurgesReachHold, GivenOnceHold, ViewsReachHold DEF Inv
<1> QED BY <1>1, InvHoldsAtFirst, PTL DEF Spec

\* Theorem: every variable has its type and every row of the table is a valid
\* contact, however far the editors' clocks are behind.
THEOREM ContactsTypeCorrect == Spec => []TypeOK
<1>1. Inv => TypeOK
  BY DEF Inv, TypeOK
<1> QED BY <1>1, InvHolds, PTL

\* Theorem: if no change lands after its request has ended, "ok" means that the
\* visitor's or editor's change is stored, and every answer that invites to try
\* again that it is not.
THEOREM AnswersCorrect == ASSUME ~LateDelivery PROVE Spec => []AnswersTrue
<1>1. Inv => AnswersTrue
  BY SMTT(30) DEF Inv, Answered, AnswersTrue, Writer
<1> QED BY <1>1, InvHolds, PTL

\* Theorem: a purge that reports success leaves no contact that was due by its
\* cutoff when it began and that nobody has touched since, however many pages it
\* reads and whatever is created, changed, deleted or unanswered between them.
THEOREM DueContactsPurged == Spec => []PurgeComplete
<1>1. Inv => PurgeComplete
  BY DEF Inv, PurgesReach, PurgeComplete
<1> QED BY <1>1, InvHolds, PTL

\* Theorem: a scan that succeeds gives no contact twice, and exactly the untouched
\* contacts its filter lets through.
THEOREM ScansExact == Spec => []PagesExact
<1>1. Inv => PagesExact
  <2> SUFFICES ASSUME Inv, NEW v \in Viewer, answer[v] = "ok"
               PROVE  /\ \A id \in Visitor : shown[v][id] <= 1
                      /\ \A id \in steady[v] : ~filter[v].retentionReview =>
                           (shown[v][id] = 1 <=> Matches(rows[id].contact, filter[v], now))
    BY DEF PagesExact
  <2>1. \A id \in Visitor : shown[v][id] <= 1
    BY DEF Inv, GivenOnce
  <2>2. pc[v] # "list"
    BY DEF Inv, Progress, Request, Scanner
  <2> QED BY <2>1, <2>2 DEF Inv, ViewsReach
<1> QED BY <1>1, InvHolds, PTL

\* Theorem: a contact changes only from the version the administrator saw, by the
\* action asked for, and along the table of transitions, whatever is unanswered,
\* late or lost.
THEOREM ChangesCorrect == Spec => ChangesFollowTheRules
<1> DEFINE Follows ==
      \A id \in Visitor :
       rows[id] # None /\ rows'[id] # None /\ rows'[id] # rows[id] =>
         LET e == rows'[id].by IN
         /\ e \in Editor /\ call[e].etag = rows[id].etag
         /\ rows'[id].contact =
              Result(call[e].action, rows[id].contact, rows'[id].contact.updated)
         /\ ValidTransition(rows[id].contact.state, rows'[id].contact.state)
         /\ Valid(rows'[id].contact)
<1>1. Inv /\ [Next]_vars => [Follows]_vars
  <2> SUFFICES ASSUME Inv, [Next]_vars, NEW id \in Visitor,
                      rows[id] # None, rows'[id] # None, rows'[id] # rows[id]
               PROVE  LET e == rows'[id].by IN
                      /\ e \in Editor /\ call[e].etag = rows[id].etag
                      /\ rows'[id].contact =
                           Result(call[e].action, rows[id].contact, rows'[id].contact.updated)
                      /\ ValidTransition(rows[id].contact.state, rows'[id].contact.state)
                      /\ Valid(rows'[id].contact)
    OBVIOUS
  <2> USE DEF Request
  <2>1. Types /\ Progress /\ Calls /\ RowsWritten /\ EditsApt
    BY DEF Inv
  <2>2. PICK r \in Request : (Sending(r) \/ r \in inflight) /\ Apply(r)
    BY <2>1, TableChanges
  <2>3. id = call[r].id /\ r \in Editor
    BY <2>1, <2>2, ApplyRow
  <2>4. /\ Current(id, call[r].etag)
        /\ rows'[id] = [contact |-> desired[r], by |-> r, etag |-> call[r].etag + 1]
    BY <2>1, <2>2, <2>3, ApplyRow
  <2>5. Computed(r)
    BY <2>1, <2>2, <2>3, SendersFresh DEF Computed
  <2>6. PICK time \in 0..now : desired[r] = Result(call[r].action, rows[id].contact, time)
    BY <2>1, <2>3, <2>4, <2>5, EditWrites
  <2>7. ValidTransition(rows[id].contact.state, desired[r].state) /\ Valid(desired[r])
    BY <2>1, <2>3, <2>4, <2>5, EditWrites
  <2>8. desired[r].updated = time
    <3>1. call[r].action \in Action /\ rows[id].contact \in Contact /\ time \in Nat
      BY <2>1, <2>3, <2>5, <2>6, CallTypes, PlaceTypes, TimePasses
    <3> DEFINE made == Result(call[r].action, rows[id].contact, time)
    <3>2. made.updated = time
      BY <3>1, ResultContact
    <3>3. desired[r] = made
      BY <2>6
    <3> HIDE DEF made
    <3> QED BY <3>2, <3>3
  <2> QED BY <2>3, <2>4, <2>6, <2>7, <2>8 DEF Current
<1> QED BY <1>1, InvHolds, PTL DEF Spec, ChangesFollowTheRules
\* Lemma: the book's records are those of the table.
LEMMA BookRecords ==
  /\ Book!Action = Action
  /\ \A contact, cutoffTime : Book!Due(contact, cutoffTime) <=> Due(contact, cutoffTime)
  /\ \A time : Book!Submitted(time) = Submitted(time)
  /\ \A contact : Book!Valid(contact) <=> Valid(contact)
  /\ \A action, contact : Book!Possible(action, contact) = Possible(action, contact)
  /\ \A action, contact, time :
       Book!Result(action, contact, time) = Result(action, contact, time)
<1>1. Book!Action = Action
  BY DEF Book!Action, Action
<1>2. \A contact, cutoffTime : Book!Due(contact, cutoffTime) <=> Due(contact, cutoffTime)
  BY DEF Book!Due, Due
<1>3. \A time : Book!Submitted(time) = Submitted(time)
  BY DEF Book!Submitted, Submitted
<1>4. \A contact : Book!Valid(contact) <=> Valid(contact)
  BY DEF Book!Valid, Valid
<1>5. \A action, contact : Book!Possible(action, contact) = Possible(action, contact)
  BY DEF Book!Possible, Possible
<1>6. \A action, contact, time :
        Book!Result(action, contact, time) = Result(action, contact, time)
  BY DEF Book!Result, Result, Book!Opened, Opened, Book!Archived, Archived, Book!Restored,
         Restored, Book!DeletionScheduled, DeletionScheduled, Book!DeletionCancelled,
         DeletionCancelled
<1> QED BY <1>1, <1>2, <1>3, <1>4, <1>5, <1>6

\* Lemma: a step is a step of the book, or leaves it alone.
LEMMA BookSteps == Inv /\ [Next]_vars => [Book!BookNext]_(Book!bookVars)
<1> DEFINE book == [id \in Visitor |-> IF rows[id] = None THEN None ELSE rows[id].contact]
<1> SUFFICES ASSUME Inv, [Next]_vars
             PROVE  (now' = now + 1 /\ book' = book) \/ (now' = now /\ book' = book)
                    \/ \E id \in Visitor : Book!Create(id) \/ Book!Update(id) \/ Book!Delete(id)
  BY DEF Book!BookNext, Book!bookVars, Book!Tick
<1> USE DEF Request
<1>1. Types /\ Progress /\ Calls /\ RowsWritten /\ EditsApt /\ PurgesApt
  BY DEF Inv
<1>2. CASE UNCHANGED <<rows, landed>>
  BY <1>1, <1>2, TimePasses DEF Tick
<1>3. ASSUME NEW r \in Request, Sending(r) \/ r \in inflight, Apply(r)
      PROVE  \E id \in Visitor : Book!Create(id) \/ Book!Update(id) \/ Book!Delete(id)
  <2>0. PICK id \in Visitor : id = call[r].id
    BY <1>1, <1>3, ApplyRow
  <2>1. /\ id = call[r].id /\ now' = now /\ rows'[id] = Written(r)
        /\ \A other \in Visitor : other # id => rows'[other] = rows[other]
    BY <1>1, <1>3, <2>0, ApplyRow DEF Apply
  <2>2. book' = [book EXCEPT ![id] = IF Written(r) = None THEN None ELSE Written(r).contact]
    BY <2>1
  <2>3. book[id] = IF rows[id] = None THEN None ELSE rows[id].contact
    BY <2>1
  <2>4. rows[id] # None => rows[id].contact # None
    BY <1>1, <2>1, PlaceTypes, NoneAssumption
  <2>5. CASE r \in Visitor
    <3>1. /\ id = r /\ rows[id] = None
          /\ Written(r) = [contact |-> desired[r], by |-> r, etag |-> 1]
      BY <1>1, <1>3, <2>1, <2>5, ApplyRow
    <3>2. Written(r) # None
      <4>1. desired[r] \in Contact
        BY <1>1, <1>3, <2>5, <3>1, SenderTypes DEF Action
      <4>2. Written(r) \in Row
        BY <2>5, <3>1, <4>1 DEF Row
      <4> QED BY <4>2, NoneAssumption
    <3>3. Called(r)
      BY <1>1, <1>3, <2>5 DEF Progress, Sending, Called
    <3>4. PICK time \in 0..now : desired[r] = Submitted(time)
      BY <1>1, <2>5, <3>3 DEF Calls
    <3>5. book' = [book EXCEPT ![id] = Submitted(time)] /\ book[id] = None
      <4>1. (IF Written(r) = None THEN None ELSE Written(r).contact) = Submitted(time)
        BY <3>1, <3>2, <3>4
      <4> HIDE DEF book
      <4> QED BY <2>2, <2>3, <3>1, <4>1
    <3>6. Book!Create(id)
      BY <2>1, <3>5, BookRecords DEF Book!Create
    <3> QED BY <2>1, <3>6
  <2>6. CASE r \in Editor
    <3>1. /\ Current(id, call[r].etag)
          /\ Written(r) = [contact |-> desired[r], by |-> r, etag |-> call[r].etag + 1]
      BY <1>1, <1>3, <2>1, <2>6, ApplyRow
    <3>2. Computed(r)
      BY <1>1, <1>3, <2>6, SendersFresh DEF Computed
    <3>3. PICK time \in 0..now : desired[r] = Result(call[r].action, rows[id].contact, time)
      BY <1>1, <2>1, <2>6, <3>1, <3>2, EditWrites
    <3>4. Possible(call[r].action, rows[id].contact) /\ Valid(desired[r])
      BY <1>1, <2>1, <2>6, <3>1, <3>2, EditWrites
    <3>5. call[r].action \in Action /\ call[r].etag \in Nat
      BY <1>1, <2>6, <3>2, CallTypes DEF Call
    <3>6. Written(r) # None
      <4>1. desired[r] \in Contact
        BY <1>1, <1>3, <3>5, SenderTypes DEF Action
      <4>2. Written(r) \in Row
        BY <2>6, <3>1, <3>5, <4>1 DEF Row
      <4> QED BY <4>2, NoneAssumption
    <3>7. /\ book[id] = rows[id].contact /\ book[id] # None
          /\ book' = [book EXCEPT ![id] = Result(call[r].action, book[id], time)]
      <4> DEFINE content == IF Written(r) = None THEN None ELSE Written(r).contact
      <4>1. content = desired[r]
        BY <3>1, <3>6
      <4>2. rows[id] # None
        BY <3>1 DEF Current
      <4>3. book' = [book EXCEPT ![id] = content]
        BY <2>2
      <4> HIDE DEF book, content
      <4>4. book[id] = rows[id].contact
        BY <2>3, <4>2
      <4> QED BY <2>4, <3>3, <4>1, <4>2, <4>3, <4>4
    <3>8. PICK action \in Action : action = call[r].action
      BY <3>5
    <3>9. /\ action \in Book!Action /\ Book!Possible(action, book[id])
          /\ Book!Valid(Book!Result(action, book[id], time))
          /\ book' = [book EXCEPT ![id] = Book!Result(action, book[id], time)]
      <4> HIDE DEF book
      <4> QED BY <3>3, <3>4, <3>7, <3>8, BookRecords
    <3>10. Book!Update(id)
      BY <2>1, <3>7, <3>9, ZenonT(60) DEF Book!Update
    <3> QED BY <3>10
  <2>7. CASE r \in Purger
    <3>1. Current(id, call[r].etag) /\ Written(r) = None
      BY <1>1, <1>3, <2>1, <2>7, ApplyRow
    <3>2. Deleting(r)
      BY <1>1, <1>3, <2>7, SendersFresh DEF Deleting
    <3>3. Due(rows[id].contact, cutoff[r]) /\ cutoff[r] <= now
      BY <1>1, <2>1, <2>7, <3>1, <3>2 DEF PurgesApt, PurgeApt, Calls
    <3>4. /\ rows[id].contact.due \in Nat /\ cutoff[r] \in Nat /\ now \in Nat
      BY <1>1, <2>1, <2>7, <3>1, <3>3, PlaceTypes, TimePasses
      DEF Current, Due, Contact, Time, Types
    <3>5. Due(rows[id].contact, now)
      BY <3>3, <3>4 DEF Due
    <3>6. /\ book[id] = rows[id].contact /\ book[id] # None
          /\ book' = [book EXCEPT ![id] = None]
      BY <2>2, <2>3, <2>4, <3>1 DEF Current
    <3>7. Book!Delete(id)
      BY <2>1, <3>5, <3>6, BookRecords DEF Book!Delete
    <3> QED BY <2>1, <3>7
  <2> QED BY <1>1, <1>3, <2>5, <2>6, <2>7, ApplyRow
<1> QED BY <1>1, <1>2, <1>3, TableChanges

\* Theorem: each step of the service on its table is a step of the book in which
\* every operation is atomic, or changes nothing in it.
THEOREM BookImplemented == Spec => StepsImplementBook
BY BookSteps, InvHolds, PTL DEF Spec, StepsImplementBook

\* Theorem: the service on its table implements the book.
THEOREM ContactsImplementBook == Spec => Book!BookSpec
<1>1. Init => Book!BookInit
  BY DEF Init, Book!BookInit
<1> QED BY <1>1, BookSteps, InvHolds, PTL DEF Spec, Book!BookSpec
=============================================================================
