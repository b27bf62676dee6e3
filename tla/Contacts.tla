------------------------------- MODULE Contacts -------------------------------
(***************************************************************************)
(* The contact requests: the contact service on top of the Azure contact    *)
(* table, one step per remote call.  Visitors submit the form, editors      *)
(* change one contact under the ETag they name, purgers delete what is due, *)
(* and viewers (the dashboard, the admin's list) go through the table page  *)
(* by page.  A change may be applied without being answered, and a late one *)
(* after its request has ended.                                             *)
(***************************************************************************)
EXTENDS ContactRecords, Integers, FiniteSets

CONSTANTS
  Visitor,       \* submissions; each is the ID of the contact it creates
  Editor,        \* requests for one of the five actions
  Purger,        \* requests to purge what is due
  Viewer,        \* scans of the whole list, under a filter
  Filter,        \* filters a viewer may use
  PageSize,      \* limit of a page
  Slow,          \* requests served by an instance whose clock is behind
  Skew,          \* by this much
  LateDelivery,  \* whether an unanswered change may land after its request
  MaxTime,       \* bound: the clock stops here
  MaxFaults      \* bound: unanswered calls, failed calls, answers without ETag

Request == Visitor \cup Editor \cup Purger \cup Viewer
Scanner == Purger \cup Viewer

ASSUME KindAssumption ==
  /\ Visitor \subseteq Nat
  /\ Visitor \cap (Editor \cup Scanner) = {}
  /\ Editor \cap Scanner = {} /\ Purger \cap Viewer = {}
ASSUME NumberAssumption ==
  /\ Slow \subseteq Request
  /\ PageSize \in Nat \ {0} /\ MaxTime \in Nat /\ MaxFaults \in Nat
\* Clocks are not thirty days apart.
ASSUME SkewAssumption == Skew \in Nat /\ Skew < DeletionDelay
ASSUME LateAssumption == LateDelivery \in BOOLEAN

VARIABLES
  now,
  rows,      \* the table: the row of each contact, or None
  pc, answer,
  call,      \* the change a request is about: which contact, under which ETag
  stored,    \* the contact its repository call has read
  desired,   \* the contact it wants to store
  filter,    \* a viewer's filter
  cutoff,    \* a purger's cutoff
  page,      \* due contacts of its page that are still to be deleted
  more,      \* whether the storage announced a further page after it
  cursor,    \* the last row a scan has been given; None: at the start
  shown,     \* how often a viewer was given each contact
  inflight,  \* requests whose change was not answered and may still land
  faults,
  landed,    \* history: requests whose change is in the table
  steady     \* history: contacts no step has touched since a scan began

table == <<now, rows, landed, steady>>
progress == <<pc, answer>>
change == <<call, stored, desired>>
purge == <<cutoff, page, more>>
scan == <<filter, purge, cursor, shown>>
vars == <<table, progress, change, scan, inflight, faults>>

\* by stands for the nanoseconds of UpdatedAt: no two requests share them.
Row == [contact : Contact, by : Visitor \cup Editor, etag : Nat]

Call == [action : Action \cup {"create", "delete"}, id : Visitor, etag : Nat]

Place == [created : Nat, id : Visitor]

Entry == [place : Place, etag : Nat]

ListOptions == [state : State \cup {None}, retentionReview : BOOLEAN, deletionScheduled : BOOLEAN]

ASSUME FilterAssumption == Filter \subseteq ListOptions

ASSUME NoneAssumption ==
  /\ None \notin State /\ None \notin Contact /\ None \notin Row
  /\ None \notin Place /\ None \notin ListOptions /\ None \notin Call

Steps == {"idle", "create", "add", "get", "compare", "update", "list", "find", "delete",
          "settleAdd", "settleUpdate", "settleDelete", "refresh", "done"}

Answers == {"none", "ok", "rejected", "notFound", "conflict", "invalidTransition", "validation",
            "preconditionRequired", "commitUnknown", "unavailable"}

-----------------------------------------------------------------------------
Goto(r, step) == pc' = [pc EXCEPT ![r] = step]

Finish(r, reply) == Goto(r, "done") /\ answer' = [answer EXCEPT ![r] = reply]

\* What clock.Now() returns to a request; time begins at zero for every clock.
Reading(r) == IF r \notin Slow THEN now ELSE IF now > Skew THEN now - Skew ELSE 0

Present == {id \in Visitor : rows[id] # None}

-----------------------------------------------------------------------------
(* Submit and Create *)

\* The form is refused before the service is called: a foreign origin, too many
\* requests, another media type, a filled honeypot, an expired token, bad fields.
Reject(v) ==
  /\ v \in Visitor /\ pc[v] = "idle"
  /\ Finish(v, "rejected")
  /\ UNCHANGED <<table, change, scan, inflight, faults>>

Submit(v) ==
  /\ v \in Visitor /\ pc[v] = "idle"
  /\ desired' = [desired EXCEPT ![v] = Submitted(Reading(v))]
  /\ call' = [call EXCEPT ![v] = [action |-> "create", id |-> v, etag |-> 0]]
  /\ Goto(v, "create")
  /\ UNCHANGED <<table, answer, stored, scan, inflight, faults>>

CreateReads(v) ==
  /\ pc[v] = "create"
  /\ IF rows[v] # None THEN Finish(v, "conflict") ELSE Goto(v, "add") /\ UNCHANGED answer
  /\ UNCHANGED <<table, change, scan, inflight, faults>>

-----------------------------------------------------------------------------
(* contactPOST: one of the five actions, under the version the admin saw *)

Request428(e) ==
  /\ e \in Editor /\ pc[e] = "idle"
  /\ Finish(e, "preconditionRequired")
  /\ UNCHANGED <<table, change, scan, inflight, faults>>

Act(e) ==
  /\ e \in Editor /\ pc[e] = "idle"
  /\ \E id \in Present, action \in Action :
       \E etag \in 1..rows[id].etag :
         call' = [call EXCEPT ![e] = [action |-> action, id |-> id, etag |-> etag]]
  /\ Goto(e, "get")
  /\ UNCHANGED <<table, answer, stored, desired, scan, inflight, faults>>

\* Mutant: the repository stores what it is given.
AcceptsAny(contact) == TRUE

\* contact.Validate, which Update calls before it reads anything.
Accepts(contact) == Valid(contact)

\* The service reads the contact, checks its own guard and computes the result,
\* which the repository validates.
ServiceGets(e) ==
  LET row == rows[call[e].id] IN
  /\ pc[e] = "get"
  /\ \/ row = None /\ Finish(e, "notFound") /\ UNCHANGED desired
     \/ /\ row # None /\ ~Possible(call[e].action, row.contact)
        /\ Finish(e, "invalidTransition") /\ UNCHANGED desired
     \/ /\ row # None /\ Possible(call[e].action, row.contact)
        /\ LET result == Result(call[e].action, row.contact, Reading(e)) IN
           /\ desired' = [desired EXCEPT ![e] = result]
           /\ IF Accepts(result) THEN Goto(e, "compare") /\ UNCHANGED answer
              ELSE Finish(e, "validation")
  /\ UNCHANGED <<table, call, stored, scan, inflight, faults>>

\* The repository reads the contact again and compares ETags, in Update and in
\* Delete alike.
Compares(r, wanted, next) ==
  LET row == rows[wanted.id] IN
  /\ \/ row = None /\ Finish(r, "notFound") /\ UNCHANGED stored
     \/ row # None /\ row.etag # wanted.etag /\ Finish(r, "conflict") /\ UNCHANGED stored
     \/ /\ row # None /\ row.etag = wanted.etag
        /\ stored' = [stored EXCEPT ![r] = row]
        /\ Goto(r, next) /\ UNCHANGED answer
  /\ UNCHANGED <<table, desired, inflight, faults>>

UpdateCompares(e) ==
  /\ pc[e] = "compare"
  /\ Compares(e, call[e], "update")
  /\ UNCHANGED <<call, scan>>

-----------------------------------------------------------------------------
(* Scans: PurgeDue, Dashboard and the contact list.                         *)

BeginPurge(p) ==
  /\ p \in Purger /\ pc[p] = "idle"
  /\ cutoff' = [cutoff EXCEPT ![p] = Reading(p)]
  /\ UNCHANGED filter

BeginView(v) ==
  /\ v \in Viewer /\ pc[v] = "idle"
  /\ \E options \in Filter : filter' = [filter EXCEPT ![v] = options]
  /\ UNCHANGED cutoff

Begin(s) ==
  /\ BeginPurge(s) \/ BeginView(s)
  /\ steady' = [steady EXCEPT ![s] = Present]
  /\ Goto(s, "list")
  /\ UNCHANGED <<now, rows, landed, answer, change, page, more, cursor, shown, inflight, faults>>

PlaceOf(id) == [created |-> rows[id].contact.created, id |-> id]

\* The order of row keys: newest first, then by ID.
Precedes(left, right) ==
  \/ left.created > right.created
  \/ left.created = right.created /\ left.id < right.id

\* The table service answers with rows in key order from its continuation on, no
\* more than the limit; the row the last page ended with may come once more.
Repeated(s) == {id \in Present : PlaceOf(id) = cursor[s]}

Ahead(s) == {id \in Present : cursor[s] = None \/ Precedes(cursor[s], PlaceOf(id))}

Listed(s, listed) ==
  /\ listed \subseteq Ahead(s) \cup Repeated(s) /\ Cardinality(listed) <= PageSize
  /\ \A id \in listed, other \in Ahead(s) \ listed : Precedes(PlaceOf(id), PlaceOf(other))

Further(s, listed) == Ahead(s) \ listed # {}

\* Mutant: contacts created at the same instant as the last one given are skipped.
StrictlyAfterInTime(place, mark) == place.created < mark.created

\* What the repository lets through after its cursor.
StrictlyAfter(place, mark) ==
  \/ place.created < mark.created
  \/ place.created = mark.created /\ place.id > mark.id

\* Mutant: the repository trusts the table service not to repeat a row.
GivenAll(s, listed) == listed

Given(s, listed) == {id \in listed : cursor[s] = None \/ StrictlyAfter(PlaceOf(id), cursor[s])}

\* The next cursor: the last row given, or what it was.
Boundary(s, given) ==
  IF given = {} THEN {cursor[s]}
  ELSE {PlaceOf(id) : id \in {i \in given :
          \A other \in given \ {i} : Precedes(PlaceOf(other), PlaceOf(i))}}

Matches(contact, options, time) ==
  /\ options.state # None => contact.state = options.state
  /\ options.retentionReview => ReviewDue(contact) <= time
  /\ options.deletionScheduled => contact.due # None

\* A page is used up: the next one, or the end.
PageDone(s, further) ==
  IF further THEN Goto(s, "list") /\ UNCHANGED answer ELSE Finish(s, "ok")

\* Mutant: every contact whose deletion is scheduled is deleted.
ToPurgeEarly(p, given) ==
  {[place |-> PlaceOf(id), etag |-> rows[id].etag] :
     id \in {i \in given : rows[i].contact.due # None}}

\* The entries of a page the purge deletes, each with the ETag it was listed with.
ToPurge(p, given) ==
  {[place |-> PlaceOf(id), etag |-> rows[id].etag] :
     id \in {i \in given : Due(rows[i].contact, cutoff[p])}}

PurgerLists(p, listed) ==
  /\ p \in Purger
  /\ page' = [page EXCEPT ![p] = ToPurge(p, Given(p, listed))]
  /\ more' = [more EXCEPT ![p] = Further(p, listed)]
  /\ IF page'[p] = {} THEN PageDone(p, more'[p]) ELSE Goto(p, "find") /\ UNCHANGED answer
  /\ UNCHANGED shown

ViewerLists(v, listed) ==
  /\ v \in Viewer
  /\ shown' = [shown EXCEPT ![v] = [id \in Visitor |->
       IF id \in Given(v, listed) /\ Matches(rows[id].contact, filter[v], Reading(v))
         THEN @[id] + 1 ELSE @[id]]]
  /\ PageDone(v, Further(v, listed))
  /\ UNCHANGED <<page, more>>

\* A page that brings nothing but the row already given announces a continuation
\* that does not advance: an error, not an endless scan.
Stuck(s) == Finish(s, "unavailable") /\ UNCHANGED <<page, more, shown>>

Lists(s) ==
  /\ s \in Scanner /\ pc[s] = "list"
  /\ \E listed \in SUBSET Visitor :
       /\ Listed(s, listed)
       /\ cursor' \in {[cursor EXCEPT ![s] = place] : place \in Boundary(s, Given(s, listed))}
       /\ \/ (listed \subseteq Repeated(s) => ~Further(s, listed))
             /\ (PurgerLists(s, listed) \/ ViewerLists(s, listed))
          \/ listed # {} /\ listed \subseteq Repeated(s) /\ Further(s, listed) /\ Stuck(s)
  /\ UNCHANGED <<table, change, filter, cutoff, inflight, faults>>

\* The purge deletes the entries of its page in order: first the repository reads.
DeleteCompares(p) ==
  /\ pc[p] = "find"
  /\ \E entry \in page[p] :
       /\ \A other \in page[p] \ {entry} : Precedes(entry.place, other.place)
       /\ page' = [page EXCEPT ![p] = @ \ {entry}]
       /\ LET wanted == [action |-> "delete", id |-> entry.place.id, etag |-> entry.etag] IN
          call' = [call EXCEPT ![p] = wanted] /\ Compares(p, wanted, "delete")
  /\ UNCHANGED <<filter, cutoff, more, cursor, shown>>

Deleted(p) ==
  IF page[p] = {} THEN PageDone(p, more[p]) ELSE Goto(p, "find") /\ UNCHANGED answer

-----------------------------------------------------------------------------
(* Changes: the table applies one whose condition holds, refuses it, or does *)
(* not answer; an unanswered one is applied later, or never.                 *)

Sending(r) == pc[r] \in {"add", "update", "delete"}

\* Mutant: the update is sent without its condition.
MeetsAnyway(r) ==
  LET row == rows[call[r].id] IN IF call[r].action = "create" THEN row = None ELSE row # None

\* The condition a change is sent with.
Meets(r) ==
  LET row == rows[call[r].id] IN
  IF call[r].action = "create" THEN row = None ELSE row # None /\ row.etag = call[r].etag

Written(r) ==
  IF call[r].action = "delete" THEN None
  ELSE [contact |-> desired[r], by |-> r,
        etag |-> IF call[r].action = "create" THEN 1 ELSE rows[call[r].id].etag + 1]

Apply(r) ==
  /\ Meets(r)
  /\ rows' = [rows EXCEPT ![call[r].id] = Written(r)]
  /\ landed' = landed \cup {r}
  /\ steady' = [s \in Scanner |-> steady[s] \ {call[r].id}]
  /\ UNCHANGED now

\* A change of a contact that is answered without an ETag is read once more.
Commit(r) ==
  /\ Sending(r) /\ Apply(r)
  /\ IF r \in Purger THEN Deleted(r) /\ UNCHANGED faults
     ELSE \/ Finish(r, "ok") /\ UNCHANGED faults
          \/ /\ faults < MaxFaults /\ faults' = faults + 1
             /\ Goto(r, "refresh") /\ UNCHANGED answer
  /\ UNCHANGED <<change, scan, inflight>>

Refuse(r) ==
  /\ Sending(r) /\ ~Meets(r)
  /\ Finish(r, IF rows[call[r].id] = None THEN "notFound" ELSE "conflict")
  /\ UNCHANGED <<table, change, scan, inflight, faults>>

NoAnswer(r) ==
  /\ Sending(r)
  /\ faults < MaxFaults /\ faults' = faults + 1
  /\ inflight' = inflight \cup {r}
  /\ Goto(r, CASE pc[r] = "add" -> "settleAdd"
               [] pc[r] = "update" -> "settleUpdate"
               [] pc[r] = "delete" -> "settleDelete")
  /\ UNCHANGED <<table, answer, change, scan>>

Settling(r) == pc[r] \in {"settleAdd", "settleUpdate", "settleDelete"}

Land(r) ==
  /\ r \in inflight /\ (LateDelivery \/ Settling(r))
  /\ Apply(r)
  /\ inflight' = inflight \ {r}
  /\ UNCHANGED <<progress, change, scan, faults>>

\* sameContactState: the table shows this very content.
Shows(id, contact, by) == rows[id] # None /\ rows[id].contact = contact /\ rows[id].by = by

\* Mutant: a contact that is not there yet counts as one that was not stored.
AddOutcomeHasty(r) == IF Shows(r, desired[r], r) THEN "ok" ELSE "unavailable"

\* After an unknown outcome the repository reads the contact and decides.
AddOutcome(r) ==
  IF Shows(r, desired[r], r) THEN "ok"
  ELSE IF rows[r] = None THEN "unavailable"
  ELSE "commitUnknown"

UpdateOutcome(r) ==
  IF Shows(call[r].id, desired[r], r) THEN "ok"
  ELSE IF Shows(call[r].id, stored[r].contact, stored[r].by) THEN "unavailable"
  ELSE "commitUnknown"

SettleDelete(p) ==
  LET id == call[p].id IN
  IF rows[id] = None THEN Deleted(p)
  ELSE Finish(p, IF Shows(id, stored[p].contact, stored[p].by) THEN "unavailable"
                 ELSE "commitUnknown")

\* Only a request that has ended leaves a change behind: a deletion that is found
\* done has nothing left to delete.
Settle(r) ==
  /\ Settling(r)
  /\ \/ pc[r] = "settleAdd" /\ Finish(r, AddOutcome(r))
     \/ pc[r] = "settleUpdate" /\ Finish(r, UpdateOutcome(r))
     \/ pc[r] = "settleDelete" /\ SettleDelete(r)
  /\ inflight' = IF LateDelivery /\ pc'[r] = "done" THEN inflight ELSE inflight \ {r}
  /\ UNCHANGED <<table, change, scan, faults>>

\* refreshCommitted
Refresh(r) ==
  /\ pc[r] = "refresh"
  /\ Finish(r, IF Shows(call[r].id, desired[r], r) THEN "ok" ELSE "commitUnknown")
  /\ UNCHANGED <<table, change, scan, inflight, faults>>

-----------------------------------------------------------------------------
\* A call fails for good, or the request's context ends, or its process stops.
Fail(r) ==
  /\ pc[r] \notin {"idle", "done"}
  /\ faults < MaxFaults /\ faults' = faults + 1
  /\ Finish(r, IF Settling(r) \/ pc[r] = "refresh" THEN "commitUnknown" ELSE "unavailable")
  /\ inflight' = IF LateDelivery THEN inflight ELSE inflight \ {r}
  /\ UNCHANGED <<table, change, scan>>

\* Requests have a deadline of seconds and deletions are due after 30 days: no
\* submission is still running when its contact's deletion may already be due.
Tick ==
  /\ now < MaxTime /\ now' = now + 1
  /\ \A v \in Visitor : pc[v] \notin {"idle", "done"} =>
       now + 1 < desired[v].created + DeletionDelay
  /\ UNCHANGED <<rows, landed, steady, progress, change, scan, inflight, faults>>

Init ==
  /\ now = 0
  /\ rows = [id \in Visitor |-> None]
  /\ pc = [r \in Request |-> "idle"]
  /\ answer = [r \in Request |-> "none"]
  /\ call = [r \in Request |-> None]
  /\ stored = [r \in Request |-> None]
  /\ desired = [r \in Request |-> None]
  /\ filter = [v \in Viewer |-> None]
  /\ cutoff = [p \in Purger |-> 0]
  /\ page = [p \in Purger |-> {}]
  /\ more = [p \in Purger |-> FALSE]
  /\ cursor = [s \in Scanner |-> None]
  /\ shown = [v \in Viewer |-> [id \in Visitor |-> 0]]
  /\ inflight = {} /\ faults = 0
  /\ landed = {} /\ steady = [s \in Scanner |-> {}]

Next ==
  \/ \E v \in Visitor : Reject(v) \/ Submit(v) \/ CreateReads(v)
  \/ \E e \in Editor : Request428(e) \/ Act(e) \/ ServiceGets(e) \/ UpdateCompares(e)
  \/ \E s \in Scanner : Begin(s) \/ Lists(s)
  \/ \E p \in Purger : DeleteCompares(p)
  \/ \E r \in Request :
       Commit(r) \/ Refuse(r) \/ NoAnswer(r) \/ Land(r) \/ Settle(r) \/ Refresh(r) \/ Fail(r)
  \/ Tick

Spec == Init /\ [][Next]_vars

-----------------------------------------------------------------------------
(* Properties *)

Types ==
  /\ now \in 0..MaxTime
  /\ rows \in [Visitor -> Row \cup {None}]
  /\ pc \in [Request -> Steps]
  /\ answer \in [Request -> Answers]
  /\ call \in [Request -> Call \cup {None}]
  /\ stored \in [Request -> Row \cup {None}]
  /\ desired \in [Request -> Contact \cup {None}]
  /\ filter \in [Viewer -> Filter \cup {None}]
  /\ cutoff \in [Purger -> Nat]
  /\ page \in [Purger -> SUBSET Entry]
  /\ more \in [Purger -> BOOLEAN]
  /\ cursor \in [Scanner -> Place \cup {None}]
  /\ shown \in [Viewer -> [Visitor -> Nat]]
  /\ inflight \subseteq Request
  /\ faults \in 0..MaxFaults
  /\ landed \subseteq Request
  /\ steady \in [Scanner -> SUBSET Visitor]

RowsValid == \A id \in Visitor : rows[id] # None => Valid(rows[id].contact)

\* Every variable has its type, and every row is a contact that passes Validate
\* although editors' clocks disagree: decoding a row insists on it, so that one
\* invalid row would fail every list, every scan and the purge.
TypeOK == Types /\ RowsValid

\* What the answers claim: "ok" means that the visitor's or editor's change is
\* in the table, and any answer but "commitUnknown" and "ok" that it is not and
\* may be asked for again: a visitor who is invited to retry stores nothing twice.
AnswersTrue ==
  \A r \in Visitor \cup Editor :
    /\ answer[r] = "ok" => r \in landed
    /\ answer[r] \notin {"none", "ok", "commitUnknown"} => r \notin landed

\* Whatever happens between the call and its effect, a change turns the version
\* its editor named into the next one by the action asked for, and moves the
\* contact between states only as the model's table of transitions allows.
ChangesFollowTheRules ==
  [][\A id \in Visitor :
       rows[id] # None /\ rows'[id] # None /\ rows'[id] # rows[id] =>
         LET e == rows'[id].by IN
         /\ e \in Editor /\ call[e].etag = rows[id].etag
         /\ rows'[id].contact =
              Result(call[e].action, rows[id].contact, rows'[id].contact.updated)
         /\ ValidTransition(rows[id].contact.state, rows'[id].contact.state)
         /\ Valid(rows'[id].contact)]_vars

\* A purge that reports success leaves no contact that was due by its cutoff
\* when it began, unless that contact was changed meanwhile.
PurgeComplete ==
  \A p \in Purger : answer[p] = "ok" =>
    \A id \in steady[p] : ~Due(rows[id].contact, cutoff[p])

\* A scan that succeeds gives every contact that nobody touched, and that its
\* filter lets through from beginning to end, exactly once, and none twice,
\* however many contacts come and go between its pages.
PagesExact ==
  \A v \in Viewer : answer[v] = "ok" =>
    /\ \A id \in Visitor : shown[v][id] <= 1
    /\ \A id \in steady[v] : ~filter[v].retentionReview =>
         (shown[v][id] = 1 <=> Matches(rows[id].contact, filter[v], now))

\* Each step is a step of the book in which every operation is atomic.
Book == INSTANCE ContactBook WITH
  Id <- Visitor, book <- [id \in Visitor |-> IF rows[id] = None THEN None ELSE rows[id].contact]

StepsImplementBook == [][Book!BookNext]_(Book!bookVars)
=============================================================================
