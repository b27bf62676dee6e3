---------------------------- MODULE ArticleStore ----------------------------
(***************************************************************************)
(* The article service (internal/articles/service.go) on top of the Azure  *)
(* metadata repository in its current-rows mode (storage/azure/articles.go)*)
(* and the immutable body store (storage/azure/bodies.go).                 *)
(*                                                                         *)
(* The service keeps nothing in memory: an admin request is a process that *)
(* makes remote calls one at a time, and every call may fail, may succeed  *)
(* without its answer arriving, or may never return because the process    *)
(* was stopped.  Requests run concurrently and share                       *)
(*   - one row per article, guarded by an ETag,                            *)
(*   - one row per slug, naming the article that owns it and the canonical *)
(*     slug it redirects to once it is public,                             *)
(*   - one immutable blob per saved body.                                  *)
(*                                                                         *)
(* Fresh names (article IDs, body versions, time stamps) are generated by  *)
(* exactly one request each, so they are named by that request: article r  *)
(* was created by request r, body r was uploaded by it, and a version with *)
(* updatedAt = r has the texts and the time stamps that request r gave it. *)
(***************************************************************************)
EXTENDS Naturals

CONSTANTS
  Request,      \* admin requests, each handled once
  Reader,       \* visitors of the public site
  Slug,         \* normalised slugs
  None,         \* Go's nil, and "" where a slug is optional
  LateDelivery  \* may storage still apply a transaction after its client gave up?

Status == {"draft", "published", "withdrawn"}

Version ==
  [slug : Slug, status : Status,
   draftBody : Request \cup {None}, publishedBody : Request \cup {None},
   published : Slug \cup {None}, historical : SUBSET Slug,
   updatedAt : Request, etag : Nat]

Row == [owner : Request, target : Slug \cup {None}, etag : Nat]

Op == {"create", "save", "publish", "withdraw"}

Call == [op : Op, id : Request, slug : Slug \cup {None}, etag : Nat]

Answer == {"none", "ok", "failed", "unknown", "lost"}

Step == {"idle", "load", "put", "check", "reread", "plan", "submit", "refresh",
         "reconcile", "verifyNew", "verifyOld", "prune", "discard",
         "announce", "done"}

ASSUME NoneAssumption ==
  None \notin Slug \cup Request \cup Version \cup Row \cup Call

ASSUME LateAssumption == LateDelivery \in BOOLEAN

VARIABLES
  article,    \* the article rows
  slugRow,    \* the slug rows
  blobs,      \* the stored bodies
  lastETag,   \* the last ETag the table service issued
  inflight,   \* transactions that were given up on and may still be applied
  committed,  \* history: the requests whose transaction was applied
  announced,  \* history: the requests that reported a public change
  pc, call, stored, prior, seen, todo, answer,  \* per request
  view        \* per visitor

store == <<article, slugRow, lastETag, committed>>
local == <<pc, call, stored, prior, seen, todo, answer>>
vars == <<store, blobs, inflight, announced, local, view>>

-----------------------------------------------------------------------------
(* Slug records an article row stands for. *)

PublicNames(v) == v.historical \cup ({v.published} \ {None})

Names(v) == {v.slug} \cup PublicNames(v)

\* Mutant: a draft's slug already redirects to the published article.
TargetOfDraftToo(v, s) == v.published

Target(v, s) == IF s \in PublicNames(v) THEN v.published ELSE None

\* The row of slug s is the one that article id in version v asks for.
RowMatches(row, id, v, s) ==
  row # None /\ row.owner = id /\ row.target = Target(v, s)

-----------------------------------------------------------------------------
(* What a request wants to store; the table service sets the ETag. *)

NewDraft(r) ==
  [slug |-> call[r].slug, status |-> "draft", draftBody |-> r,
   publishedBody |-> None, published |-> None, historical |-> {},
   updatedAt |-> r, etag |-> 0]

SavedDraft(r) ==
  [stored[r] EXCEPT !.slug = call[r].slug, !.draftBody = r, !.updatedAt = r]

\* Mutant: the first publication remembers the empty canonical slug.
NextHistoryWithNil(v) == v.historical \cup ({v.published} \ {v.slug})

NextHistory(v) == v.historical \cup ({v.published} \ {None, v.slug})

Publication(r) ==
  [stored[r] EXCEPT !.status = "published", !.publishedBody = stored[r].draftBody,
                    !.published = stored[r].slug, !.historical = NextHistory(stored[r]),
                    !.updatedAt = r]

Withdrawal(r) == [stored[r] EXCEPT !.status = "withdrawn", !.updatedAt = r]

Desired(r) ==
  CASE call[r].op = "create"   -> NewDraft(r)
    [] call[r].op = "save"     -> SavedDraft(r)
    [] call[r].op = "publish"  -> Publication(r)
    [] call[r].op = "withdraw" -> Withdrawal(r)

Created(r) == call[r].op = "create"

UploadsBody(r) == call[r].op \in {"create", "save"}

\* The slug rows the transaction of r adds, replaces and deletes.
Adds(r) == {s \in Names(Desired(r)) : seen[r][s] = None}

Replaces(r) ==
  {s \in Names(Desired(r)) : seen[r][s] # None /\ seen[r][s].target # Target(Desired(r), s)}

\* Mutant: a slug the article no longer uses keeps its row.
DeletesNothing(r) == {}

\* Mutant: every slug but the new canonical one is dropped, public or not.
DeletesAliases(r) == IF Created(r) THEN {} ELSE Names(prior[r]) \ {Desired(r).slug}

Deletes(r) == IF Created(r) THEN {} ELSE Names(prior[r]) \ Names(Desired(r))

-----------------------------------------------------------------------------
\* A visitor who is not loading a page.
NotLooking == [step |-> "slug", slug |-> None, owner |-> None, version |-> None]

Init ==
  /\ article = [id \in Request |-> None]
  /\ slugRow = [s \in Slug |-> None]
  /\ blobs = {} /\ lastETag = 0
  /\ inflight = {} /\ committed = {} /\ announced = {}
  /\ pc = [r \in Request |-> "idle"]
  /\ call = [r \in Request |-> None]
  /\ stored = [r \in Request |-> None]
  /\ prior = [r \in Request |-> None]
  /\ seen = [r \in Request |-> [s \in Slug |-> None]]
  /\ todo = [r \in Request |-> {}]
  /\ answer = [r \in Request |-> "none"]
  /\ view = [v \in Reader |-> NotLooking]

Goto(r, step) == pc' = [pc EXCEPT ![r] = step]

Finish(r, reply) == Goto(r, "done") /\ answer' = [answer EXCEPT ![r] = reply]

\* A definite error: the service removes the body this request uploaded.
GiveUp(r) ==
  /\ answer' = [answer EXCEPT ![r] = "failed"]
  /\ Goto(r, IF UploadsBody(r) THEN "discard" ELSE "done")

-----------------------------------------------------------------------------
(* The admin loads an article and submits a change to what was loaded. *)

Begin(r, c, step) ==
  /\ pc[r] = "idle"
  /\ call' = [call EXCEPT ![r] = c]
  /\ Goto(r, step)
  /\ UNCHANGED <<store, blobs, inflight, announced, stored, prior, seen, todo, answer, view>>

CreateDraft(r) ==
  \E s \in Slug : Begin(r, [op |-> "create", id |-> r, slug |-> s, etag |-> 0], "put")

SaveDraft(r) ==
  \E id \in Request, s \in Slug :
    /\ article[id] # None
    /\ Begin(r, [op |-> "save", id |-> id, slug |-> s, etag |-> article[id].etag], "load")

Publish(r) ==
  \E id \in Request :
    /\ article[id] # None
    /\ Begin(r, [op |-> "publish", id |-> id, slug |-> None, etag |-> article[id].etag], "load")

Withdraw(r) ==
  \E id \in Request :
    /\ article[id] # None
    /\ Begin(r, [op |-> "withdraw", id |-> id, slug |-> None, etag |-> article[id].etag], "load")

-----------------------------------------------------------------------------
(* The service: read the article, decide, upload the body. *)

\* Mutant: an article that is not published can be withdrawn.
AcceptableWhateverStatus(r, v) ==
  /\ call[r].op = "save" => call[r].slug \notin v.historical
  /\ call[r].op = "publish" => v.draftBody # None /\ v.slug \notin v.historical

\* The early returns of SaveDraft, Publish and Withdraw on what they read.
Acceptable(r, v) ==
  /\ call[r].op = "save" => call[r].slug \notin v.historical
  /\ call[r].op = "publish" => v.draftBody # None /\ v.slug \notin v.historical
  /\ call[r].op = "withdraw" => v.status = "published"

Load(r) ==
  LET v == article[call[r].id] IN
  /\ pc[r] = "load"
  /\ v # None
  /\ stored' = [stored EXCEPT ![r] = v]
  /\ IF Acceptable(r, v)
       THEN Goto(r, IF call[r].op = "save" THEN "put" ELSE "reread") /\ UNCHANGED answer
       ELSE Finish(r, "failed")
  /\ UNCHANGED <<store, blobs, inflight, announced, call, prior, seen, todo, view>>

PutBody(r) ==
  /\ pc[r] = "put"
  /\ blobs' = blobs \cup {r}
  /\ Goto(r, IF Created(r) THEN "check" ELSE "reread")
  /\ UNCHANGED <<store, inflight, announced, call, stored, prior, seen, todo, answer, view>>

\* A failed upload ends the request; the blob may have been stored all the same.
PutFails(r) ==
  /\ pc[r] = "put"
  /\ \/ UNCHANGED blobs
     \/ blobs' = blobs \cup {r}
  /\ \E reply \in {"failed", "unknown"} : Finish(r, reply)
  /\ UNCHANGED <<store, inflight, announced, call, stored, prior, seen, todo, view>>

\* SaveDraft validates the texts only after it has uploaded the body.
DraftInvalid(r) ==
  /\ pc[r] = "reread" /\ call[r].op = "save"
  /\ GiveUp(r)
  /\ UNCHANGED <<store, blobs, inflight, announced, call, stored, prior, seen, todo, view>>

-----------------------------------------------------------------------------
(* The repository: read again, plan the slug rows, submit one transaction. *)

CheckNew(r) ==
  /\ pc[r] = "check"
  /\ IF article[call[r].id] = None
       THEN Goto(r, "submit") /\ UNCHANGED answer
       ELSE GiveUp(r)
  /\ UNCHANGED <<store, blobs, inflight, announced, call, stored, prior, seen, todo, view>>

PermanentSlugsKept(v, w) ==
  \/ v.published = None
  \/ /\ w.published # None
     /\ {w.slug, w.published} \cap v.historical = {}
     /\ v.historical \subseteq w.historical
     /\ v.published \in w.historical \cup {w.published}

Reread(r) ==
  LET v == article[call[r].id] IN
  /\ pc[r] = "reread"
  /\ v # None
  /\ prior' = [prior EXCEPT ![r] = v]
  /\ IF v.etag = call[r].etag /\ PermanentSlugsKept(v, Desired(r))
       THEN /\ Goto(r, "plan")
            /\ todo' = [todo EXCEPT ![r] = Names(Desired(r)) \cup Names(v)]
            /\ UNCHANGED answer
       ELSE GiveUp(r) /\ UNCHANGED todo
  /\ UNCHANGED <<store, blobs, inflight, announced, call, stored, seen, view>>

\* Mutant: a slug row of another article is taken for one's own.
UsableWhoeverOwns(r, s) ==
  s \in Names(Desired(r)) \/ slugRow[s] # None

\* May r use the slug row it reads?  A dropped slug must still have its row.
Usable(r, s) ==
  LET row == slugRow[s] IN
  IF s \in Names(Desired(r))
    THEN \/ row = None
         \/ /\ row.owner = call[r].id
            /\ \/ s # Desired(r).slug
               \/ row.target = None
               \/ s = Desired(r).published
    ELSE row # None

PlanSlug(r, s) ==
  /\ pc[r] = "plan"
  /\ s \in todo[r]
  /\ s \in Names(Desired(r)) \/ todo[r] \cap Names(Desired(r)) = {}
  /\ seen' = [seen EXCEPT ![r][s] = slugRow[s]]
  /\ IF Usable(r, s)
       THEN /\ todo' = [todo EXCEPT ![r] = @ \ {s}]
            /\ Goto(r, IF todo[r] = {s} THEN "submit" ELSE "plan")
            /\ UNCHANGED answer
       ELSE GiveUp(r) /\ UNCHANGED todo
  /\ UNCHANGED <<store, blobs, inflight, announced, call, stored, prior, view>>

\* A remote read that fails before anything was submitted is a definite error.
ReadFails(r) ==
  /\ pc[r] \in {"load", "check", "reread", "plan"}
  /\ IF pc[r] = "load" THEN Finish(r, "failed") ELSE GiveUp(r)
  /\ UNCHANGED <<store, blobs, inflight, announced, call, stored, prior, seen, todo, view>>

\* Mutant: the article row is replaced without an If-Match condition.
CanCommitAnyVersion(r) ==
  /\ Created(r) <=> article[call[r].id] = None
  /\ \A s \in Adds(r) : slugRow[s] = None
  /\ \A s \in Replaces(r) \cup Deletes(r) : slugRow[s] # None

\* Mutant: slug rows are upserted, whoever owns them by now.
CanCommitAnySlug(r) ==
  IF Created(r)
    THEN article[call[r].id] = None
    ELSE article[call[r].id] # None /\ article[call[r].id].etag = call[r].etag

\* The preconditions of the batch: all its operations succeed or none does.
CanCommit(r) ==
  /\ IF Created(r)
       THEN article[call[r].id] = None
       ELSE article[call[r].id] # None /\ article[call[r].id].etag = call[r].etag
  /\ \A s \in Adds(r) : slugRow[s] = None
  /\ \A s \in Replaces(r) \cup Deletes(r) :
       slugRow[s] # None /\ slugRow[s].etag = seen[r][s].etag

Apply(r) ==
  LET etag == lastETag + 1 IN
  /\ CanCommit(r)
  /\ article' = [article EXCEPT ![call[r].id] = [Desired(r) EXCEPT !.etag = etag]]
  /\ slugRow' = [s \in Slug |->
       IF s \in Adds(r) \cup Replaces(r)
         THEN [owner |-> call[r].id, target |-> Target(Desired(r), s), etag |-> etag]
         ELSE IF s \in Deletes(r) THEN None ELSE slugRow[s]]
  /\ lastETag' = etag
  /\ committed' = committed \cup {r}

\* The transaction is applied, and its answer arrives or is lost.
Commit(r) ==
  /\ pc[r] = "submit"
  /\ Apply(r)
  /\ \/ Goto(r, "refresh")
     \/ Goto(r, "reconcile")
  /\ UNCHANGED <<blobs, inflight, announced, call, stored, prior, seen, todo, answer, view>>

\* Storage refuses the transaction: a precondition, an existing row, no permission.
Refuse(r) ==
  /\ pc[r] = "submit"
  /\ GiveUp(r)
  /\ UNCHANGED <<store, blobs, inflight, announced, call, stored, prior, seen, todo, view>>

\* No answer, and nothing applied so far.
NoAnswer(r) ==
  /\ pc[r] = "submit"
  /\ \/ UNCHANGED inflight
     \/ LateDelivery /\ inflight' = inflight \cup {r}
  /\ Goto(r, "reconcile")
  /\ UNCHANGED <<store, blobs, announced, call, stored, prior, seen, todo, answer, view>>

LateCommit(r) ==
  /\ r \in inflight
  /\ Apply(r)
  /\ inflight' = inflight \ {r}
  /\ UNCHANGED <<blobs, announced, local, view>>

LateDrop(r) ==
  /\ r \in inflight
  /\ inflight' = inflight \ {r}
  /\ UNCHANGED <<store, blobs, announced, local, view>>

-----------------------------------------------------------------------------
(* The repository finds out what became of its transaction. *)

\* Mutant: the replaced draft is deleted although it is also the public text.
ReplacedDraftEvenPublic(r) == {stored[r].draftBody} \ {None}

\* The draft body that a successful save replaced and nothing else uses.
ReplacedDraft(r) == {stored[r].draftBody} \ {None, stored[r].publishedBody}

Succeed(r) ==
  \/ /\ \/ Created(r)
        \/ call[r].op = "save" /\ ReplacedDraft(r) = {}
     /\ Finish(r, "ok")
  \/ /\ call[r].op = "save" /\ ReplacedDraft(r) # {}
     /\ Goto(r, "prune") /\ UNCHANGED answer
  \/ /\ ~UploadsBody(r)
     /\ Goto(r, "announce") /\ UNCHANGED answer

\* Every slug row the request or its predecessor asks for.
NamesToVerify(r) == Names(Desired(r)) \cup IF Created(r) THEN {} ELSE Names(prior[r])

StartVerifying(r, step) ==
  /\ Goto(r, step)
  /\ todo' = [todo EXCEPT ![r] = NamesToVerify(r)]
  /\ UNCHANGED answer

\* refreshCommitted: the answer arrived, the row is read back.
Refresh(r) ==
  LET v == article[call[r].id] IN
  /\ pc[r] = "refresh"
  /\ IF v # None /\ v.updatedAt = r
       THEN StartVerifying(r, "verifyNew")
       ELSE Finish(r, "unknown") /\ UNCHANGED todo
  /\ UNCHANGED <<store, blobs, inflight, announced, call, stored, prior, seen, view>>

\* reconcileCreate and reconcileUpdate: no answer arrived.
Reconcile(r) ==
  LET v == article[call[r].id]
      absent == v = None /\ Created(r)
      new == v # None /\ v.updatedAt = r
      old == v # None /\ ~Created(r) /\ v.updatedAt = prior[r].updatedAt
  IN
  /\ pc[r] = "reconcile"
  /\ \/ absent /\ GiveUp(r) /\ UNCHANGED todo
     \/ new /\ StartVerifying(r, "verifyNew")
     \/ old /\ ~new /\ StartVerifying(r, "verifyOld")
     \/ ~absent /\ ~new /\ ~old /\ Finish(r, "unknown") /\ UNCHANGED todo
  /\ UNCHANGED <<store, blobs, inflight, announced, call, stored, prior, seen, view>>

SlugAsWanted(r, s, w) ==
  IF s \in Names(w) THEN RowMatches(slugRow[s], call[r].id, w, s) ELSE slugRow[s] = None

\* slugStateMatches, one remote read per step.
Verify(r, s) ==
  LET w == IF pc[r] = "verifyNew" THEN Desired(r) ELSE prior[r] IN
  /\ pc[r] \in {"verifyNew", "verifyOld"}
  /\ s \in todo[r]
  /\ s \in Names(w) \/ todo[r] \cap Names(w) = {}
  /\ todo' = [todo EXCEPT ![r] = @ \ {s}]
  /\ IF SlugAsWanted(r, s, w)
       THEN \/ todo[r] # {s} /\ UNCHANGED <<pc, answer>>
            \/ todo[r] = {s} /\ pc[r] = "verifyNew" /\ Succeed(r)
            \/ todo[r] = {s} /\ pc[r] = "verifyOld" /\ GiveUp(r)
       ELSE Finish(r, "unknown")
  /\ UNCHANGED <<store, blobs, inflight, announced, call, stored, prior, seen, view>>

\* Mutant: a failed read after the submission counts as a failed change.
OutcomeUnreadFails(r) ==
  /\ pc[r] \in {"refresh", "reconcile", "verifyNew", "verifyOld"}
  /\ Finish(r, "failed")
  /\ UNCHANGED <<store, blobs, inflight, announced, call, stored, prior, seen, todo, view>>

\* A failed read, or the deadline of the request, leaves the outcome unknown.
OutcomeUnread(r) ==
  /\ pc[r] \in {"refresh", "reconcile", "verifyNew", "verifyOld"}
  /\ Finish(r, "unknown")
  /\ UNCHANGED <<store, blobs, inflight, announced, call, stored, prior, seen, todo, view>>

-----------------------------------------------------------------------------
(* The service cleans up and reports; a failed deletion is ignored. *)

DiscardBody(r) ==
  /\ pc[r] = "discard"
  /\ \/ blobs' = blobs \ {r}
     \/ UNCHANGED blobs
  /\ Goto(r, "done")
  /\ UNCHANGED <<store, inflight, announced, call, stored, prior, seen, todo, answer, view>>

PruneDraft(r) ==
  /\ pc[r] = "prune"
  /\ \/ blobs' = blobs \ ReplacedDraft(r)
     \/ UNCHANGED blobs
  /\ Finish(r, "ok")
  /\ UNCHANGED <<store, inflight, announced, call, stored, prior, seen, todo, view>>

Announce(r) ==
  /\ pc[r] = "announce"
  /\ announced' = announced \cup {r}
  /\ Finish(r, "ok")
  /\ UNCHANGED <<store, blobs, inflight, call, stored, prior, seen, todo, view>>

\* The process is stopped between two steps; whatever remained is not done.
Crash(r) ==
  /\ pc[r] \notin {"idle", "done"}
  /\ Finish(r, "lost")
  /\ UNCHANGED <<store, blobs, inflight, announced, call, stored, prior, seen, todo, view>>

-----------------------------------------------------------------------------
(* GetPublished: slug row, then article row, then body. *)

Look(v, new) ==
  /\ view' = [view EXCEPT ![v] = new]
  /\ UNCHANGED <<store, blobs, inflight, announced, local>>

ViewSlug(v) ==
  /\ view[v].step = "slug"
  /\ \E s \in Slug :
       /\ slugRow[s] # None /\ slugRow[s].target # None
       /\ Look(v, [step |-> "article", slug |-> s, owner |-> slugRow[s].owner, version |-> None])

ViewArticle(v) ==
  LET found == article[view[v].owner] IN
  /\ view[v].step = "article"
  /\ IF found # None /\ found.status = "published" /\ None \notin {found.published, found.publishedBody}
       THEN Look(v, [view[v] EXCEPT !.step = "body", !.version = found])
       ELSE Look(v, NotLooking)

\* The body is served, or the visitor gets an error.
ViewBody(v) ==
  /\ view[v].step = "body"
  /\ Look(v, NotLooking)

-----------------------------------------------------------------------------
Handle(r) ==
  \/ CreateDraft(r) \/ SaveDraft(r) \/ Publish(r) \/ Withdraw(r)
  \/ Load(r) \/ PutBody(r) \/ PutFails(r) \/ DraftInvalid(r)
  \/ CheckNew(r) \/ Reread(r) \/ (\E s \in Slug : PlanSlug(r, s)) \/ ReadFails(r)
  \/ Commit(r) \/ Refuse(r) \/ NoAnswer(r) \/ LateCommit(r) \/ LateDrop(r)
  \/ Refresh(r) \/ Reconcile(r) \/ (\E s \in Slug : Verify(r, s)) \/ OutcomeUnread(r)
  \/ DiscardBody(r) \/ PruneDraft(r) \/ Announce(r) \/ Crash(r)

Browse(v) == ViewSlug(v) \/ ViewArticle(v) \/ ViewBody(v)

Next == (\E r \in Request : Handle(r)) \/ (\E v \in Reader : Browse(v))

Spec == Init /\ [][Next]_vars

-----------------------------------------------------------------------------
View ==
  [step : {"slug", "article", "body"}, slug : Slug \cup {None},
   owner : Request \cup {None}, version : Version \cup {None}]

\* Every variable has its type.
TypeOK ==
  /\ article \in [Request -> Version \cup {None}]
  /\ slugRow \in [Slug -> Row \cup {None}]
  /\ blobs \subseteq Request
  /\ lastETag \in Nat
  /\ inflight \subseteq Request /\ committed \subseteq Request /\ announced \subseteq Request
  /\ pc \in [Request -> Step]
  /\ call \in [Request -> Call \cup {None}]
  /\ stored \in [Request -> Version \cup {None}]
  /\ prior \in [Request -> Version \cup {None}]
  /\ seen \in [Request -> [Slug -> Row \cup {None}]]
  /\ todo \in [Request -> SUBSET Slug]
  /\ answer \in [Request -> Answer]
  /\ view \in [Reader -> View]

\* The slug rows are exactly the ones the article rows stand for, with the
\* right owner and redirect target: no lost, stale or doubly claimed slug,
\* although Update reads the rows one by one before its transaction.
SlugIndexExact ==
  /\ \A id \in Request : article[id] # None =>
       \A s \in Names(article[id]) : RowMatches(slugRow[s], id, article[id], s)
  /\ \A s \in Slug : slugRow[s] # None =>
       LET owner == slugRow[s].owner IN
       article[owner] # None /\ s \in Names(article[owner])

\* Bodies an article row points at are stored: no cleanup of CreateDraft or
\* SaveDraft removes a body that a row still references.
BodiesPresent ==
  \A id \in Request : article[id] # None =>
    {article[id].draftBody, article[id].publishedBody} \ {None} \subseteq blobs

\* A visitor reads the slug row, the article row and the body at three moments,
\* with saves, publications and cleanups between them: the article that is served
\* has the slug as a public name, and its body is there.
ReadersServed ==
  \A v \in Reader : view[v].step = "body" =>
    /\ view[v].slug \in PublicNames(view[v].version)
    /\ view[v].version.publishedBody \in blobs

\* What the admin is told about the outcome is true: success means that the
\* change was stored, an error other than "unknown" that it was not.
AnswersTrue ==
  \A r \in Request :
    /\ answer[r] = "ok" => r \in committed
    /\ answer[r] = "failed" => r \notin committed

\* A change replaces exactly the version its author had loaded, computed from
\* that version and no other, although it is read twice on the way.
NoLostUpdate ==
  [][\A r \in committed' \ committed : call[r].op # "create" =>
       /\ article[call[r].id].etag = call[r].etag
       /\ article[call[r].id] = stored[r]]_vars

\* A slug that was ever public stays with its article and redirects to the
\* canonical slug of the day.
PublicSlugsPermanent ==
  [][\A s \in Slug :
       slugRow[s] # None /\ slugRow[s].target # None =>
         /\ slugRow'[s] # None
         /\ slugRow'[s].owner = slugRow[s].owner
         /\ slugRow'[s].target = article'[slugRow[s].owner].published]_vars

\* Every publication or withdrawal that was stored is announced to the public
\* cache by the time its request is over (unless the whole process stopped).
StoredChangesAnnounced ==
  \A r \in committed :
    call[r].op \in {"publish", "withdraw"} /\ pc[r] = "done" /\ answer[r] # "lost"
      => r \in announced

=============================================================================
