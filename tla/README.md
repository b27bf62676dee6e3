# A verification of the Studio Legale website

TLA+ models of the web application in this repository, the TLC runs that check
them on small instances, and proofs, checked by TLAPS, that some of the
properties hold for every instance. Paths below are relative to `internal/`
unless they say otherwise.

## 1. The system

One Go process serves a public site and an administration area. Its durable
state is in Azure Table and Blob Storage; its only shared state in memory is
the cache of rendered pages and two rate limiters. One replica runs in
production (`infra/modules/container-app.bicep`), but two overlap while a
revision is replaced, and requests of one process run concurrently anyway.

| Component | Source | State | Operations |
| --- | --- | --- | --- |
| Article service | `articles/service.go` | none of its own | create, save, publish, withdraw, preview, get by public slug, list |
| Article metadata | `storage/azure/articles.go` | one table row per article (ETag), one per slug (owner, redirect target) | create, update, get, list; reconciliation of unknown outcomes |
| Article bodies | `storage/azure/bodies.go` | immutable blobs | put, get, delete |
| Row migration | `storage/azure/migration.go` | legacy and current rows, a completion marker | migrate, repair; *compat* readers and writers meanwhile |
| Page cache | `web/public/cache.go` | pages, recency list, fills in flight, a generation | get or fill, invalidate |
| Public pages | `web/public/*.go` | none | render a page from published articles; invalidate after a change |
| Sessions | `auth/service.go`, `storage/azure/sessions.go` | one row per session | create, validate, rotate, log out, delete expired |
| Contacts | `contacts/service.go`, `storage/azure/contacts.go` | one row per contact | submit, open, archive, restore, schedule and cancel deletion, purge |
| Rate limiters | `web/adminapi/rate_limit.go`, `web/public/contact_security.go` | token buckets | allow |
| Admin API, middleware | `web/adminapi`, `web/middleware` | none | map operations to HTTP; deadlines, sessions, CSRF |
| Admin UI | `web/admin/src` (top level) | the editor's draft and ETag | calls of the API |
| Rollout scripts | `scripts` (top level) | revisions of the container app | deploy, article storage rollout |

How they interact: an admin handler calls one service operation; the service
calls the repository and the body store several times, without any lock; a
successful publication or withdrawal calls back, through `ArticleEventSink`,
into the renderer, which invalidates pages of the cache; a visit asks the
cache, whose misses call the article service.

What is hard here:

- every remote call may fail, may take effect without its answer arriving, or
  may outlive its caller, and the process may stop between two of them;
- `SaveDraft`, `Publish` and `Withdraw` read an article twice and its slug rows
  one by one before a transaction that has conditions on some of them only;
- bodies and rows are in different stores with no common transaction, and the
  service deletes bodies it believes unused;
- a visit reads the slug row, the article row and the body at three moments;
- a page may be rendered while its article changes and its key is invalidated;
- migration and cleanup loops run against live writers;
- a request's deadline answers the client while its handler goes on, and the
  executor reports a change that was applied as the context's error;
- several instances have several clocks, and the limiter uses readings of one
  clock out of order.

What makes each part correct: changes of articles are atomic and never
overwrite a version their author did not see; the slug rows say exactly what
the article rows say; a slug that was public stays with its article; a row's
bodies exist; an admin is told the truth; visitors are never shown, after a
change was announced, what was there before it; the cache stays within its
limits and answers every request; a session that was replaced or logged out is
refused; a contact changes by the rules only and is deleted only when due; the
migration loses no version of an article, and its marker means what it says; a
client is answered in time, and truly; the limiter lets nobody in too often.

## 2. The modules

    ArticleCatalog          what the article service promises
       ^ implemented by (ArticleStoreImplements)
    ArticleStore            service + Azure repository + body store
       ArticleStoreInvariants      strengthened invariants
       ArticleStoreProofs          proofs about the slug index, updates, bodies,
                                   answers and visitors, and that the service
                                   is the catalog
       MCArticleStore              instances for TLC
    ArticleMigration        legacy and current rows: migrate, repair, compat
       ArticleMigrationProofs      proofs about the marker, saves, answers and lists
       MCArticleMigration          instances for TLC
    PublicCache             the page cache
       PublicCacheProofs           proofs about freshness
       MCPublicCache               instances for TLC
    PublicPages             pages + invalidation, on top of PublicCache
       PublicPagesProofs           proofs about announced changes
       MCPublicPages               instances for TLC
    Sessions                admin sessions: service + Azure repository
       SessionsProofs              proofs about dead sessions and the cleanup
       MCSessions                  instances for TLC
    ContactRecords          a contact: validity, actions, what they make of it
    ContactBook             what the contact service promises
       ^ implemented by
    Contacts                service + Azure repository + scans
       ContactsProofs              proofs about changes, answers and scans
       MCContacts                  an instance for TLC
    LoginLimiter            the token buckets in front of the login
       LoginLimiterProofs          proofs about its limits and its fairness
    AdminRequests           middleware, handler, executor, on top of LoginLimiter
       AdminRequestsProofs         proofs about answers and the limiter within
       MCAdminRequests             an instance for TLC

The two abstract specifications, ArticleCatalog and ContactBook, are also what
the in-memory repositories of `storage/memory` are: every operation of theirs
holds one mutex from its first read to its last write.

### ArticleStore

A request is a process with a program counter; each of its steps is one remote
call together with everything the code does up to the next one.

| Action | Code |
| --- | --- |
| `CreateDraft`, `SaveDraft`, `Publish`, `Withdraw` | the handler takes the request: article, slug and the ETag the admin had loaded |
| `Load` | `repository.Get` in the service and the early returns on what it read (`Acceptable`) |
| `PutBody`, `PutFails` | `bodies.Put`; a failed upload may have stored the blob |
| `DraftInvalid` | `updated.Validate` after the upload |
| `CheckNew`, `Reread` | the first read of `Create` and `Update`; ETag and permanent slugs |
| `PlanSlug` | one `getSlug` of `Update`: wanted slugs first, dropped ones after, each in any order (Go's map iteration) |
| `ReadFails` | any of those reads fails: a definite error |
| `Commit`, `Refuse`, `NoAnswer` | `submitTransaction`: applied (answered or not), refused, or unanswered |
| `LateCommit`, `LateDrop` | an unanswered transaction is applied later, or never (only with `LateDelivery`) |
| `Refresh`, `Reconcile` | `refreshCommitted`; `reconcileCreate` and `reconcileUpdate` |
| `Verify` | one read of `slugStateMatches` |
| `OutcomeUnread` | a read fails, or the deadline passes: `ErrCommitUnknown` |
| `DiscardBody`, `PruneDraft` | deletion of the uploaded body after a definite error, of the replaced draft after success; failures are ignored |
| `Announce` | `notifyPublicChange` |
| `Crash` | the process stops; nothing else of the request happens |
| `ViewSlug`, `ViewArticle`, `ViewBody` | the three reads of `GetPublished` |

Abstractions. IDs, body versions and time stamps are fresh per request, so each
is named by its request; `sameArticleState`, which compares all fields, is the
comparison of `updatedAt`. (Two requests with the same nanosecond, the same
text and the same body version would be needed to tell them apart; body
versions are 128 random bits.) Titles, areas and covers change together with
`updatedAt` and are left out. ETags are numbers issued in order of the commits;
the code only compares them. The repository is in its current-rows mode (after
`migrate` or `repair`); ArticleMigration has compat's legacy rows.
`announced` and `committed` are history variables. Listing reads nothing that
`GetPublished` does not.

A transaction's own conditions (`CanCommit`) are the table service's: all
operations succeed or none, insertions require absence, replacements and
deletions the ETag that was read.

### ArticleCatalog and ArticleStoreImplements

The catalog has no slug rows, ETags or retries: a change happens at one instant
on the current version, under a slug no other article has, had or drafts; a
request is told `ok` only if its change took effect and `failed` only if it did
not. ArticleStore implements it with `article` (without ETags) for the catalog,
`committed` for the applied changes and `answer` for what was told.
`StepsImplementCatalog` says so of every step; the run starts from an empty
table, where the catalog is empty too, and from a prepared one.

### PublicCache

A request is in one of the phases of `GetOrFill`: the first critical section is
`Hit`, `Join` or `Lead`; the fill outside the lock is `Read`, `ReadFails` or
`Panic`; the second critical section is `Complete`; a follower is answered by
`Wake` or gives up by `Cancel`. `Invalidate(keys)`, of any set of keys, stands
for `Invalidate` and `InvalidatePrefix`. `Change(keys)` is the world behind the cache: the pages'
contents. A page's value is the number of its content's changes so far;
`announced` and `floor` are history variables that remember which of them had
been announced, and when a request asked. A flight is named by its leader.
Values are cloned by the code on every path and cannot be shared, so they are
plain values here.

### PublicPages

Which pages show which article, and `PublicArticleChanged` as the sequence of
invalidations the renderer makes, one lock acquisition each, interleaved with
visits and with other editors. The article service is the atomic one of the
catalog: storing a change and reporting it are two steps. A page read from
several `List` calls is one read. Aliases of an article answer with a redirect,
an error to the cache, and are never stored (`Rendered`).

### Sessions

A request is a login (`Rotate`), a logout (`Logout`) or the check in front of
every admin page (`Validate`), with the cookie of an earlier login or, a login
only, with none. Each step is one remote call and what the code does until the
next.

| Action | Code |
| --- | --- |
| `Start`, `StartFresh` | the request arrives, on a revision with some credential version; without a cookie `Rotate` is `Create` |
| `Load`, `Judge` | the `Get` of `Validate` or `Logout`; the verdict, at a later reading of the clock |
| `RepositoryRevoke` | `repository.Revoke`'s own read and its comparison of ETags |
| `Reread` | after a conflict: `revoke` reads again, gives up after `MaxAttempts` rounds |
| `ListPage` | one page of `DeleteExpired`: rows at or after the continuation, the expired ones to be deleted |
| `Commit`, `Refuse`, `NoAnswer` | the update that revokes, a deletion, the insertion: applied, refused, or unanswered |
| `SettleRevoke`, `SettleDelete`, `SettleAdd` | the read after an unanswered change and what is concluded from it |
| `Land`, `Vanish` | an unanswered change is applied later, or never |
| `Fail` | a read fails, the context is cancelled or the process stops |
| `Tick` | time passes |

Abstractions. A session is named by the login that creates it: tokens are 256
random bits, so `Create`'s retry after a collision never happens; malformed
cookies answer like absent sessions and are left out. A session is written
twice at most, so its ETag is 1 or 2. `revokedBy` stands for `RevokedAt`: the
reconciliation recognises its own revocation by the instant, and two requests
do not revoke one session in the same nanosecond. All processes share a clock.
A service page that does not advance is the table service's fault and left out,
as are rows that cannot be decoded. Logouts are modelled at the service: the
session check in front of the handler is a request of its own, and a logout
may therefore also begin with a dead session, which is more than HTTP allows.
`Tick` assumes that a login is over, and its insertion applied or lost, before
the session it creates expires: seconds against eight hours. Late deletions and
revocations may be applied whenever they will. `tooLate` is a history variable: the checks that
began when their session was dead.

### ArticleMigration

The rows of articles under their legacy keys (the ID) and their current ones
(newest first). An article's state is named by the request that wrote it, which
is also what its ETag and the comparison of all fields tell apart.

| Action | Code |
| --- | --- |
| `Begin`, `ReadMarker`, `Restart` | `convergeLegacyArticleRows` in migrate or repair mode; the platform starts a failed process again |
| `ListRows`, `MoveRow`, `PageEnd` | a raw page, the batch that moves one row under the ETag it was listed with, the next page, another pass or the marker |
| `LookLegacy`, `LookTarget`, `ReadAgain`, `VerifyGone` | `reconcileLegacyArticleMigration` and the deletion of a legacy row whose target is there |
| `Persist`, `Recheck`, `LandMarker` | `persistArticleMigrationMarker`, answered or not |
| `Open`, `Find`, `Direct`, `Gone` | `Get` and `Update` of a compat or current-only instance: the query for the ID, the row at the ID, the reconciliation of a save that moves |
| `BeginList`, `CompatList`, `CurrentList`, `Give` | `List`: raw pages for one logical page, or the current rows from a boundary |
| `OldWrite` | an image from before the compat boundary that is still running |
| `Commit`, `Refuse`, `NoAnswer`, `Land`, `Fail` | as in ArticleStore |

Assumptions, from the rollout's document and script: a repair is started when
nothing else runs (`Quiesced`), instances that read current rows only serve
when some start has completed (`Served`), and an old image never writes an
article that has both rows. Slugs and bodies are ArticleStore's. Rows that do
not decode end a start with an error, like any failing call.

### ContactRecords, ContactBook, Contacts

A contact is its state and its five timestamps; names and texts never change.
`Result` is what each service operation makes of a contact, `Valid` the model's
`Validate`. The book is the promise: an atomic submission, action or deletion
that is due. Contacts implements it with the table's contacts
(`StepsImplementBook`); since a contact leaves the book only when its deletion
is due, so does a row.

| Action | Code |
| --- | --- |
| `Reject`, `Submit`, `CreateReads` | the public form, `service.Submit` and the first read of `Create` |
| `Request428`, `Act`, `ServiceGets`, `Accepts` | `contactPOST`: the `If-Match` header, the service's read and guard, `Validate` of the result |
| `UpdateCompares`, `DeleteCompares` | the repository's own read and its comparison of ETags |
| `BeginPurge`, `BeginView`, `Lists` | `PurgeDue`, the dashboard and the list: one page of the table, the continuation and the cursor |
| `Commit`, `Refuse`, `NoAnswer`, `Land` | the change is applied, refused, or unanswered and applied later or never |
| `Settle`, `Refresh` | the reconciling reads; a change that was answered without an ETag is read again |
| `Fail`, `Tick` | a call fails or the process stops; time passes |

`by`, the request that wrote a row, stands for the nanoseconds of `UpdatedAt`.
Requests in `Slow` read a clock that is `Skew` behind. `Tick` assumes that a
submission is over before its contact could be due for deletion: seconds
against thirty days. `RowsValid`, part of `TypeOK`, is what decoding insists on
(`storage/azure/schema.go:288`): a row that does not pass `Validate` could never be
read again. `ValidTransition` is a function of the model that only its
tests call; `ChangesFollowTheRules` checks that the operations agree with it.
With late delivery a visitor who was told to try again may be stored twice
(`storage/azure/contacts.go:42`): the code has no means against it, and answers
are checked without.

### LoginLimiter

Tokens are counted in the time it takes to earn them, so the code's fractions
are whole numbers: a full bucket is `Capacity * Refill` units. `AskAddress` and
`AskUsername` are `allowAddress` and `allowUsername`, each under the mutex, with
the reading of the clock the login took before. The balances are history: a
bucket that is charged for every admission and never forgotten. `IdleAssumption`
is what makes forgetting harmless: a bucket is idle for longer than a refill
takes, by twice the delay of a reading (an hour against fifteen minutes in
`rate_limit.go`). The contact form's limiter (`web/public/contact_security.go:154`)
is the same algorithm with no such slack: there a reading out of order may be
worth a fraction of a token.

### AdminRequests

One request on its way: `Enter` and `EnterLogin` are the checks of
`middleware.go` and `loginPOST` up to the limiter; `NextPage`, `LastPage`,
`Transient`, `ReadFails`, `ReadExpires` a remote read under
`operationExecutor.do`; `Commit`, `Refuse`, `LoseAnswer`, `Overtaken`,
`CutShort`, `ChangeExpires` a change under `mutate`; `Write`, `Panic` the
handler's last step; `Expire`, `Deliver`, `TimeOut` the deadline and the two
outcomes of `timeout`. The handler's goroutine goes on after `TimeOut`.

`Change` are the requests that make exactly one change and succeed by it alone:
the five contact actions, publish and withdraw. `Look` are the reads of one
contact, which the repository finds by a query. What they are about is the other
modules' business: a change is applied or not, all the reads that a handler makes
before it count as one (`AfterLoad`), and whether somebody else has changed the
row since is any answer (`AfterConfirm`, `AfterSettle`). An unanswered change is
recognised by what it stored; two changes that store the same in the same
nanosecond are not told apart, by the code neither. Requests that are not of
this shape are in the modules that have their whole course:

- `POST /contacts/purge-due` deletes contact after contact and may answer
  `contact_conflict` after some of them (`contacts/service.go:194-215`): Contacts;
- `DELETE /session` answers 204 without a change of its own when the session is
  over, or sends another when its own was refused (`auth/service.go:121-154`):
  Sessions;
- `POST /articles` and `PUT /articles/{id}/draft` store and delete bodies beside
  their change: ArticleStore;
- of a login, the validation and revocation of an earlier cookie's session and
  the cleanup: Sessions.

For them `AnswersTrue` of this module claims nothing; the middleware around them
is the same.

## 3. What is checked

| Run | Instance | Shows |
| --- | --- | --- |
| `article_store` | an empty table, 3 requests, or a published article, 2 requests; 2 slugs, 1 reader | types; true answers; bodies present; every step is a catalog step; readers find the body of the article the slug names |
| `article_late` | 1 published article, 2 requests, 3 slugs, late transactions | exact slug index, no lost update, permanent slugs |
| `article_late_bodies` | the same | **violated**: a body that a row references is deleted |
| `article_unannounced` | 1 published article, 2 requests, 2 slugs | **violated**: a stored publication is not announced |
| `public_cache_races` | 3 requests, 2 keys, 2 invalidations, expiry, panics | nothing stale is stored or served; single flight |
| `public_cache_limits` | 3 requests, 3 keys of sizes 1, 2, 4, limits 2 pages and 4 bytes, fair | map, list and byte count agree and stay within limits; every request is answered |
| `public_pages` | 2 articles, 2 slugs, 2 areas; 2 editors with 1 visitor or 1 editor with 2 | announcements cover every page of both versions; nobody is served a page older than the last announcement |
| `sessions` | 2 logins, a logout and a check with the first one's cookie, 2 credential versions; or 3 logins beyond a lifetime, pages of 1 row; 1 fault, fair | replaced and logged out sessions are dead and refused; issued sessions work; every expired row goes; every login ends |
| `sessions_logout` | 2 logins, 1 logout, no fault | **violated**: a logout fails although storage does not |
| `contacts` | a submission, 2 editors and a purge on an empty table; or with 2 old contacts, one of them due, an editor, a purge and a list; pages of 2, 1 fault, a slow clock | types, and rows that can be read again; every step is one of the book; changes follow the rules; true answers; a purge misses nothing that was due; lists are exact |
| `article_migration` | 3 articles in 5 casts: migration and 2 editors; 2 replicas; migration, old image and repair; migration and a compat list; migration, old image and a current-only list; raw pages of 2, pages of 1, 1 or 2 faults, fair | no version lost; the marker and a completed start mean convergence; true answers; exact lists; a start completes at last |
| `admin_requests` | 4 casts: 2 logins all the way; a request with one change and a read; 3 logins of two names from their own addresses; 3 logins of one name from 3 addresses; 2 faults, fair | whole and true answers to logins, requests with one change and reads; nobody let in too often, no address refused unfairly; every request is answered and every handler ends that does not block |

Why these bounds are enough to be interesting. Three requests on one article
are a creation followed by a save against a publication, two requests on a
published one a rename against a withdrawal, a save against a republication or
one after the other, in every interleaving, with every loss of an answer and a
crash anywhere; the two start from the same version or one from the other's.
Two slugs allow a rename and its reversal, three an alias and two competing
drafts. Two invalidations are the fewest with which a fill can be superseded
twice. In the cache-limit run the largest page fills the cache by itself, so
that inserting it evicts two pages at once, and two pages may be too many bytes
without being too many. Two editors are the fewest whose announcements
interleave. For sessions, a login and a logout that hold the same cookie revoke
it against each other, and a check reads between them; pages of one row make
every row its own page, and three logins are one to expire, one to hold the
continuation and one to sweep. `MaxFaults` = 1 allows one call to go unanswered
anywhere.

Contacts: an editor may cancel a deletion or schedule it anew at every step of
the purge, in another editor's or a late change's place; with three contacts and
pages of two the row a page ended with is repeated, and two contacts of one
instant lie on either side of it; the slow instance is a whole unit behind, and
the deletion falls on the purge's cutoff. Migration: the three articles' keys
are ordered so that a row moves forwards, backwards and over the page a list is
at; one legacy row stores its ID and one does not, one article has both rows;
two migrators and a migrator with two editors are every pair of writers that
meet. Admin requests meet in the limiter only, so casts play apart: with a
capacity of one and a refill of two, a token is earned, spent and forgotten
within the five ticks; a reading may be one tick late; two buckets hold two of
three addresses, and a second name fills the set. Two attempts and two pages
allow a list to be retried after its first page, two faults a lost answer and a
failing look at what became of it.

`CHECK_DEADLOCK FALSE` everywhere: each request and visitor of an instance acts
once, so every run ends.

Symmetry. Logins are numbered, since their row keys are ordered; logouts,
checks and credential versions are interchangeable. Requests, readers, slugs,
clients, editors, articles and areas are interchangeable; in the prepared
states the two requests that are over and the published slug are not, and are
left out of the permutations. Symmetry is not used in the runs with a liveness
property.

Views. `LiveState` of MCArticleStore drops the local state of requests that are
over and the slug rows a request read once its transaction cannot be applied
any more: no action reads either. It keeps everything the properties mention
(`NoLostUpdate` reads `stored` only of requests about to commit). `LiveState`
of MCPublicPages compares generations only with the current one, drops the
recency order (256 pages are never exceeded in the instance) and, of a visitor
who has been served and whom no follower waits for, keeps whether the answer
was good enough. `LiveState` of MCContacts drops what an ended request was
about, but for the rows it wrote, and of a failed scan what it owed.

Fairness is assumed in four runs. In `sessions`, weak fairness of each
request's next step: calls return or time out; a request that fails or goes
unanswered is never required to. `FairSpec` of PublicCache gives weak fairness
to the leader of a fill and to the waking of its followers: storage calls have
deadlines (`storage/azure/retry.go`), handlers run to their end, and a closed
channel is received from. Nothing makes visitors come or cancel, or contents
change. With a fill that panics the property would not hold: the flight stays in
the map and its channel is never closed (`cache.go:74`; the panic is recovered
by the middleware), so followers wait for their own deadline.
`public_cache_limits` excludes panics; `public_cache_races` includes them. In
`article_migration`, weak fairness of each migrator's next step, its restart
included: the platform restarts a process that failed, and the faults of an
instance are bounded, as a storage that is down for ever lets no start complete.
`MigrationEnds` excepts an article whose two rows differ: the code refuses to
choose, and a start then fails for good until somebody repairs the rows. In
`admin_requests`, timers fire and the waiting goroutine runs (`Expire`,
`Deliver`, `TimeOut`), and a handler goes on unless it is in `Stuck`: the first
login and the read may block for ever, and are answered nevertheless.

### Three disagreements with the documentation

1. *A failed update can delete a body that a row references.* The design
   (`docs/superpowers/specs/2026-09-11-studio-legale-callegarin-website-design.md:221`)
   says a failed metadata update "can leave an unreachable blob, which is
   safe". When a transaction is not answered in time, `reconcileUpdate` reads
   the article; if it still has its earlier state the repository reports a
   definite failure and the service deletes the new body. A transaction applied
   after that read leaves the row without its body. `article_late_bodies` is
   the trace; everything else about the row and its slugs stays right
   (`article_late`, and by proof).
2. *A stored change may never be announced.* The design (line 281) says
   published writes invalidate their pages after the update succeeds. If the
   verification after the transaction fails, `Publish` and `Withdraw` return
   `ErrCommitUnknown` and skip the notification: the cache serves the old pages
   until they expire. `article_unannounced` is the trace.
3. *A logout can fail on a session that is gone.* The comment at
   `auth/service.go:114` calls `Logout` idempotent for absent and expired
   sessions. If the session expires after `Logout` judged it and another
   login's cleanup deletes the row, `Revoke` finds nothing; `revoke` treats
   only a conflict as a reason to look again, so the error reaches the admin
   as a 503. `sessions_logout` is the trace.

Everything about bodies and answers is therefore checked and proved under
`LateDelivery = FALSE`, and so said.

## 4. What is proved

All theorems hold for every set of requests, readers, slugs, clients and keys,
and every size and limit. The assumptions on constants are `NoneAssumption`
(nil is none of the values), `CastAssumption` and `OrderAssumption` (who takes
part in the migration; row keys are ordered and distinct), `LateAssumption`,
`BoundsAssumption` and `NumberAssumption` (types of the parameters, and that a table
has finitely many articles), `KindAssumption` (a request is a
login, a logout or a check; logins are numbered), for the limiter
`IdleAssumption`, for the requests `RequestAssumption` (their kinds are disjoint),
`ExecutorAssumption` and `NoReplyAssumption`, for the contacts `SkewAssumption`,
`DelayAssumption` and `FilterAssumption` (types of the delays and filters), and
for the catalog `NoneIsNoEntry` (nil is no article either).

**The slug index** (`ArticleStoreProofs`). `SlugIndexExact` alone is not
inductive: `Update` relies on rows it read earlier. `IndexInv` adds

- `Control`: what is known of a request at each step of its program;
- `Once`: a request's transaction is applied at most once;
- `Versions`: ETags are issued in order, and a version once loaded is the
  current one exactly if the ETag still is (`IsPast`);
- `SeenRows`: *a planned slug row that has changed since it was read is either
  conditioned by the transaction or belongs to another version of the article*,
  so that a transaction whose conditions hold was planned from the rows as they
  are.

From it follow `TypeCorrect`, `SlugIndexCorrect`, `NoUpdateIsLost` and
`PublicSlugsStay`, with late transactions or without. The reader of the proof
should start at `ApplyIndex`: the transaction of a request that planned from
current rows leaves an exact index.

**Bodies and answers** (`ArticleStoreProofs`, second part), if `LateDelivery = FALSE`.
`BodyInv` adds to `IndexInv` that bodies belong to one article (`BodiesOwned`),
that a request past its upload has its body (`BodiesUploaded`), what a request
may conclude about its own transaction at each step (`OutcomeKnown`), and that
a draft about to be pruned is not, and never again will be, referenced
(`Superseded`). From it follow `BodiesSafe` and `AdminsToldTheTruth`. For
visitors, `ReadersSafe` adds the body a visitor is about to fetch: it is there,
or the article has changed since it was read (`Shielded`: nobody who could still
delete it has a reason to before). From it follows `VisitorsServed`.

**The catalog** (`ArticleStoreProofs`, last part), if `LateDelivery = FALSE`. Almost every
step stutters; the catalog moves when a transaction is applied (`RowWritten`,
`EntryWritten`) and when a request is answered (`AnswersGiven`). What `BodyInv`
lacks is that a request still holds what it was accepted on (`Accepted`), so that
the version it replaces permits the operation. That the slug it writes is free in
the catalog, which has no slug rows, follows from the exact index *after* the
step (`FreeSlug`): a row has one owner. `CatalogImplemented` is the step,
`ServiceImplementsCatalog` adds the initial state.

**The migration** (`ArticleMigrationProofs`), for any number of articles,
replicas, repairs, compat and current-only editors, lists, crashes and late
transactions. `MigrationInv` is the strengthening:

- `Routes`: the steps of each kind of request, and what it holds there;
- `Genuine`: an editor's version is met in a row, a read, a page or a move only
  once it was written, and an unanswered save belongs to an editor that is
  finding out about it or was saved;
- `Latest`: the version last written is the current row's if there is one, the
  legacy row's otherwise, and a current row never disappears;
- `SafeChanges`: what a transaction relies on besides the ETag it names. A
  legacy row is dropped only beside a current one, and a current-only instance
  works only behind the marker;
- `MarkerTrue`: no legacy row is left behind the marker or one that may still
  land, but those an image from before the compat boundary has written;
- `Scanned`: a legacy row that a pass is about is on its page, ahead of its
  continuation, or the row in hand, unless the pass has moved a row and so will
  be repeated.

`Scanned` is what the code's loop is for: rows are moved behind the scan and by
others, but legacy rows appear only by old images (`LegacyMoves`), so a pass that
moved nothing has met them all, and `persist` is reached with none left. What a
step does to the table is said once (`TableMoves`, `StepMoves`), from the
transactions it may apply; each part of the invariant has its lemma. From it
follow `MigrationTypeCorrect`, `MigrationConverged`, `NoSaveLost` and
`EditorsToldTheTruth`.

Lists have an invariant of their own, `ListInv`. `Promised` and `CompatGiven` say
where a list stands: what it has given comes up to its cursor and was given once,
what it keeps comes after. `CompatReach` says of every article nobody has touched
that one of its rows is ahead of the scan, or it was met, or it was given. *Met* is
what makes the bounded memory of the compat list right: the article is kept, or
more than a page of newer ones are (`NewestMet`, a counting argument over finite
sets), so that it cannot be on this page and the next scan, from the beginning,
meets it again. A current-only list continues after the last key it gave and stops
at a full page, so its parts (`CurrentGiven`, `CurrentReach`) are about the order of
keys: given, then kept, then the continuation. `ListsMove` shows that no other
request moves a list or an untouched row. From these follows `ListsCorrect`, for
any page sizes of the table service and of the list.

**The cache** (`PublicCacheProofs`). `FreshInv` adds that flights in the map
are their leaders' (`Registered`) and that whatever a request of the current
generation holds is no older than the last announcement of its key (`Fresh`).
From it follow `AnswersAreFresh`, `StoredPagesAreFresh` and `OneFillPerKey`.

`Limits` is `WithinLimits` with the list's type. What it takes are facts about
lists and bytes: a list without some elements has the others, each once
(`WithoutFacts`); one that names nothing twice is as long as what it names
(`ListLength`), so that removals keep the number of pages in bounds; and the bytes
of pages that have nothing in common add up (`BytesAdd`, `BytesLess`), for which
the model counts bytes as a set of places. An insertion evicts a tail of the list
whose loss brings both counts under their limits; to evict everything always does,
so there is such a tail and a shortest one (`Greatest`). With the bounds of the
model's counters (`Bounds`) follow `CacheTypeCorrect` and `CacheWithinLimits`, for
any sizes of pages and any limits, zero included.

**The public pages** (`PublicPagesProofs`). The cache is used by its own
operations (`PagesUseCache`), so its invariant carries over; `Genuine` in it says
that nothing cached is newer than the store. `Covered` is what the pages add: a
page whose content is not what was last announced is in an invalidation some
editor has still to make. A change is stored with its whole series
(`ChangesAnnounced`: a page that a new version of an article alters is a list, or
the detail or area page of one of the two versions), and each invalidation takes
one element off and announces its pages as they then are, other editors' changes
included. From it follow `CachedPagesCurrent` and `AnnouncedChangesVisible`. The
aliases' invalidations are not needed for either: no page is rendered under an
alias.

**Sessions** (`SessionsProofs`). `SessionInv` adds to the properties that every
cookie was handed out (`Cookies`), that a login's row is added at most once and
never after its token was handed out (`AddedOnce`), that what a request
remembers of a session is the truth or an older truth (`Remembered`: a row
changes only from living to revoked to gone), and that a login that creates has
a dead prior session (`Replaced`). `RowSteps` says what a step may do to a row;
`DeadStays` follows from it, and `SessionEnded` is the step at which a request
has made its session dead. From the invariant follow `ReplacedSessionsAreDead`,
`LoggedOutSessionsAreDead`, `DeadSessionsAreRefused` and `DeadSessionsStayDead`,
whatever lands late. `CleanInv` is about the cleanup: a row is its login's, and
revoked by a request that held it (`Origins`); whatever is listed or sent for
deletion is over (`Condemned`) and so stays deletable however late the deletion
is applied; a login runs within the lifetime of its session (`Deadlines`); and a
row that had expired when a login began is on its page or where it has yet to
list (`Covered`), since rows that appear behind it are younger. From it follow
`IssuedSessionsAreAlive` and `ExpiredSessionsAreSwept`, for any number of rows
and any page size.

**The limiter** (`LoginLimiterProofs`). `UsernamesExact`: a username's bucket
equals its balance, or has been forgotten and the balance is, for every reading
of the clock that anybody may still hold, full again. `IdleMeansFull` is the
step that forgets, `AskedAlike` the step that uses a bucket. From it follows
`UsernamesNotOverdrawn`. `AddressesGenerous`: an address's bucket never holds
less than its balance, nor was refilled later; so who is refused has no token
(`AddressesNotWronged`). `LimitsKept` needs the order prune, make room, insert,
and that the configured username is pinned. The limiter's specification is
`LimiterSpec`.

**Admin requests** (`AdminRequestsProofs`). `RequestsUseLimiter` shows that the
requests touch the limiter by its own operations, so that the limiter's theorems
hold of the logins that pass it (`LoginsNotOverdrawn`, `LoginsNotWronged`).
`RequestInv` says of each request, a login, a request with one change or a read,
which steps its kind takes (`Route`), what it may have sent and had applied at
each (`Sending`), that a read holds every page of this attempt (`Keeping`), and
that the buffer holds the truth and only a timeout is answered otherwise
(`Telling`). From it follow `RequestsTypeCorrect`, in which `sent` is what matters
(a change is sent once at most), and `ClientsToldTheTruth`. The theorems say
nothing of the requests that `Change` leaves out.

**Contacts** (`ContactsProofs`). The invariant `Inv` says of each kind of
request where it may be and what it has sent by then (`Progress`), what it calls
for (`Calls`), that every row was written by its call and carries the version
after the one that call named (`RowsWritten`) and satisfies `Validate`
(`RowsValid`), and that what an editor is about
to store, or a purger to delete, fits the version it names *as long as that
version is the contact's* (`EditsApt`, `PurgesApt`). The last two survive the
steps of others because a version once left never comes back (`VersionsPass`).
From it follow `ChangesCorrect` and `BookImplemented`, the refinement of
ContactBook, with late changes or without; `ContactsImplementBook` adds the
initial states. `AnswersCorrect` assumes `LateDelivery = FALSE` and needs two more
facts: what a request has read tells it its outcome (`OutcomesKnown`), and no
contact can be purged while its submission still runs (`SubmissionsShort`, where
`SkewAssumption` enters: clocks are less than the deletion delay apart).

For the scans, `GivenOnce` says that what a viewer was given does not lie ahead of
its cursor (a contact never changes its place, `RowsInPlace`, and the repository's
comparison is the order of keys, `KeysOrdered`), `ViewsReach` that what nobody has
touched is ahead of it or has been decided, and `PurgesReach` that what is due is
ahead of a purger, on its page or in its hand. `PageHolds` is the page that all
three meet. From them follow `ScansExact` and `DueContactsPurged`, for any page
size, and with late changes or without.

Only model-checked: liveness (`Answered`, `SessionAnswered`, `MigrationEnds`,
`RequestsEnd`), which the prover does not handle.

## 5. What is not modelled

- Errors the storage adapter leaves unclassified (`storage/azure/errors.go:53`)
  are treated as refusals in ArticleStore; AdminRequests has the case, as an
  answer nothing is claimed of. The limit of 100 operations per batch
  (`driver.go:68`) is not modelled: a hundred former slugs are out of reach.
- A compat lookup that reads before and after a row is moved finds it at neither
  place and answers "not found" (`storage/azure/articles.go:92`), and any
  conflict of a migrated article's update is reported as a slug that is taken
  (`articles.go:388`). ArticleMigration has both; no document promises more.
- In AdminRequests: purge-due, logout, the creation and the draft of an article,
  and a login's earlier session and cleanup (in Contacts, Sessions and
  ArticleStore, without the middleware); the dashboard and the lists, which
  change nothing and are scans of Contacts and ArticleMigration.
- No instance of the cache has a page larger than `MaxBytes`, and no cast of
  `article_migration` has both editors and a list: the proofs cover both.
- The signed tokens of the contact form, the texts of contacts and their search,
  the encoding of cursors: data.
- Startup after the migration, configuration, shutdown; the rollout scripts,
  beyond what ArticleMigration assumes of them; the admin UI, a client that
  shows what it is answered.
- The in-memory bodies and sessions (every operation is one critical section),
  password hashing, the document compiler, templates, assets, parsing and
  configuration: pure functions or sequential wiring, better served by tests.

`PROJECT.json` lists every component with its status, the source lines of every
definition, and every hazard with the properties that cover it or the reason
why none does yet.

## 6. Plan

1. The rollout as a composition: revisions in compat, migrate and repair mode,
   with the script's own steps and the traffic weights, on top of
   ArticleMigration.
2. The admin UI: the ETag it keeps, the draft it holds back, and the answers
   "unknown" and "conflict" it shows, on top of ArticleStore.
