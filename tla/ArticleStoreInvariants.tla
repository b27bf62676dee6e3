----------------------- MODULE ArticleStoreInvariants -----------------------
(***************************************************************************)
(* Why ArticleStore is correct: the inductive invariants behind its safety *)
(* properties, which TLC checks on small instances and                     *)
(* ArticleStoreProofs proves for all of them.                              *)
(***************************************************************************)
EXTENDS ArticleStoreImplements

\* Nothing was submitted yet.
Before == {"idle", "load", "put", "check", "reread", "plan", "submit"}

\* The repository works on the version it has reread.
Planned == {"plan", "submit", "refresh", "reconcile", "verifyNew", "verifyOld"}

\* The service works on the version it has loaded.
Loaded == Planned \cup {"put", "reread", "prune", "announce"}

\* The steps of a request, its operation and what it remembers fit together.
Control ==
  /\ \A r \in Request :
       /\ call[r] = None <=> pc[r] = "idle"
       /\ r \in inflight => pc[r] \notin Before
       /\ pc[r] \in {"idle", "load"} => stored[r] = None
       /\ pc[r] \in {"idle", "load", "put", "check", "reread"} =>
            prior[r] = None /\ seen[r] = [s \in Slug |-> None]
       /\ call[r] # None =>
            /\ Created(r) => /\ call[r].id = r
                             /\ stored[r] = None /\ prior[r] = None
                             /\ seen[r] = [s \in Slug |-> None]
                             /\ pc[r] \notin {"load", "reread", "plan", "verifyOld", "prune", "announce"}
            /\ ~Created(r) => pc[r] # "check"
            /\ UploadsBody(r) => call[r].slug \in Slug /\ pc[r] # "announce"
            /\ ~UploadsBody(r) => pc[r] \notin {"put", "prune", "discard"}
            /\ ~Created(r) /\ pc[r] \in Loaded => stored[r] # None
            /\ ~Created(r) /\ pc[r] \in Planned => prior[r] # None
            /\ ~Created(r) /\ r \in inflight => stored[r] # None /\ prior[r] # None
  /\ \A v \in Reader :
       /\ view[v].step = "article" => view[v].owner # None
       /\ view[v].step = "body" => view[v].version # None

\* A request submits one transaction, which is applied at most once.
Once ==
  \A r \in Request :
    /\ pc[r] \in Before => r \notin committed
    /\ r \in inflight => r \notin committed

\* A remembered version is the current one or an older one.
IsPast(v, current) ==
  /\ v.etag <= current.etag
  /\ v.updatedAt = current.updatedAt <=> v.etag = current.etag
  /\ v.etag = current.etag => v = current

\* Versions of an article are told apart by their ETag as well as by their
\* content, and what a request remembers was read in this order: the ETag the
\* admin saw, the service's version, the repository's version, today's version.
Versions ==
  /\ \A id \in Request : article[id] # None =>
       article[id].etag <= lastETag /\ article[id].updatedAt \in committed
  /\ \A r \in Request : call[r] # None /\ ~Created(r) =>
       LET now == article[call[r].id] IN
       /\ now # None
       /\ call[r].etag <= now.etag
       /\ stored[r] # None =>
            /\ IsPast(stored[r], now) /\ stored[r].updatedAt \in committed
            /\ call[r].etag <= stored[r].etag
       /\ prior[r] # None =>
            /\ IsPast(prior[r], now) /\ prior[r].updatedAt \in committed
            /\ stored[r] # None /\ stored[r].etag <= prior[r].etag
       /\ pc[r] \in Planned \/ r \in inflight => prior[r].etag = call[r].etag

\* Request r has dealt with slug s.
SlugPlanned(r, s) ==
  \/ pc[r] = "plan" /\ s \notin todo[r]
  \/ pc[r] = "submit"
  \/ r \in inflight

\* The slug rows a request plans with are its article's or still to be added,
\* and they are up to date for as long as its article row is.
SeenRows ==
  \A r \in Request, s \in Slug : call[r] # None /\ seen[r][s] # None =>
    /\ prior[r] # None
    /\ SlugPlanned(r, s) /\ s \in Names(Desired(r)) => seen[r][s].owner = call[r].id
    /\ seen[r][s].owner = call[r].id /\ article[call[r].id].etag = prior[r].etag
         => slugRow[s] = seen[r][s]

\* Inductive, with or without late delivery.
IndexInv == TypeOK /\ Control /\ Once /\ Versions /\ SeenRows /\ SlugIndexExact

-----------------------------------------------------------------------------
Bodies(v) == {v.draftBody, v.publishedBody} \ {None}

\* A body belongs to the article its request saved it for, and is referenced
\* only once that request has taken effect.
BodiesOwned ==
  /\ \A id \in Request : article[id] # None =>
       \A b \in Bodies(article[id]) : b \in committed /\ call[b] # None /\ call[b].id = id
  /\ \A r \in Request : stored[r] # None =>
       \A b \in Bodies(stored[r]) : b \in committed /\ call[b] # None /\ call[b].id = call[r].id

\* A body is stored until its request has been given up.
BodiesUploaded ==
  \A r \in Request :
    call[r] # None /\ UploadsBody(r) /\ pc[r] \in {"check", "reread", "plan", "submit"} => r \in blobs

\* What the control state of a request says about its transaction.
OutcomeKnown ==
  \A r \in Request :
    /\ pc[r] \in {"verifyOld", "discard"} \/ answer[r] = "failed" => r \notin committed
    /\ pc[r] \in {"refresh", "verifyNew", "prune", "announce"} \/ answer[r] = "ok" => r \in committed
    /\ answer[r] # "none" => pc[r] \in {"discard", "done"}
    /\ pc[r] = "discard" => answer[r] = "failed"

\* A change that was applied stays superseding: the version it replaced, and the
\* draft body it replaced, never come back.
Superseded ==
  \A r \in committed : call[r] # None /\
    LET now == article[call[r].id] IN
    /\ now # None
    /\ ~Created(r) => call[r].etag < now.etag
    /\ call[r].op = "save" /\ stored[r] # None /\ stored[r].draftBody # stored[r].publishedBody
       => stored[r].draftBody \notin Bodies(now)

\* The version a request was accepted on still accepts it when it is submitted.
Accepted ==
  \A r \in Request :
    call[r] # None /\ ~Created(r) /\ pc[r] \in {"put", "reread", "plan", "submit"}
      => Acceptable(r, stored[r])

\* Inductive when storage does not apply a transaction after its client gave up.
BodyInv ==
  IndexInv /\ inflight = {} /\ BodiesOwned /\ BodiesUploaded /\ OutcomeKnown
  /\ Superseded /\ BodiesPresent

-----------------------------------------------------------------------------
\* No save, past or to come, replaces the body as a draft that is not public.
Shielded(id, body) ==
  /\ body \in committed /\ call[body] # None /\ call[body].id = id
  /\ article[id] # None
  /\ article[id].draftBody = body => article[id].publishedBody = body
  /\ \A q \in committed :
       call[q].op = "save" /\ call[q].id = id /\ stored[q] # None /\ stored[q].draftBody = body
         => stored[q].publishedBody = body

\* What a visitor has read so far still leads to a public text.
ReadersSafe ==
  \A v \in Reader :
    /\ view[v].step = "article" =>
         /\ article[view[v].owner] # None
         /\ view[v].slug \in PublicNames(article[view[v].owner])
    /\ view[v].step = "body" =>
         /\ view[v].slug \in PublicNames(view[v].version)
         /\ view[v].version.publishedBody \in blobs
         /\ Shielded(view[v].owner, view[v].version.publishedBody)

=============================================================================
