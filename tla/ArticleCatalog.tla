--------------------------- MODULE ArticleCatalog ---------------------------
(***************************************************************************)
(* What the article service promises its callers (ArticleService in        *)
(* internal/articles/service.go): a catalog of articles in which every     *)
(* change takes effect at one instant, on the version that is current at   *)
(* that instant, under slugs no other article uses; and answers that are   *)
(* true.  There are no slug rows, ETags, retries or cleanups here:         *)
(* ArticleStore has them and implements this specification.                *)
(***************************************************************************)
EXTENDS Naturals

CONSTANTS Request, Slug, None

VARIABLES
  catalog,  \* the articles, by the request that created them
  applied,  \* the requests that took effect
  told      \* what each request was told

vars == <<catalog, applied, told>>

Names(a) == {a.slug} \cup a.historical \cup ({a.published} \ {None})

\* No other article has, had or drafts the slug.
Free(id, s) ==
  \A other \in Request \ {id} : catalog[other] # None => s \notin Names(catalog[other])

Init ==
  /\ catalog = [id \in Request |-> None]
  /\ applied = {}
  /\ told = [r \in Request |-> "none"]

Create(r, s) ==
  /\ catalog[r] = None
  /\ Free(r, s)
  /\ catalog' = [catalog EXCEPT ![r] =
       [slug |-> s, status |-> "draft", draftBody |-> r, publishedBody |-> None,
        published |-> None, historical |-> {}, updatedAt |-> r]]

Save(r, id, s) ==
  /\ catalog[id] # None
  /\ s \notin catalog[id].historical
  /\ Free(id, s)
  /\ catalog' = [catalog EXCEPT ![id].slug = s, ![id].draftBody = r, ![id].updatedAt = r]

\* The draft becomes public; the slug it replaces stays as an alias.
Publish(r, id) ==
  LET a == catalog[id] IN
  /\ a # None
  /\ a.slug \notin a.historical
  /\ catalog' = [catalog EXCEPT ![id] =
       [a EXCEPT !.status = "published", !.publishedBody = a.draftBody,
                 !.published = a.slug,
                 !.historical = @ \cup ({a.published} \ {None, a.slug}),
                 !.updatedAt = r]]

Withdraw(r, id) ==
  /\ catalog[id] # None
  /\ catalog[id].status = "published"
  /\ catalog' = [catalog EXCEPT ![id].status = "withdrawn", ![id].updatedAt = r]

Change(r) ==
  /\ r \notin applied /\ told[r] = "none"
  /\ \/ \E s \in Slug : Create(r, s)
     \/ \E id \in Request, s \in Slug : Save(r, id, s)
     \/ \E id \in Request : Publish(r, id) \/ Withdraw(r, id)
  /\ applied' = applied \cup {r}
  /\ UNCHANGED told

Tell(r) ==
  /\ told[r] = "none"
  /\ \E reply \in {"ok", "failed", "unknown", "lost"} :
       /\ reply = "ok" => r \in applied
       /\ reply = "failed" => r \notin applied
       /\ told' = [told EXCEPT ![r] = reply]
  /\ UNCHANGED <<catalog, applied>>

\* A process stopped during its cleanup never sends the answer it had.
Lose(r) ==
  /\ told[r] \in {"ok", "failed"}
  /\ told' = [told EXCEPT ![r] = "lost"]
  /\ UNCHANGED <<catalog, applied>>

Next == \E r \in Request : Change(r) \/ Tell(r) \/ Lose(r)

Spec == Init /\ [][Next]_vars

=============================================================================
