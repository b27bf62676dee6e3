----------------------------- MODULE PublicPages -----------------------------
(***************************************************************************)
(* The public pages behind the cache: which page shows which article       *)
(* (internal/web/public), how a publication or a withdrawal reaches the    *)
(* cache as a series of invalidations (Renderer.PublicArticleChanged), and *)
(* what visitors get meanwhile.                                            *)
(*                                                                         *)
(* The article service is taken at its word here (ArticleCatalog): a       *)
(* change is stored at one instant, and its handler then reports it.  The  *)
(* cache is PublicCache; its eviction and expiry have their own instance.  *)
(***************************************************************************)
EXTENDS Naturals, Sequences, SequencesExt

CONSTANTS Article, Slug, Area, Cursor, Client, None,
          Editor  \* admin requests that publish or withdraw, each made once

Page ==
  [kind : {"home", "sitemap"}, of : {None}] \cup [kind : {"index"}, of : Cursor]
    \cup [kind : {"detail"}, of : Slug] \cup [kind : {"area"}, of : Area]

\* What visitors may see of an article.
Snapshot ==
  [status : {"published", "withdrawn"}, slug : Slug, area : Area,
   historical : SUBSET Slug, revision : Nat]

VARIABLES
  public,    \* the published snapshot of each article
  edit,      \* each editor's progress
  toCancel,  \* the invalidations an editor's handler still has to make
  due        \* history: the page a client is owed when it asks

\* The cache's own state.
VARIABLES now, version, announced, entries, recency, totalBytes, flights,
          generation, request, floor

Cache == INSTANCE PublicCache WITH
  Key <- Page, Size <- [p \in Page |-> 1], MaxEntries <- 256, MaxBytes <- 256,
  TTL <- 1, MaxNow <- 0, FillMayPanic <- FALSE,
  MaxVersion <- 100, MaxGeneration <- 100

ASSUME NoneAssumption == None \notin Client \cup Nat \cup Snapshot \cup Cache!Entry

site == <<public, edit, toCancel>>
cache == <<now, version, announced, entries, recency, totalBytes, flights,
           generation, request, floor>>
vars == <<site, due, cache>>

-----------------------------------------------------------------------------
(* What a page shows. *)

Published(p) == {a \in Article : p[a] # None /\ p[a].status = "published"}

Shown(p, page) ==
  CASE page.kind \in {"home", "sitemap", "index"} -> Published(p)
    [] page.kind = "detail" -> {a \in Published(p) : p[a].slug = page.of}
    [] page.kind = "area" -> {a \in Published(p) : p[a].area = page.of}

Content(p, page) == {<<a, p[a].revision>> : a \in Shown(p, page)}

\* An article page without an article is an error, and errors are not cached.
Rendered(page) == page.kind = "detail" => Shown(public, page) # {}

PublicNames(snapshot) == {snapshot.slug} \cup snapshot.historical

-----------------------------------------------------------------------------
(* PublicArticleChanged(before, after): one mutex acquisition per element. *)

DetailAndArea(snapshot) ==
  {[kind |-> "detail", of |-> snapshot.slug], [kind |-> "area", of |-> snapshot.area]}

\* Both versions' own pages, then their aliases.
PagesOf(snapshot) ==
  IF snapshot = None THEN <<>>
  ELSE <<DetailAndArea(snapshot)>>
         \o SetToSeq({{[kind |-> "detail", of |-> s]} : s \in snapshot.historical})

ListPages == <<{[kind |-> k, of |-> None] : k \in {"home", "sitemap"}},
               {[kind |-> "index", of |-> c] : c \in Cursor}>>

\* Mutant: only the pages of the new version are invalidated.
AnnouncementOfNew(before, after) == ListPages \o PagesOf(after)

\* Mutant: the article index is forgotten.
AnnouncementNoIndex(before, after) ==
  <<ListPages[1]>> \o PagesOf(before) \o PagesOf(after)

Announcement(before, after) == ListPages \o PagesOf(before) \o PagesOf(after)

-----------------------------------------------------------------------------
\* No change is waiting for its announcement.
Quiet == \A e \in Editor : edit[e] # "announcing"

FirstVersion(s, x) ==
  [status |-> "published", slug |-> s, area |-> x, historical |-> {}, revision |-> 0]

\* At most one article is public yet.
Init ==
  /\ Cache!Init
  /\ \/ public = [a \in Article |-> None]
     \/ \E a \in Article, s \in Slug, x \in Area :
          public = [b \in Article |-> IF b = a THEN FirstVersion(s, x) ELSE None]
  /\ edit = [e \in Editor |-> "idle"]
  /\ toCancel = [e \in Editor |-> <<>>]
  /\ due = [c \in Client |-> 0]

Store(e, a, snapshot) ==
  LET changed == {page \in Page :
                    Content(public, page) # Content([public EXCEPT ![a] = snapshot], page)} IN
  /\ edit[e] = "idle"
  /\ public' = [public EXCEPT ![a] = snapshot]
  /\ Cache!Change(changed)
  /\ edit' = [edit EXCEPT ![e] = "announcing"]
  /\ toCancel' = [toCancel EXCEPT ![e] = Announcement(public[a], snapshot)]
  /\ UNCHANGED due

\* The draft's slug and area become public; the service keeps slugs exclusive.
Publish(e, a) ==
  \E s \in Slug, x \in Area :
    /\ public[a] # None => s \notin public[a].historical
    /\ \A b \in Article \ {a} : public[b] # None => s \notin PublicNames(public[b])
    /\ Store(e, a, IF public[a] = None THEN FirstVersion(s, x)
                   ELSE [status |-> "published", slug |-> s, area |-> x,
                         historical |-> PublicNames(public[a]) \ {s},
                         revision |-> public[a].revision + 1])

Withdraw(e, a) ==
  /\ public[a] # None /\ public[a].status = "published"
  /\ Store(e, a, [public[a] EXCEPT !.status = "withdrawn"])

Announce(e) ==
  /\ edit[e] = "announcing"
  /\ IF toCancel[e] = <<>>
       THEN /\ edit' = [edit EXCEPT ![e] = "done"]
            /\ UNCHANGED <<toCancel, cache>>
       ELSE /\ Cache!Invalidate(Head(toCancel[e]))
            /\ toCancel' = [toCancel EXCEPT ![e] = Tail(@)]
            /\ UNCHANGED edit
  /\ UNCHANGED <<public, due>>

\* A visitor asks for a page.
Visit(c) ==
  \E page \in Page :
    /\ Cache!Hit(c, page) \/ Cache!Join(c, page) \/ Cache!Lead(c, page)
    /\ due' = [due EXCEPT ![c] = IF Quiet THEN version[page] ELSE announced[page]]
    /\ UNCHANGED site

\* The page is rendered and served.
Serve(c) ==
  /\ \/ Cache!Read(c) /\ Rendered(request[c].key)
     \/ Cache!ReadFails(c) \/ Cache!Complete(c) \/ Cache!Wake(c) \/ Cache!Cancel(c)
  /\ UNCHANGED <<site, due>>

Next ==
  \/ \E e \in Editor : (\E a \in Article : Publish(e, a) \/ Withdraw(e, a)) \/ Announce(e)
  \/ \E c \in Client : Visit(c) \/ Serve(c)

Spec == Init /\ [][Next]_vars

-----------------------------------------------------------------------------
\* Once every stored change has been announced, the cache holds no page that
\* shows anything else than the articles do: the invalidations cover every page
\* that depends on either version, in whatever order two handlers make them.
PagesCurrent ==
  Quiet => \A page \in Page : entries[page] # None => entries[page].value = version[page]

\* A visitor who asks after the last announcement sees the change, even when the
\* page was being rendered, or was joined, before it.
ChangesVisible ==
  \A c \in Client :
    request[c].step = "answered" /\ request[c].value # None => request[c].value >= due[c]

=============================================================================
