-------------------------- MODULE PublicPagesProofs --------------------------
(***************************************************************************)
(* Proofs about PublicPages, for any articles, pages, editors and          *)
(* visitors: the invalidations of a publication or a withdrawal reach      *)
(* every page that shows the article, before it or after it.               *)
(***************************************************************************)
EXTENDS PublicPages, TLAPS, FiniteSetTheorems

\* The cache with what is proved of it.
CP == INSTANCE PublicCacheProofs WITH
  Key <- Page, Size <- [p \in Page |-> 1], MaxEntries <- 256, MaxBytes <- 256,
  TTL <- 1, MaxNow <- 0, FillMayPanic <- FALSE,
  MaxVersion <- 100, MaxGeneration <- 100

SiteTypes ==
  /\ public \in [Article -> Snapshot \cup {None}]
  /\ \A a \in Article : public[a] # None => IsFiniteSet(public[a].historical)
  /\ edit \in [Editor -> {"idle", "announcing", "done"}]
  /\ toCancel \in [Editor -> Seq(SUBSET Page)]
  /\ due \in [Client -> Nat]

\* Page page is among the pages still to be invalidated.
Ahead(page, series) == \E i \in 1..Len(series) : page \in series[i]

\* A page that was not announced as it is has its announcement ahead.
Covered ==
  \A page \in Page :
    announced[page] = version[page]
      \/ \E e \in Editor : edit[e] = "announcing" /\ Ahead(page, toCancel[e])

\* A client is owed nothing that had not been announced when it asked.
Owed == \A c \in Client : due[c] <= floor[c]

PagesInv == SiteTypes /\ Covered /\ Owed /\ CP!FreshInv

-----------------------------------------------------------------------------
(* PublicPages uses the cache by the cache's own operations. *)

\* None is no client, number or snapshot.
LEMMA NoneIsNothing == None \notin Client /\ None \notin Nat /\ None \notin Snapshot
  BY NoneAssumption

\* The cache may use it as it does.
LEMMA NoneIsNoEntry == None \notin Client \cup Nat \cup CP!Entry
  BY NoneAssumption DEF Cache!Entry, CP!Entry

\* Both instances count alike.
LEMMA CountAlike == ASSUME NEW S PROVE Cache!Cardinality(S) = CP!Cardinality(S)
  BY Zenon DEF Cache!Cardinality, CP!Cardinality, Cache!IsFiniteSet, CP!IsFiniteSet

\* The bytes of some pages are the same in both instances.
LEMMA BytesAlike == ASSUME NEW keys PROVE Cache!Bytes(keys) = CP!Bytes(keys)
  BY Zenon, CountAlike DEF Cache!Bytes, CP!Bytes

\* So are lists without some elements, ...
LEMMA WithoutAlike == ASSUME NEW seq, NEW keys PROVE Cache!Without(seq, keys) = CP!Without(seq, keys)
<1> DEFINE left == {i \in 1..Len(seq) : seq[i] \notin keys}
           one(n) == CHOOSE i \in left : Cache!Cardinality({h \in left : h <= i}) = n
           other(n) == CHOOSE i \in left : CP!Cardinality({h \in left : h <= i}) = n
<1>1. /\ Cache!Cardinality(left) = CP!Cardinality(left)
      /\ \A i : Cache!Cardinality({h \in left : h <= i}) = CP!Cardinality({h \in left : h <= i})
  BY CountAlike
<1>2. \A n : one(n) = other(n)
  BY <1>1
<1> HIDE DEF left, one, other
<1>3. [n \in 1..Cache!Cardinality(left) |-> seq[one(n)]] = [n \in 1..CP!Cardinality(left) |-> seq[other(n)]]
  BY <1>1, <1>2
<1> QED BY Zenon, <1>3 DEF Cache!Without, CP!Without, left, one, other

\* ... removals, ...
LEMMA RemovalAlike == ASSUME NEW keys PROVE Cache!RemoveEntries(keys) = CP!RemoveEntries(keys)
<1>1. /\ Cache!Without(recency, keys) = CP!Without(recency, keys)
      /\ Cache!Bytes({k \in keys : entries[k] # None}) = CP!Bytes({k \in keys : entries[k] # None})
  BY WithoutAlike, BytesAlike
<1> QED BY Zenon, <1>1 DEF Cache!RemoveEntries, CP!RemoveEntries

\* ... how many pages are kept, ...
LEMMA KeptAlike == ASSUME NEW seq, NEW total PROVE Cache!Kept(seq, total) = CP!Kept(seq, total)
<1> DEFINE gone(n) == {SubSeq(seq, n + 1, Len(seq))[i] : i \in 1..Len(SubSeq(seq, n + 1, Len(seq)))}
           one == {n \in 0..Len(seq) : n <= 256 /\ total - Cache!Bytes(gone(n)) <= 256}
           other == {n \in 0..Len(seq) : n <= 256 /\ total - CP!Bytes(gone(n)) <= 256}
<1>1. \A keys : Cache!Bytes(keys) = CP!Bytes(keys)
  BY BytesAlike
<1>2. \A n : Cache!Bytes(gone(n)) = CP!Bytes(gone(n))
  <2> HIDE DEF gone
  <2> QED BY <1>1
<1> HIDE DEF gone
<1>3. one = other
  BY <1>2
<1>4. Cache!Kept(seq, total) = Cache!Max(one) /\ CP!Kept(seq, total) = CP!Max(other)
  BY Zenon DEF Cache!Kept, CP!Kept, Cache!Keys, CP!Keys, gone
<1> HIDE DEF one, other
<1> QED BY Zenon, <1>3, <1>4 DEF Cache!Max, CP!Max

\* ... and insertions.
LEMMA InsertAlike == ASSUME NEW k, NEW value, Cache!Insert(k, value) PROVE CP!Insert(k, value)
<1> DEFINE order == <<k>> \o CP!Without(recency, {k})
          total == totalBytes + [p \in Page |-> 1][k] - (IF entries[k] = None THEN 0 ELSE [p \in Page |-> 1][k])
          kept == CP!Kept(order, total)
          evicted == CP!Keys(SubSeq(order, kept + 1, Len(order)))
<1>1. /\ kept = Cache!Kept(order, total)
      /\ evicted = Cache!Keys(SubSeq(order, Cache!Kept(order, total) + 1, Len(order)))
      /\ Cache!Bytes(evicted) = CP!Bytes(evicted) /\ Cache!Without(recency, {k}) = CP!Without(recency, {k})
  <2>1. kept = Cache!Kept(order, total)
    BY KeptAlike
  <2> HIDE DEF kept, order
  <2>2. evicted = Cache!Keys(SubSeq(order, Cache!Kept(order, total) + 1, Len(order)))
    BY <2>1 DEF Cache!Keys, CP!Keys
  <2> QED BY BytesAlike, WithoutAlike, <2>1, <2>2
<1>2. /\ entries' = [other \in Page |->
           IF other \in evicted THEN None
           ELSE IF other = k THEN [value |-> value, expiresAt |-> now + 1] ELSE entries[other]]
      /\ recency' = SubSeq(order, 1, kept)
      /\ totalBytes' = total - CP!Bytes(evicted)
  <2> HIDE DEF kept, evicted
  <2> QED BY <1>1 DEF Cache!Insert
<1> QED BY Zenon, <1>2 DEF CP!Insert

\* A visitor's step is one of the cache's.
LEMMA VisitAlike ==
  ASSUME NEW c \in Client, NEW page \in Page, Cache!Hit(c, page) \/ Cache!Join(c, page) \/ Cache!Lead(c, page)
  PROVE  CP!Next
<1>1. CASE Cache!Hit(c, page)
  <2>1. CP!Hit(c, page)
    BY Zenon, <1>1, WithoutAlike DEF Cache!Hit, CP!Hit, Cache!Live, CP!Live, Cache!source, CP!source, Cache!cached, CP!cached
  <2> QED BY Zenon, <2>1 DEF CP!Next, CP!Serve
<1>2. CASE Cache!Join(c, page)
  <2>1. CP!Join(c, page)
    BY Zenon, <1>2, RemovalAlike DEF Cache!Join, CP!Join, Cache!Live, CP!Live, Cache!Joinable, CP!Joinable,
       Cache!source, CP!source, Cache!cached, CP!cached, Cache!Ask, CP!Ask, Cache!RemoveExpired, CP!RemoveExpired
  <2> QED BY Zenon, <2>1 DEF CP!Next, CP!Serve
<1>3. CASE Cache!Lead(c, page)
  <2>1. CP!Lead(c, page)
    BY Zenon, <1>3, RemovalAlike DEF Cache!Lead, CP!Lead, Cache!Live, CP!Live, Cache!Joinable, CP!Joinable,
       Cache!source, CP!source, Cache!cached, CP!cached, Cache!Ask, CP!Ask, Cache!RemoveExpired, CP!RemoveExpired
  <2> QED BY Zenon, <2>1 DEF CP!Next, CP!Serve
<1> QED BY <1>1, <1>2, <1>3

\* So is a step that serves it, ...
LEMMA ServeAlike ==
  ASSUME NEW c \in Client, Serve(c)
  PROVE  CP!Next
<1>1. CASE Cache!Read(c)
  <2>1. CP!Read(c)
    BY Zenon, <1>1 DEF Cache!Read, CP!Read, Cache!source, CP!source, Cache!cached, CP!cached
  <2> QED BY Zenon, <2>1 DEF CP!Next, CP!Serve, CP!Fill
<1>2. CASE Cache!ReadFails(c)
  <2>1. CP!ReadFails(c)
    BY Zenon, <1>2 DEF Cache!ReadFails, CP!ReadFails, Cache!source, CP!source, Cache!cached, CP!cached
  <2> QED BY Zenon, <2>1 DEF CP!Next, CP!Serve, CP!Fill
<1>3. CASE Cache!Complete(c)
  <2>1. CP!Complete(c)
    BY Zenon, <1>3, InsertAlike DEF Cache!Complete, CP!Complete, Cache!source, CP!source, Cache!cached, CP!cached,
       Cache!Unregister, CP!Unregister, Cache!Storable, CP!Storable, Cache!Answer, CP!Answer
  <2> QED BY Zenon, <2>1 DEF CP!Next, CP!Serve, CP!Fill
<1>4. CASE Cache!Wake(c)
  <2>1. CP!Wake(c)
    BY Zenon, <1>4 DEF Cache!Wake, CP!Wake, Cache!Answer, CP!Answer, Cache!source, CP!source, Cache!cached, CP!cached
  <2> QED BY Zenon, <2>1 DEF CP!Next, CP!Serve
<1>5. CASE Cache!Cancel(c)
  <2>1. CP!Cancel(c)
    BY Zenon, <1>5 DEF Cache!Cancel, CP!Cancel, Cache!Answer, CP!Answer, Cache!source, CP!source, Cache!cached, CP!cached
  <2> QED BY Zenon, <2>1 DEF CP!Next, CP!Serve
<1> QED BY <1>1, <1>2, <1>3, <1>4, <1>5 DEF Serve

\* ... a change of some pages, ...
LEMMA ChangeAlike == ASSUME NEW keys \in SUBSET Page, Cache!Change(keys) PROVE CP!Next
<1>1. CP!Change(keys)
  BY Zenon DEF Cache!Change, CP!Change, Cache!cached, CP!cached
<1> QED BY Zenon, <1>1 DEF CP!Next

\* ... and their invalidation.
LEMMA InvalidateAlike == ASSUME NEW keys \in SUBSET Page, Cache!Invalidate(keys) PROVE CP!Next
<1>1. CP!Invalidate(keys)
  BY Zenon, RemovalAlike DEF Cache!Invalidate, CP!Invalidate
<1> QED BY Zenon, <1>1 DEF CP!Next

-----------------------------------------------------------------------------
(* What an announcement covers. *)

\* A finite set can be told off as a sequence.
LEMMA Listed == ASSUME NEW S, IsFiniteSet(S) PROVE SetToSeq(S) \in Seq(S)
<1>1. Cardinality(S) \in Nat /\ ExistsBijection(1..Cardinality(S), S)
  BY FS_CardinalityType
<1>2. \E f \in [1..Cardinality(S) -> S] : IsInjective(f)
  BY <1>1 DEF ExistsBijection, Bijection, Injection
<1>3. SetToSeq(S) \in [1..Cardinality(S) -> S]
  BY <1>2 DEF SetToSeq
<1> QED BY <1>1, <1>3

\* The pages of a version are sets of pages, its own among them.
LEMMA VersionPages ==
  ASSUME NEW snapshot \in Snapshot, IsFiniteSet(snapshot.historical)
  PROVE  /\ PagesOf(snapshot) \in Seq(SUBSET Page) /\ PagesOf(None) = <<>>
         /\ \A page \in DetailAndArea(snapshot) : Ahead(page, PagesOf(snapshot))
<1> DEFINE alias(s) == {[kind |-> "detail", of |-> s]}
           aliases == {{[kind |-> "detail", of |-> s]} : s \in snapshot.historical}
           f == [s \in snapshot.historical |-> alias(s)]
<1>1. IsFiniteSet(aliases)
  <2>1. f \in Surjection(snapshot.historical, aliases)
    BY DEF Surjection
  <2> HIDE DEF f, aliases
  <2> QED BY <2>1, FS_Surjection
<1>2. SetToSeq(aliases) \in Seq(aliases)
  BY <1>1, Listed
<1>3. snapshot.historical \subseteq Slug /\ snapshot.slug \in Slug /\ snapshot.area \in Area
  BY DEF Snapshot
<1>4. aliases \subseteq SUBSET Page /\ DetailAndArea(snapshot) \subseteq Page
  BY <1>3 DEF Page, DetailAndArea
<1>5. PagesOf(snapshot) = <<DetailAndArea(snapshot)>> \o SetToSeq(aliases) /\ PagesOf(None) = <<>>
  BY NoneIsNothing DEF PagesOf
<1> HIDE DEF aliases
<1>6. SetToSeq(aliases) \in Seq(SUBSET Page)
  BY <1>2, <1>4
<1>7. /\ PagesOf(snapshot) \in Seq(SUBSET Page)
      /\ 1 \in 1..Len(PagesOf(snapshot)) /\ PagesOf(snapshot)[1] = DetailAndArea(snapshot)
  BY <1>4, <1>5, <1>6
<1> QED BY <1>5, <1>7 DEF Ahead

\* Home, sitemap and index are among the list pages.
LEMMA ListsListed ==
  /\ ListPages \in Seq(SUBSET Page)
  /\ \A page \in Page : page.kind \in {"home", "sitemap", "index"} => Ahead(page, ListPages)
<1>1. /\ {[kind |-> k, of |-> None] : k \in {"home", "sitemap"}} \subseteq Page
      /\ {[kind |-> "index", of |-> c] : c \in Cursor} \subseteq Page
  BY DEF Page
<1>2. \A page \in Page : page.kind \in {"home", "sitemap"} =>
        page \in {[kind |-> k, of |-> None] : k \in {"home", "sitemap"}}
  BY DEF Page
<1>3. \A page \in Page : page.kind = "index" => page \in {[kind |-> "index", of |-> c] : c \in Cursor}
  BY DEF Page
<1>4. Len(ListPages) = 2 /\ ListPages \in Seq(SUBSET Page)
  BY <1>1 DEF ListPages
<1>5. /\ ListPages[1] = {[kind |-> k, of |-> None] : k \in {"home", "sitemap"}}
      /\ ListPages[2] = {[kind |-> "index", of |-> c] : c \in Cursor}
  BY DEF ListPages
<1> QED BY <1>2, <1>3, <1>4, <1>5 DEF Ahead

\* What is ahead in a part of a series is ahead in the series.
LEMMA Appended ==
  ASSUME NEW s \in Seq(SUBSET Page), NEW t \in Seq(SUBSET Page), NEW page
  PROVE  /\ s \o t \in Seq(SUBSET Page)
         /\ Ahead(page, s) => Ahead(page, s \o t)
         /\ Ahead(page, t) => Ahead(page, s \o t)
<1>1. /\ Len(s \o t) = Len(s) + Len(t) /\ s \o t \in Seq(SUBSET Page)
      /\ Len(s) \in Nat /\ Len(t) \in Nat
      /\ \A i \in 1..Len(s) : (s \o t)[i] = s[i]
      /\ \A i \in 1..Len(t) : (s \o t)[i + Len(s)] = t[i]
  OBVIOUS
<1>2. ASSUME NEW i \in 1..Len(t) PROVE i + Len(s) \in 1..Len(s \o t)
  BY <1>1
<1>3. ASSUME NEW i \in 1..Len(s) PROVE i \in 1..Len(s \o t)
  BY <1>1
<1> QED BY <1>1, <1>2, <1>3 DEF Ahead

\* A version of an article is none, or a snapshot with finitely many aliases.
Proper(snapshot) == snapshot = None \/ (snapshot \in Snapshot /\ IsFiniteSet(snapshot.historical))

\* An announcement covers the lists and the own pages of both versions.
LEMMA Announced ==
  ASSUME NEW before, Proper(before), NEW after, Proper(after)
  PROVE  /\ Announcement(before, after) \in Seq(SUBSET Page)
         /\ \A page \in Page : page.kind \in {"home", "sitemap", "index"} => Ahead(page, Announcement(before, after))
         /\ before # None => \A page \in DetailAndArea(before) : Ahead(page, Announcement(before, after))
         /\ after # None => \A page \in DetailAndArea(after) : Ahead(page, Announcement(before, after))
<1>1. PagesOf(before) \in Seq(SUBSET Page) /\ PagesOf(after) \in Seq(SUBSET Page)
  <2>1. PagesOf(None) \in Seq(SUBSET Page)
    BY DEF PagesOf
  <2> QED BY <2>1, VersionPages DEF Proper
<1>2. /\ before # None => \A page \in DetailAndArea(before) : Ahead(page, PagesOf(before))
      /\ after # None => \A page \in DetailAndArea(after) : Ahead(page, PagesOf(after))
  BY VersionPages DEF Proper
<1>3. /\ ListPages \o PagesOf(before) \in Seq(SUBSET Page)
      /\ \A page : Ahead(page, ListPages) \/ Ahead(page, PagesOf(before)) => Ahead(page, ListPages \o PagesOf(before))
  BY <1>1, ListsListed, Appended
<1>4. /\ (ListPages \o PagesOf(before)) \o PagesOf(after) \in Seq(SUBSET Page)
      /\ \A page : Ahead(page, ListPages \o PagesOf(before)) \/ Ahead(page, PagesOf(after))
           => Ahead(page, (ListPages \o PagesOf(before)) \o PagesOf(after))
  BY <1>1, <1>3, Appended
<1>5. Announcement(before, after) = (ListPages \o PagesOf(before)) \o PagesOf(after)
  BY DEF Announcement
<1> QED BY <1>2, <1>3, <1>4, <1>5, ListsListed

\* A page that a new version of one article changes is covered by the announcement
\* of that version and the one before.
LEMMA ChangesAnnounced ==
  ASSUME SiteTypes, NEW a \in Article, NEW snapshot \in Snapshot, IsFiniteSet(snapshot.historical), NEW page \in Page,
         Content(public, page) # Content([public EXCEPT ![a] = snapshot], page)
  PROVE  Ahead(page, Announcement(public[a], snapshot))
<1> DEFINE after == [public EXCEPT ![a] = snapshot]
<1>0. Proper(public[a]) /\ Proper(snapshot) /\ snapshot # None
  BY NoneIsNothing DEF SiteTypes, Proper
<1>1. CASE page.kind \in {"home", "sitemap", "index"}
  BY <1>0, <1>1, Announced
<1>2. ASSUME page.kind \notin {"home", "sitemap", "index"}
      PROVE  Ahead(page, Announcement(public[a], snapshot))
  <2>1. page.kind \in {"detail", "area"}
    BY <1>2 DEF Page
  <2>2. \/ public[a] # None /\ a \in Shown(public, page)
        \/ a \in Shown(after, page)
    <3>1. \A b \in Article \ {a} : after[b] = public[b]
      BY DEF SiteTypes
    <3>2. ASSUME NEW b \in Article \ {a} PROVE b \in Shown(public, page) <=> b \in Shown(after, page)
      <4>1. after[b] = public[b]
        BY <3>1
      <4> HIDE DEF after
      <4>2. b \in Published(public) <=> b \in Published(after)
        BY <4>1 DEF Published
      <4> QED BY <2>1, <4>1, <4>2 DEF Shown
    <3>3. Shown(public, page) \subseteq Article /\ Shown(after, page) \subseteq Article
      BY <2>1 DEF Shown, Published
    <3>4. a \in Shown(public, page) => public[a] # None
      BY <2>1 DEF Shown, Published
    <3>5. ASSUME a \notin Shown(public, page), a \notin Shown(after, page) PROVE FALSE
      <4>1. Shown(public, page) = Shown(after, page)
        <5> HIDE DEF after
        <5>1. \A b : b \in Shown(public, page) <=> b \in Shown(after, page)
          BY <3>2, <3>3, <3>5
        <5> QED BY <5>1
      <4>2. \A b \in Shown(public, page) : after[b] = public[b]
        BY <3>1, <3>3, <3>5
      <4>3. Content(public, page) # Content(after, page)
        OBVIOUS
      <4> HIDE DEF after
      <4> QED BY <4>1, <4>2, <4>3 DEF Content
    <3> QED BY <3>4, <3>5
  <2>3. after[a] = snapshot
    BY DEF SiteTypes
  <2>4. page = [kind |-> page.kind, of |-> page.of]
    BY DEF Page
  <2>5. \/ public[a] # None /\ page \in DetailAndArea(public[a])
        \/ page \in DetailAndArea(snapshot)
    BY <2>1, <2>2, <2>3, <2>4 DEF Shown, Published, DetailAndArea
  <2> QED BY <1>0, <2>5, Announced
<1> QED BY <1>1, <1>2

-----------------------------------------------------------------------------
(* The steps. *)

\* What is ahead in a series is its head or ahead in its tail.
LEMMA HeadOrTail ==
  ASSUME NEW s \in Seq(SUBSET Page), s # <<>>
  PROVE  /\ Head(s) \in SUBSET Page /\ Tail(s) \in Seq(SUBSET Page)
         /\ \A page : Ahead(page, s) => page \in Head(s) \/ Ahead(page, Tail(s))
<1>1. /\ Head(s) \in SUBSET Page /\ Tail(s) \in Seq(SUBSET Page) /\ Head(s) = s[1]
      /\ Len(s) \in Nat /\ Len(Tail(s)) = Len(s) - 1
      /\ \A i \in 1..Len(Tail(s)) : Tail(s)[i] = s[i + 1]
  OBVIOUS
<1>2. ASSUME NEW page, NEW i \in 1..Len(s), page \in s[i], i # 1
      PROVE  Ahead(page, Tail(s))
  <2>1. i - 1 \in 1..Len(Tail(s)) /\ Tail(s)[i - 1] = s[i]
    BY <1>1, <1>2
  <2> QED BY <1>2, <2>1 DEF Ahead
<1> QED BY <1>1, <1>2 DEF Ahead

\* Storing a change puts every page it changes ahead.
LEMMA StoreStep ==
  ASSUME PagesInv, NEW e \in Editor, NEW a \in Article,
         NEW snapshot \in Snapshot, IsFiniteSet(snapshot.historical), Store(e, a, snapshot)
  PROVE  PagesInv'
<1> DEFINE changed == {page \in Page : Content(public, page) # Content([public EXCEPT ![a] = snapshot], page)}
           series == Announcement(public[a], snapshot)
<1>1. /\ edit[e] = "idle" /\ public' = [public EXCEPT ![a] = snapshot]
      /\ Cache!Change(changed)
      /\ edit' = [edit EXCEPT ![e] = "announcing"] /\ toCancel' = [toCancel EXCEPT ![e] = series]
      /\ due' = due
  BY DEF Store
<1>2. \A page \in changed : Ahead(page, series)
  BY ChangesAnnounced DEF PagesInv
<1>3. series \in Seq(SUBSET Page)
  BY NoneIsNothing, Announced DEF PagesInv, SiteTypes, Proper
<1>4. changed \in SUBSET Page
  OBVIOUS
<1> HIDE DEF changed, series
<1>5. SiteTypes'
  BY <1>1, <1>3 DEF PagesInv, SiteTypes
<1>6. announced' = announced /\ floor' = floor /\ \A page \in Page \ changed : version'[page] = version[page]
  BY <1>1 DEF Cache!Change, PagesInv, CP!FreshInv, CP!Types
<1>7. Covered'
  <2>1. \A f \in Editor : edit[f] = "announcing" => edit'[f] = "announcing" /\ toCancel'[f] = toCancel[f]
    BY <1>1 DEF PagesInv, SiteTypes
  <2>2. edit'[e] = "announcing" /\ toCancel'[e] = series
    BY <1>1 DEF PagesInv, SiteTypes
  <2> QED BY <1>2, <1>6, <2>1, <2>2 DEF PagesInv, Covered
<1>8. Owed'
  BY <1>1, <1>6 DEF PagesInv, Owed
<1>9. CP!FreshInv'
  <2>1. CP!Next
    BY <1>1, <1>4, ChangeAlike
  <2> QED BY <2>1, NoneIsNoEntry, CP!FreshStep DEF PagesInv
<1> QED BY <1>5, <1>7, <1>8, <1>9 DEF PagesInv

\* A publication or a withdrawal stores a proper version.
LEMMA PublishStep ==
  ASSUME PagesInv, NEW e \in Editor, NEW a \in Article, Publish(e, a) \/ Withdraw(e, a)
  PROVE  PagesInv'
<1>1. CASE Publish(e, a)
  <2>1. PICK s \in Slug, x \in Area :
          Store(e, a, IF public[a] = None THEN FirstVersion(s, x)
                      ELSE [status |-> "published", slug |-> s, area |-> x,
                            historical |-> PublicNames(public[a]) \ {s},
                            revision |-> public[a].revision + 1])
    BY <1>1 DEF Publish
  <2>2. CASE public[a] = None
    <3>1. FirstVersion(s, x) \in Snapshot /\ IsFiniteSet(FirstVersion(s, x).historical)
      BY FS_EmptySet DEF FirstVersion, Snapshot
    <3> QED BY <2>1, <2>2, <3>1, StoreStep
  <2>3. CASE public[a] # None
    <3> DEFINE next == [status |-> "published", slug |-> s, area |-> x,
                        historical |-> PublicNames(public[a]) \ {s},
                        revision |-> public[a].revision + 1]
    <3>1. public[a] \in Snapshot /\ IsFiniteSet(public[a].historical)
      BY <2>3 DEF PagesInv, SiteTypes
    <3>2. IsFiniteSet(PublicNames(public[a]) \ {s})
      <4>1. IsFiniteSet({public[a].slug} \cup public[a].historical)
        BY <3>1, FS_Singleton, FS_Union
      <4> QED BY <4>1, FS_RemoveElement DEF PublicNames
    <3>3. next \in Snapshot /\ IsFiniteSet(next.historical)
      BY <3>1, <3>2 DEF Snapshot, PublicNames
    <3>4. Store(e, a, next)
      BY <2>1, <2>3
    <3> HIDE DEF next
    <3> QED BY <3>3, <3>4, StoreStep
  <2> QED BY <2>2, <2>3
<1>2. CASE Withdraw(e, a)
  <2> DEFINE next == [public[a] EXCEPT !.status = "withdrawn"]
  <2>1. Store(e, a, next) /\ public[a] # None
    BY <1>2 DEF Withdraw
  <2>2. public[a] \in Snapshot /\ IsFiniteSet(public[a].historical)
    BY <2>1 DEF PagesInv, SiteTypes
  <2>3. next \in Snapshot /\ IsFiniteSet(next.historical)
    BY <2>2 DEF Snapshot
  <2> HIDE DEF next
  <2> QED BY <2>1, <2>3, StoreStep
<1> QED BY <1>1, <1>2

\* An invalidation announces the pages at the head of the series.
LEMMA AnnounceStep ==
  ASSUME PagesInv, NEW e \in Editor, Announce(e)
  PROVE  PagesInv'
<1>0. /\ edit[e] = "announcing" /\ public' = public /\ due' = due
      /\ toCancel[e] \in Seq(SUBSET Page)
  BY DEF Announce, PagesInv, SiteTypes
<1>1. CASE toCancel[e] = <<>>
  <2>1. edit' = [edit EXCEPT ![e] = "done"] /\ UNCHANGED <<toCancel, cache>>
    BY <1>1 DEF Announce
  <2>2. SiteTypes'
    BY <1>0, <2>1 DEF PagesInv, SiteTypes
  <2>3. Covered'
    <3>1. \A page : ~Ahead(page, toCancel[e])
      BY <1>1 DEF Ahead
    <3>2. \A f \in Editor \ {e} : edit'[f] = edit[f]
      BY <2>1 DEF PagesInv, SiteTypes
    <3> QED BY <2>1, <3>1, <3>2 DEF PagesInv, Covered, cache
  <2>4. Owed'
    BY <1>0, <2>1 DEF PagesInv, Owed, cache
  <2>5. CP!FreshInv'
    <3>1. UNCHANGED CP!vars
      BY <2>1 DEF CP!vars, CP!source, CP!cached, cache
    <3> QED BY <3>1, NoneIsNoEntry, CP!FreshStep DEF PagesInv
  <2> QED BY <2>2, <2>3, <2>4, <2>5 DEF PagesInv
<1>2. CASE toCancel[e] # <<>>
  <2> DEFINE head == Head(toCancel[e])
  <2>1. /\ Cache!Invalidate(head) /\ toCancel' = [toCancel EXCEPT ![e] = Tail(toCancel[e])]
        /\ edit' = edit
    BY <1>2 DEF Announce
  <2>2. /\ head \in SUBSET Page /\ Tail(toCancel[e]) \in Seq(SUBSET Page)
        /\ \A page : Ahead(page, toCancel[e]) => page \in head \/ Ahead(page, Tail(toCancel[e]))
    BY <1>0, <1>2, HeadOrTail
  <2> HIDE DEF head
  <2>3. SiteTypes'
    BY <1>0, <2>1, <2>2 DEF PagesInv, SiteTypes
  <2>4. /\ version' = version /\ floor' = floor
        /\ \A page \in Page : announced'[page] = IF page \in head THEN version[page] ELSE announced[page]
    BY <2>1 DEF Cache!Invalidate
  <2>5. Covered'
    <3>1. toCancel'[e] = Tail(toCancel[e]) /\ \A f \in Editor \ {e} : toCancel'[f] = toCancel[f]
      BY <2>1 DEF PagesInv, SiteTypes
    <3> QED BY <1>0, <2>1, <2>2, <2>4, <3>1 DEF PagesInv, Covered
  <2>6. Owed'
    BY <1>0, <2>4 DEF PagesInv, Owed
  <2>7. CP!FreshInv'
    <3>1. CP!Next
      BY <2>1, <2>2, InvalidateAlike
    <3> QED BY <3>1, NoneIsNoEntry, CP!FreshStep DEF PagesInv
  <2> QED BY <2>3, <2>5, <2>6, <2>7 DEF PagesInv
<1> QED BY <1>1, <1>2

\* A visitor is owed what was announced when it asks.
LEMMA VisitStep ==
  ASSUME PagesInv, NEW c \in Client, Visit(c)
  PROVE  PagesInv'
<1>1. PICK page \in Page :
        /\ Cache!Hit(c, page) \/ Cache!Join(c, page) \/ Cache!Lead(c, page)
        /\ due' = [due EXCEPT ![c] = IF Quiet THEN version[page] ELSE announced[page]]
        /\ UNCHANGED site
  BY DEF Visit
<1>2. UNCHANGED <<version, announced>> /\ floor' = [floor EXCEPT ![c] = announced[page]]
  BY <1>1 DEF Cache!Hit, Cache!Join, Cache!Lead, Cache!Ask, Cache!source
<1>3. version[page] \in Nat /\ announced[page] \in Nat /\ floor \in [Client -> Nat]
  BY DEF PagesInv, CP!FreshInv, CP!Types
<1>4. Quiet => version[page] = announced[page]
  BY DEF PagesInv, Covered, Quiet
<1>5. SiteTypes'
  BY <1>1, <1>3 DEF PagesInv, SiteTypes, site
<1>6. Covered'
  BY <1>1, <1>2 DEF PagesInv, Covered, site
<1>7. Owed'
  BY <1>1, <1>2, <1>3, <1>4 DEF PagesInv, Owed, SiteTypes
<1>8. CP!FreshInv'
  <2>1. CP!Next
    BY <1>1, VisitAlike
  <2> QED BY <2>1, NoneIsNoEntry, CP!FreshStep DEF PagesInv
<1> QED BY <1>5, <1>6, <1>7, <1>8 DEF PagesInv

\* Serving a page announces nothing and changes no article.
LEMMA ServeStep ==
  ASSUME PagesInv, NEW c \in Client, Serve(c)
  PROVE  PagesInv'
<1>1. UNCHANGED <<site, due, version, announced, floor>>
  BY DEF Serve, Cache!Read, Cache!ReadFails, Cache!Complete, Cache!Wake, Cache!Cancel, Cache!source
<1>2. SiteTypes' /\ Covered' /\ Owed'
  BY <1>1 DEF PagesInv, SiteTypes, Covered, Owed, site
<1>3. CP!FreshInv'
  <2>1. CP!Next
    BY ServeAlike
  <2> QED BY <2>1, NoneIsNoEntry, CP!FreshStep DEF PagesInv
<1> QED BY <1>2, <1>3 DEF PagesInv

\* Every step keeps the invariant.
LEMMA PagesStep == PagesInv /\ [Next]_vars => PagesInv'
<1> SUFFICES ASSUME PagesInv, [Next]_vars PROVE PagesInv'
  OBVIOUS
<1>1. CASE UNCHANGED vars
  <2>1. SiteTypes' /\ Covered' /\ Owed'
    BY <1>1 DEF PagesInv, SiteTypes, Covered, Owed, vars, site, cache
  <2>2. UNCHANGED CP!vars
    BY <1>1 DEF CP!vars, CP!source, CP!cached, vars, cache
  <2>3. CP!FreshInv'
    BY <2>2, NoneIsNoEntry, CP!FreshStep DEF PagesInv
  <2> QED BY <2>1, <2>3 DEF PagesInv
<1> QED BY <1>1, PublishStep, AnnounceStep, VisitStep, ServeStep DEF Next

\* Nothing is cached, announced or owed at first.
LEMMA PagesInit == Init => PagesInv
<1> SUFFICES ASSUME Init PROVE PagesInv
  OBVIOUS
<1>1. SiteTypes
  <2>1. \A s \in Slug, x \in Area : FirstVersion(s, x) \in Snapshot /\ IsFiniteSet(FirstVersion(s, x).historical)
    BY FS_EmptySet DEF FirstVersion, Snapshot
  <2>2. edit = [e \in Editor |-> "idle"] /\ toCancel = [e \in Editor |-> <<>>] /\ due = [c \in Client |-> 0]
    BY DEF Init
  <2>3. /\ public \in [Article -> Snapshot \cup {None}]
        /\ \A a \in Article : public[a] # None => IsFiniteSet(public[a].historical)
    BY <2>1 DEF Init
  <2> QED BY <2>2, <2>3 DEF SiteTypes
<1>2. /\ version = [page \in Page |-> 0] /\ announced = [page \in Page |-> 0]
      /\ floor = [c \in Client |-> 0] /\ due = [c \in Client |-> 0]
  BY DEF Init, Cache!Init
<1>3. Covered /\ Owed
  BY <1>2 DEF Covered, Owed
<1>4. CP!Init
  BY Zenon DEF Init, Cache!Init, CP!Init, Cache!Idle, CP!Idle
<1>5. CP!FreshInv
  BY <1>4, NoneIsNoEntry, CP!FreshInit
<1> QED BY <1>1, <1>3, <1>5 DEF PagesInv

\* The inductive invariant: what a page shows was announced, or has its announcement
\* ahead; and the cache is fresh.
THEOREM PagesInvariant == Spec => []PagesInv
  BY PagesInit, PagesStep, PTL DEF Spec

\* A step of the pages is one of the cache's, or leaves it alone.
LEMMA CacheUsed == PagesInv /\ [Next]_vars => [CP!Next]_(CP!vars)
<1> SUFFICES ASSUME PagesInv, [Next]_vars PROVE [CP!Next]_(CP!vars)
  OBVIOUS
<1>1. ASSUME NEW e \in Editor, NEW a \in Article, NEW snapshot, Store(e, a, snapshot)
      PROVE  CP!Next
  BY <1>1, ChangeAlike DEF Store
<1>2. ASSUME NEW e \in Editor, NEW a \in Article, Publish(e, a) PROVE CP!Next
  BY <1>1, <1>2 DEF Publish
<1>3. ASSUME NEW e \in Editor, NEW a \in Article, Withdraw(e, a) PROVE CP!Next
  BY <1>1, <1>3 DEF Withdraw
<1>4. ASSUME NEW e \in Editor, Announce(e) PROVE CP!Next \/ UNCHANGED CP!vars
  <2>1. CASE toCancel[e] = <<>>
    BY <1>4, <2>1 DEF Announce, cache, CP!vars, CP!source, CP!cached
  <2>2. CASE toCancel[e] # <<>>
    <3>1. Head(toCancel[e]) \in SUBSET Page
      BY <2>2, HeadOrTail DEF PagesInv, SiteTypes
    <3>2. Cache!Invalidate(Head(toCancel[e]))
      BY <1>4, <2>2 DEF Announce
    <3> QED BY <3>1, <3>2, InvalidateAlike
  <2> QED BY <2>1, <2>2
<1>5. ASSUME NEW c \in Client, Visit(c) PROVE CP!Next
  BY <1>5, VisitAlike DEF Visit
<1>6. CASE UNCHANGED vars
  BY <1>6 DEF vars, cache, CP!vars, CP!source, CP!cached
<1> QED BY <1>2, <1>3, <1>4, <1>5, <1>6, ServeAlike DEF Next

\* The pages use the cache by its own operations: what is proved of the cache
\* holds of theirs.
THEOREM PagesUseCache == Spec => CP!Spec
<1>1. Init => CP!Init
  BY Zenon DEF Init, Cache!Init, CP!Init, Cache!Idle, CP!Idle
<1> QED BY <1>1, CacheUsed, PagesInvariant, PTL DEF Spec, CP!Spec

\* Once every stored change has been announced, the cache shows the articles as
\* they are.
THEOREM CachedPagesCurrent == Spec => []PagesCurrent
<1>1. PagesInv => PagesCurrent
  <2> SUFFICES ASSUME PagesInv, Quiet, NEW page \in Page, entries[page] # None
               PROVE  entries[page].value = version[page]
    BY DEF PagesCurrent
  <2>1. announced[page] = version[page] /\ version[page] \in Nat
    BY DEF PagesInv, Covered, Quiet, CP!FreshInv, CP!Types
  <2>2. entries[page].value \in Nat
    BY DEF PagesInv, CP!FreshInv, CP!Types, CP!Entry
  <2>3. entries[page].value <= version[page] /\ entries[page].value >= announced[page]
    BY DEF PagesInv, CP!FreshInv, CP!Genuine, CP!NothingStaleStored
  <2> QED BY <2>1, <2>2, <2>3
<1> QED BY <1>1, PagesInvariant, PTL

\* A visitor who asks after the last announcement sees the change.
THEOREM AnnouncedChangesVisible == Spec => []ChangesVisible
<1>1. PagesInv => ChangesVisible
  <2> SUFFICES ASSUME PagesInv, NEW c \in Client, request[c].step = "answered", request[c].value # None
               PROVE  request[c].value >= due[c]
    BY DEF ChangesVisible
  <2>1. request[c].value >= floor[c] /\ due[c] <= floor[c]
    BY DEF PagesInv, Owed, CP!FreshInv, CP!NoStaleAnswers
  <2>2. request[c].value \in Nat /\ floor[c] \in Nat /\ due[c] \in Nat
    BY DEF PagesInv, SiteTypes, CP!FreshInv, CP!Types, CP!Request
  <2> QED BY <2>1, <2>2
<1> QED BY <1>1, PagesInvariant, PTL

=============================================================================
