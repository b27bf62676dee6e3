--------------------------- MODULE ArticleMigration ---------------------------
(***************************************************************************)
(* The move of the article rows from their legacy keys to their current     *)
(* ones, one step per remote call: instances that start in migrate or       *)
(* repair mode, instances in compat mode that still serve readers and       *)
(* editors, their lists page by page, and late writes of an earlier image.   *)
(* Slugs and bodies are left out: ArticleStore has them.                    *)
(***************************************************************************)
EXTENDS Naturals, FiniteSets

CONSTANTS
  Article,
  Named,      \* articles whose legacy row stores their ID besides its key
  KeyOrder,   \* the place of each row key in the table's order
  Migrator,   \* instances that migrate before they listen
  Repairer,   \* those of them in repair mode
  Editor,     \* requests to read an article and save it
  Lister,     \* requests for the whole list, page by page
  Modern,     \* editors and listers on an instance that reads current rows only
  OldWriter,  \* requests an image from before the compat boundary still serves
  RawSize,    \* rows the table service returns at a time
  Limit,      \* articles on a page of the list
  MaxFaults,  \* bound: unanswered calls, failed calls, crashes
  None

Place == {"legacy", "current"}
Key == Article \X Place
Request == Migrator \cup Editor \cup Lister \cup OldWriter

ASSUME CastAssumption ==
  /\ Named \subseteq Article /\ Repairer \subseteq Migrator
  /\ Modern \subseteq Editor \cup Lister
  /\ Migrator \cap (Editor \cup Lister) = {} /\ Editor \cap Lister = {}
  /\ OldWriter \cap (Migrator \cup Editor \cup Lister) = {}
  /\ "original" \notin Editor
ASSUME OrderAssumption ==
  /\ KeyOrder \in [Key -> Nat \ {0}]
  /\ \A k, j \in Key : KeyOrder[k] = KeyOrder[j] => k = j
ASSUME NumberAssumption ==
  /\ RawSize \in Nat \ {0} /\ Limit \in Nat \ {0} /\ MaxFaults \in Nat
  /\ IsFiniteSet(Article)

\* The states of an article: as it was, or as one request has written it.
Version == {"original"} \cup Editor \cup OldWriter

VARIABLES
  rows,      \* the table: the version in each row, or None
  marker,    \* whether the completion marker is there
  pc, answer,
  article,   \* the article a request is about
  use,       \* what an editor's lookup is for
  known,     \* the key and version under which it read the article
  change,    \* the transaction a migrator or editor is about
  seen,      \* what its last read of a legacy row, or its lookup, brought
  todo,      \* legacy rows of a migrator's page that are still to be moved
  from,      \* where a scan's next page starts, 0 for the beginning
  further,   \* whether the service announced that page
  moved,     \* whether a migrator's pass has moved a row
  kept,      \* entries a lister keeps for its page
  cursor,    \* the last article it has given, or None
  given,     \* how often it has given each article
  inflight,  \* transactions that were not answered and may still be applied
  faults,
  latest,    \* history: the version last written of each article
  saved,     \* history: editors whose version was written
  owed,      \* history: legacy rows a migrator met when it began
  late,      \* history: articles an old image wrote and nobody has moved
  steady     \* history: articles untouched since a list began

table == <<rows, marker, latest, saved, late, steady>>
progress == <<pc, answer>>
lookup == <<article, use, known, seen>>
scan == <<from, further>>
pass == <<todo, moved, owed>>
list == <<kept, cursor, given>>
vars == <<table, progress, lookup, change, scan, pass, list, inflight, faults>>

\* A row's ETag is told by its key and its version: nothing is written twice.
Change == [kind : {"move", "replace", "drop"}, article : Article, place : Place,
           under : Version, put : Version]

Marker == [kind |-> "marker"]

ASSUME NoneAssumption == None \notin Version \cup Article \cup Change

Entry == [article : Article, version : Version]

-----------------------------------------------------------------------------
Goto(r, step) == pc' = [pc EXCEPT ![r] = step]

Finish(r, reply) == Goto(r, "done") /\ answer' = [answer EXCEPT ![r] = reply]

Present == {k \in Key : rows[k] # None}

Old(a) == rows[<<a, "legacy">>]
New(a) == rows[<<a, "current">>]

Exists(a) == \E p \in Place : rows[<<a, p>>] # None

Active(r) == pc[r] \notin {"idle", "done"}

-----------------------------------------------------------------------------
(* Pages of the table service: rows in key order from a continuation on, no   *)
(* more than asked for, and fewer when it likes.                             *)

Beyond(r) == {k \in Present : KeyOrder[k] >= from[r]}

PageOf(r, top, page) ==
  /\ page \subseteq Beyond(r) /\ Cardinality(page) <= top /\ (page = {} => Beyond(r) = {})
  /\ \A k \in page, j \in Beyond(r) \ page : KeyOrder[k] < KeyOrder[j]

Rest(r, page) == Beyond(r) \ page

\* The continuation names the next row.  One that does not advance is an error
\* like any other of a call (Fail).
Continue(r, page) ==
  /\ further' = [further EXCEPT ![r] = Rest(r, page) # {}]
  /\ from' = [from EXCEPT ![r] = IF Rest(r, page) = {} THEN @ ELSE
       KeyOrder[CHOOSE k \in Rest(r, page) :
                  \A j \in Rest(r, page) : KeyOrder[k] <= KeyOrder[j]]]

-----------------------------------------------------------------------------
(* Startup: convergeLegacyArticleRows                                       *)

\* A repair is started by hand, once everything else is stopped and quiet.
Quiesced == inflight = {} /\ \A r \in Request : ~Active(r)

Repairing == \E m \in Repairer : Active(m)

FirstPage(m) ==
  /\ from' = [from EXCEPT ![m] = 0]
  /\ moved' = [moved EXCEPT ![m] = FALSE]
  /\ Goto(m, "list")

Begin(m) ==
  /\ m \in Migrator /\ pc[m] = "idle"
  /\ owed' = [owed EXCEPT ![m] = {a \in Article : Old(a) # None}]
  /\ \/ m \in Repairer /\ Quiesced /\ FirstPage(m)
     \/ m \notin Repairer /\ ~Repairing /\ Goto(m, "marker") /\ UNCHANGED <<from, moved>>
  /\ UNCHANGED <<table, answer, lookup, change, further, todo, list, inflight, faults>>

\* articleMigrationIsComplete
ReadMarker(m) ==
  /\ pc[m] = "marker"
  /\ \/ marker /\ Finish(m, "complete") /\ UNCHANGED <<from, moved>>
     \/ ~marker /\ FirstPage(m) /\ UNCHANGED answer
  /\ UNCHANGED <<table, lookup, change, further, todo, owed, list, inflight, faults>>

Legacy(page) == {[article |-> k[1], version |-> rows[k]] : k \in {j \in page : j[2] = "legacy"}}

ListRows(m) ==
  /\ m \in Migrator /\ pc[m] = "list"
  /\ \E page \in SUBSET Key :
       /\ PageOf(m, RawSize, page) /\ Continue(m, page)
       /\ todo' = [todo EXCEPT ![m] = Legacy(page)]
  /\ Goto(m, "move")
  /\ UNCHANGED <<table, answer, lookup, change, moved, owed, list, inflight, faults>>

\* Mutant: the pass ends with its first page.
PageEndFirst(m) ==
  /\ pc[m] = "move" /\ todo[m] = {}
  /\ IF moved[m] THEN FirstPage(m) ELSE Goto(m, "persist") /\ UNCHANGED <<from, moved>>
  /\ UNCHANGED <<table, answer, lookup, change, further, todo, owed, list, inflight, faults>>

\* The next page, another pass after one that moved a row, or the marker.
PageEnd(m) ==
  /\ pc[m] = "move" /\ todo[m] = {}
  /\ \/ further[m] /\ Goto(m, "list") /\ UNCHANGED <<from, moved>>
     \/ ~further[m] /\ moved[m] /\ FirstPage(m)
     \/ ~further[m] /\ ~moved[m] /\ Goto(m, "persist") /\ UNCHANGED <<from, moved>>
  /\ UNCHANGED <<table, answer, lookup, change, further, todo, owed, list, inflight, faults>>

\* migrateLegacyArticleRow: add the current row and delete the legacy one, under
\* the ETag it was listed with.
MoveRow(m) ==
  /\ pc[m] = "move"
  /\ \E entry \in todo[m] :
       /\ \A other \in todo[m] :
            KeyOrder[<<entry.article, "legacy">>] <= KeyOrder[<<other.article, "legacy">>]
       /\ todo' = [todo EXCEPT ![m] = @ \ {entry}]
       /\ change' = [change EXCEPT ![m] =
            [kind |-> "move", article |-> entry.article, place |-> "current",
             under |-> entry.version, put |-> entry.version]]
  /\ Goto(m, "send")
  /\ UNCHANGED <<table, answer, lookup, scan, moved, owed, list, inflight, faults>>

\* The row is where it belongs: migratedThisPass++.
Moved(m) == Goto(m, "move") /\ moved' = [moved EXCEPT ![m] = TRUE]

\* reconcileLegacyArticleMigration: the two rows are read one after the other.
LookLegacy(m) ==
  /\ pc[m] = "legacy"
  /\ seen' = [seen EXCEPT ![m] = Old(change[m].article)]
  /\ Goto(m, "target")
  /\ UNCHANGED <<table, answer, article, use, known, change, scan, pass, list, inflight, faults>>

\* Mutant: a target that is there settles the row, whatever is at its old key.
LookTargetHasty(m) ==
  LET target == New(change[m].article) IN
  /\ pc[m] = "target"
  /\ IF target = change[m].put THEN Moved(m) /\ UNCHANGED answer
     ELSE Finish(m, "failed") /\ UNCHANGED moved
  /\ UNCHANGED <<table, lookup, change, scan, todo, owed, list, inflight, faults>>

LookTarget(m) ==
  LET desired == change[m].put
      target == New(change[m].article) IN
  /\ pc[m] = "target"
  /\ \/ target \notin {None, desired} /\ Finish(m, "failed") /\ UNCHANGED moved
     \/ target = desired /\ seen[m] = None /\ Moved(m) /\ UNCHANGED answer
     \/ target = desired /\ seen[m] = desired /\ Goto(m, "again") /\ UNCHANGED <<answer, moved>>
     \/ /\ target = None \/ (target = desired /\ seen[m] \notin {None, desired})
        /\ Finish(m, "failed") /\ UNCHANGED moved
  /\ UNCHANGED <<table, lookup, change, scan, todo, owed, list, inflight, faults>>

\* Both rows are there: the legacy one is read again and deleted as it is now.
ReadAgain(m) ==
  LET legacy == Old(change[m].article) IN
  /\ pc[m] = "again"
  /\ \/ legacy = None /\ Moved(m) /\ UNCHANGED change
     \/ /\ legacy # None /\ Goto(m, "send") /\ UNCHANGED moved
        /\ change' = [change EXCEPT ![m] =
             [@ EXCEPT !.kind = "drop", !.place = "legacy", !.under = legacy, !.put = legacy]]
  /\ UNCHANGED <<table, answer, lookup, scan, todo, owed, list, inflight, faults>>

VerifyGone(m) ==
  /\ pc[m] = "verify"
  /\ IF Old(change[m].article) = None THEN Moved(m) /\ UNCHANGED answer
     ELSE Finish(m, "failed") /\ UNCHANGED moved
  /\ UNCHANGED <<table, lookup, change, scan, todo, owed, list, inflight, faults>>

\* persistArticleMigrationMarker
Persist(m) ==
  /\ pc[m] = "persist"
  /\ \/ ~marker /\ marker' = TRUE /\ Finish(m, "complete") /\ UNCHANGED <<inflight, faults>>
     \/ marker /\ Goto(m, "recheck") /\ UNCHANGED <<marker, answer, inflight, faults>>
     \/ /\ faults < MaxFaults /\ faults' = faults + 1
        /\ inflight' = inflight \cup {Marker}
        /\ Goto(m, "recheck") /\ UNCHANGED <<marker, answer>>
  /\ UNCHANGED <<rows, latest, saved, late, steady, lookup, change, scan, pass, list>>

Recheck(m) ==
  /\ pc[m] = "recheck"
  /\ Finish(m, IF marker THEN "complete" ELSE "failed")
  /\ UNCHANGED <<table, lookup, change, scan, pass, list, inflight, faults>>

\* The platform starts a process again that did not come up.
Restart(m) ==
  /\ m \in Migrator /\ answer[m] = "failed"
  /\ Goto(m, "idle") /\ answer' = [answer EXCEPT ![m] = "none"]
  /\ UNCHANGED <<table, lookup, change, scan, pass, list, inflight, faults>>

-----------------------------------------------------------------------------
(* Editors: Get, then Update                                                *)

\* Some instance takes requests: one in compat mode, or one that has completed.
Served(r) ==
  /\ ~Repairing
  /\ r \in Modern => \E m \in Migrator : answer[m] = "complete"

Open(e) ==
  /\ e \in Editor /\ pc[e] = "idle" /\ Served(e)
  /\ \E a \in Article : Exists(a) /\ article' = [article EXCEPT ![e] = a]
  /\ use' = [use EXCEPT ![e] = "read"]
  /\ Goto(e, "find")
  /\ UNCHANGED <<table, answer, known, seen, change, scan, pass, list, inflight, faults>>

Missing(e) ==
  /\ Finish(e, IF use[e] \in {"read", "update"} THEN "notFound" ELSE "commitUnknown")
  /\ UNCHANGED <<use, known, seen, change>>

\* The transaction of an update: a legacy row is moved with it, in compat mode.
Saving(e, place, version) ==
  IF e \notin Modern /\ place = "legacy"
    THEN [kind |-> "move", article |-> article[e], place |-> "current",
          under |-> version, put |-> e]
    ELSE [kind |-> "replace", article |-> article[e], place |-> place,
          under |-> version, put |-> e]

Reconciled(e, version) ==
  IF version = e THEN "ok"
  ELSE IF version = change[e].under THEN "unavailable" ELSE "commitUnknown"

\* What a lookup that finds the row is followed by.
Found(e, place, version) ==
  \/ /\ use[e] = "read"
     /\ known' = [known EXCEPT ![e] = <<place, version>>]
     /\ use' = [use EXCEPT ![e] = "update"] /\ Goto(e, "find")
     /\ UNCHANGED <<answer, seen, change>>
  \/ /\ use[e] = "update"
     /\ IF known[e] = <<place, version>>
          THEN /\ change' = [change EXCEPT ![e] = Saving(e, place, version)]
               /\ Goto(e, "send") /\ UNCHANGED answer
          ELSE Finish(e, "conflict") /\ UNCHANGED change
     /\ UNCHANGED <<use, known, seen>>
  \/ /\ use[e] = "refresh" /\ Finish(e, IF version = e THEN "ok" ELSE "commitUnknown")
     /\ UNCHANGED <<use, known, seen, change>>
  \/ /\ use[e] = "settle" /\ change[e].kind = "replace" /\ Finish(e, Reconciled(e, version))
     /\ UNCHANGED <<use, known, seen, change>>
  \/ /\ use[e] = "settle" /\ change[e].kind = "move"
     /\ seen' = [seen EXCEPT ![e] = version] /\ Goto(e, "gone")
     /\ UNCHANGED <<answer, use, known, change>>

\* The rows a query for the ID returns, the first of which is taken.
WithID(a) ==
  {k \in Present : k[1] = a /\ (k[2] = "current" \/ a \in Named)}

\* getWithRowKey: a query for the ID, then in compat mode the row at the ID.
Find(e) ==
  /\ pc[e] = "find"
  /\ \/ \E k \in WithID(article[e]) :
          /\ \A j \in WithID(article[e]) : KeyOrder[k] <= KeyOrder[j]
          /\ Found(e, k[2], rows[k])
     \/ WithID(article[e]) = {} /\ e \in Modern /\ Missing(e)
     \/ /\ WithID(article[e]) = {} /\ e \notin Modern
        /\ Goto(e, "direct") /\ UNCHANGED <<answer, use, known, seen, change>>
  /\ UNCHANGED <<table, article, scan, pass, list, inflight, faults>>

\* Mutant: the answer of the second read is not checked.
DirectUnchecked(e) ==
  /\ pc[e] = "direct" /\ Found(e, "legacy", Old(article[e]))
  /\ UNCHANGED <<table, article, scan, pass, list, inflight, faults>>

Direct(e) ==
  LET row == Old(article[e]) IN
  /\ pc[e] = "direct"
  /\ \/ row = None /\ Missing(e)
     \/ row # None /\ Found(e, "legacy", row)
  /\ UNCHANGED <<table, article, scan, pass, list, inflight, faults>>

\* Mutant: the legacy row has gone, so the save must have been applied.
GoneHasty(e) ==
  /\ pc[e] = "gone"
  /\ Finish(e, IF Old(article[e]) = None THEN "ok" ELSE "unavailable")
  /\ UNCHANGED <<table, lookup, change, scan, pass, list, inflight, faults>>

\* reconcileCompatLegacyUpdate looks at the legacy row after the article.
Gone(e) ==
  LET legacy == Old(article[e]) IN
  /\ pc[e] = "gone"
  /\ Finish(e, IF seen[e] = e /\ legacy = None THEN "ok"
               ELSE IF seen[e] = change[e].under /\ legacy # None THEN "unavailable"
               ELSE "commitUnknown")
  /\ UNCHANGED <<table, lookup, change, scan, pass, list, inflight, faults>>

-----------------------------------------------------------------------------
(* Transactions                                                             *)

\* Mutant: a move does not name the version it has read.
MeetsAnyVersion(c) ==
  CASE c.kind = "move" -> New(c.article) = None /\ Old(c.article) # None
    [] c.kind = "replace" -> rows[<<c.article, c.place>>] = c.under
    [] c.kind = "drop" -> Old(c.article) = c.under

Meets(c) ==
  CASE c.kind = "move" -> New(c.article) = None /\ Old(c.article) = c.under
    [] c.kind = "replace" -> rows[<<c.article, c.place>>] = c.under
    [] c.kind = "drop" -> Old(c.article) = c.under

Written(c) ==
  CASE c.kind = "move" -> [rows EXCEPT ![<<c.article, "current">>] = c.put, ![<<c.article, "legacy">>] = None]
    [] c.kind = "replace" -> [rows EXCEPT ![<<c.article, c.place>>] = c.put]
    [] c.kind = "drop" -> [rows EXCEPT ![<<c.article, "legacy">>] = None]

Apply(c) ==
  /\ Meets(c)
  /\ rows' = Written(c)
  /\ latest' = [latest EXCEPT ![c.article] = IF c.put = c.under THEN @ ELSE c.put]
  /\ saved' = saved \cup ({c.put} \cap Editor)
  /\ late' = IF c.kind = "replace" THEN late ELSE late \ {c.article}
  /\ steady' = [l \in Lister |-> steady[l] \ {c.article}]
  /\ UNCHANGED marker

Commit(r) ==
  /\ pc[r] = "send" /\ Apply(change[r])
  /\ \/ r \in Migrator /\ Moved(r) /\ UNCHANGED use
     \/ /\ r \in Editor /\ use' = [use EXCEPT ![r] = "refresh"]
        /\ Goto(r, "find") /\ UNCHANGED moved
  /\ UNCHANGED <<answer, article, known, seen, change, scan, todo, owed, list, inflight, faults>>

\* What a migrator does next after anything but success.
Reconcile(m) == Goto(m, IF change[m].kind = "move" THEN "legacy" ELSE "verify")

\* The first operation that fails names the error: adding the current row.
Refusal(c) ==
  IF c.kind = "move" /\ New(c.article) # None THEN "slugTaken"
  ELSE IF rows[c.article, IF c.kind = "move" THEN "legacy" ELSE c.place] = None
         THEN "notFound" ELSE "conflict"

Refuse(r) ==
  /\ pc[r] = "send" /\ ~Meets(change[r])
  /\ \/ r \in Migrator /\ Reconcile(r) /\ UNCHANGED answer
     \/ r \in Editor /\ Finish(r, Refusal(change[r]))
  /\ UNCHANGED <<table, lookup, change, scan, pass, list, inflight, faults>>

NoAnswer(r) ==
  /\ pc[r] = "send" /\ faults < MaxFaults /\ faults' = faults + 1
  /\ inflight' = inflight \cup {change[r]}
  /\ \/ r \in Migrator /\ Reconcile(r) /\ UNCHANGED use
     \/ r \in Editor /\ Goto(r, "find") /\ use' = [use EXCEPT ![r] = "settle"]
  /\ UNCHANGED <<table, answer, article, known, seen, change, scan, pass, list>>

\* An unanswered transaction is applied after all, at any later time.
Land ==
  /\ \E c \in inflight \cap Change : Apply(c) /\ inflight' = inflight \ {c}
  /\ UNCHANGED <<progress, lookup, change, scan, pass, list, faults>>

LandMarker ==
  /\ Marker \in inflight /\ inflight' = inflight \ {Marker}
  /\ marker' = TRUE
  /\ UNCHANGED <<rows, latest, saved, late, steady, progress, lookup, change, scan, pass, list, faults>>

\* An image from before the boundary knows legacy rows only: it adds an article
\* or replaces a row (never, by assumption, that of an article with both rows).
\* A repair has every such writer stopped.
OldWrite(o) ==
  /\ o \in OldWriter /\ pc[o] = "idle" /\ Finish(o, "ok")
  /\ ~Repairing
  /\ \E a \in Article :
       /\ New(a) = None
       /\ rows' = [rows EXCEPT ![<<a, "legacy">>] = o]
       /\ latest' = [latest EXCEPT ![a] = o]
       /\ late' = late \cup {a}
       /\ steady' = [l \in Lister |-> steady[l] \ {a}]
  /\ UNCHANGED <<marker, saved, lookup, change, scan, pass, list, inflight, faults>>

-----------------------------------------------------------------------------
(* Lists                                                                    *)

\* Newest first, as the current keys order the articles.
Newer(a, b) == KeyOrder[<<a, "current">>] < KeyOrder[<<b, "current">>]

BeginList(l) ==
  /\ l \in Lister /\ pc[l] = "idle" /\ Served(l)
  /\ steady' = [steady EXCEPT ![l] = {a \in Article : Exists(a)}]
  /\ Goto(l, "list")
  /\ UNCHANGED <<rows, marker, latest, saved, late, answer, lookup, change, scan, pass,
                 list, inflight, faults>>

Entries(page) == {[article |-> k[1], version |-> rows[k]] : k \in page}

\* Mutant: the newest page of each raw page is kept, but not the row after it.
NewestPage(entries) ==
  {x \in entries : Cardinality({y \in entries : Newer(y.article, x.article)}) < Limit}

\* The page and the row after it: the newest that were seen so far.
Newest(entries) ==
  {x \in entries : Cardinality({y \in entries : Newer(y.article, x.article)}) <= Limit}

\* The rows of one article disagree, as the page is taken in row by row.
Clash(l, page) ==
  \E k \in page :
    \E x \in Newest(kept[l] \cup Entries({j \in page : KeyOrder[j] < KeyOrder[k]})) :
      x.article = k[1] /\ x.version # rows[k]

CompatList(l) ==
  /\ l \in Lister \ Modern /\ pc[l] = "list"
  /\ \E page \in SUBSET Key :
       /\ PageOf(l, RawSize, page) /\ Continue(l, page)
       /\ LET after == {k \in page : cursor[l] = None \/ Newer(cursor[l], k[1])} IN
          /\ kept' = [kept EXCEPT ![l] = Newest(@ \cup Entries(after))]
          /\ IF Clash(l, after) THEN Finish(l, "error")
             ELSE Goto(l, IF further'[l] THEN "list" ELSE "give") /\ UNCHANGED answer
  /\ UNCHANGED <<table, lookup, change, pass, cursor, given, inflight, faults>>

\* listCurrent skips legacy rows and stops at a full page.
CurrentList(l) ==
  /\ l \in Lister \cap Modern /\ pc[l] = "list"
  /\ \E page \in SUBSET Key :
       /\ PageOf(l, IF RawSize < Limit - Cardinality(kept[l]) THEN RawSize
                    ELSE Limit - Cardinality(kept[l]), page)
       /\ Continue(l, page)
       /\ kept' = [kept EXCEPT ![l] = @ \cup Entries({k \in page : k[2] = "current"})]
  /\ Goto(l, IF further'[l] /\ Cardinality(kept'[l]) < Limit THEN "list" ELSE "give")
  /\ UNCHANGED <<table, answer, lookup, change, pass, cursor, given, inflight, faults>>

More(l) == IF l \in Modern THEN further[l] ELSE Cardinality(kept[l]) > Limit

Items(l) ==
  {x.article : x \in {y \in kept[l] :
     Cardinality({z \in kept[l] : Newer(z.article, y.article)}) < Limit}}

\* A page is answered; the next request comes with the cursor it named.
Give(l) ==
  /\ pc[l] = "give"
  /\ given' = [given EXCEPT ![l] = [a \in Article |-> IF a \in Items(l) THEN @[a] + 1 ELSE @[a]]]
  /\ IF More(l)
       THEN \E last \in Items(l) :
              /\ \A a \in Items(l) : ~Newer(last, a)
              /\ cursor' = [cursor EXCEPT ![l] = last]
              /\ from' = [from EXCEPT ![l] =
                   IF l \in Modern THEN KeyOrder[<<last, "current">>] + 1 ELSE 0]
              /\ Goto(l, "list") /\ UNCHANGED answer
       ELSE Finish(l, "ok") /\ UNCHANGED <<cursor, from>>
  /\ kept' = [kept EXCEPT ![l] = {}]
  /\ UNCHANGED <<table, lookup, change, further, pass, inflight, faults>>

-----------------------------------------------------------------------------
\* A call fails for good, a deadline passes, or the process stops.
Fail(r) ==
  /\ Active(r) /\ faults < MaxFaults /\ faults' = faults + 1
  /\ Finish(r, CASE r \in Migrator -> "failed"
                 [] r \in Lister -> "error"
                 [] r \in Editor -> IF use[r] \in {"refresh", "settle"} THEN "commitUnknown"
                                    ELSE "unavailable")
  /\ UNCHANGED <<table, lookup, change, scan, pass, list, inflight>>

Init ==
  /\ rows \in [Key -> {None, "original"}]
  /\ marker = FALSE
  /\ pc = [r \in Request |-> "idle"]
  /\ answer = [r \in Request |-> "none"]
  /\ article = [e \in Editor |-> None]
  /\ use = [e \in Editor |-> "read"]
  /\ known = [e \in Editor |-> None]
  /\ change = [r \in Migrator \cup Editor |-> None]
  /\ seen = [r \in Migrator \cup Editor |-> None]
  /\ todo = [m \in Migrator |-> {}]
  /\ from = [r \in Migrator \cup Lister |-> 0]
  /\ further = [r \in Migrator \cup Lister |-> FALSE]
  /\ moved = [m \in Migrator |-> FALSE]
  /\ kept = [l \in Lister |-> {}]
  /\ cursor = [l \in Lister |-> None]
  /\ given = [l \in Lister |-> [a \in Article |-> 0]]
  /\ inflight = {} /\ faults = 0
  /\ latest = [a \in Article |-> IF Exists(a) THEN "original" ELSE None]
  /\ saved = {} /\ late = {}
  /\ owed = [m \in Migrator |-> {}]
  /\ steady = [l \in Lister |-> {}]

Step(m) ==
  \/ Begin(m) \/ ReadMarker(m) \/ ListRows(m) \/ PageEnd(m) \/ MoveRow(m)
  \/ LookLegacy(m) \/ LookTarget(m) \/ ReadAgain(m) \/ VerifyGone(m)
  \/ Persist(m) \/ Recheck(m) \/ Restart(m)

Next ==
  \/ \E m \in Migrator : Step(m)
  \/ \E e \in Editor : Open(e) \/ Find(e) \/ Direct(e) \/ Gone(e)
  \/ \E l \in Lister : BeginList(l) \/ CompatList(l) \/ CurrentList(l) \/ Give(l)
  \/ \E r \in Migrator \cup Editor : Commit(r) \/ Refuse(r) \/ NoAnswer(r)
  \/ \E r \in Request : Fail(r)
  \/ \E o \in OldWriter : OldWrite(o)
  \/ Land \/ LandMarker

\* A process that starts goes on, and its calls are answered or time out.
Fairness ==
  \A m \in Migrator : WF_vars(Step(m) \/ Commit(m) \/ Refuse(m))

Spec == Init /\ [][Next]_vars /\ Fairness

-----------------------------------------------------------------------------
(* Properties *)

Stage == {"idle", "marker", "list", "move", "send", "legacy", "target", "again", "verify",
          "persist", "recheck", "find", "direct", "gone", "give", "done"}

Reply == {"none", "complete", "failed", "ok", "notFound", "conflict", "slugTaken",
          "commitUnknown", "unavailable", "error"}

TypeOK ==
  /\ rows \in [Key -> Version \cup {None}]
  /\ marker \in BOOLEAN
  /\ pc \in [Request -> Stage]
  /\ answer \in [Request -> Reply]
  /\ article \in [Editor -> Article \cup {None}]
  /\ use \in [Editor -> {"read", "update", "refresh", "settle"}]
  /\ known \in [Editor -> (Place \X Version) \cup {None}]
  /\ change \in [Migrator \cup Editor -> Change \cup {None}]
  /\ seen \in [Migrator \cup Editor -> Version \cup {None}]
  /\ todo \in [Migrator -> SUBSET Entry]
  /\ from \in [Migrator \cup Lister -> Nat]
  /\ further \in [Migrator \cup Lister -> BOOLEAN]
  /\ moved \in [Migrator -> BOOLEAN]
  /\ kept \in [Lister -> SUBSET Entry]
  /\ cursor \in [Lister -> Article \cup {None}]
  /\ given \in [Lister -> [Article -> Nat]]
  /\ inflight \subseteq Change \cup {Marker}
  /\ faults \in 0..MaxFaults
  /\ latest \in [Article -> Version \cup {None}]
  /\ saved \subseteq Editor
  /\ owed \in [Migrator -> SUBSET Article]
  /\ late \subseteq Article
  /\ steady \in [Lister -> SUBSET Article]

\* Once the completion marker is there, or an unanswered one may still be
\* written, no legacy row is left but what an image from before the compat
\* boundary has written: instances that read current rows only miss nothing,
\* whatever editors saved and wherever a migration stopped before.  And a start
\* that completes, by its scan or by the marker of an earlier one, has moved the
\* legacy rows it met, those late ones included if it is a repair.
Converged ==
  /\ marker \/ Marker \in inflight => \A a \in Article \ late : Old(a) = None
  /\ \A m \in Migrator : answer[m] = "complete" =>
       \A a \in owed[m] : Old(a) = None \/ (m \notin Repairer /\ a \in late)

\* No save is lost: the version last written of each article is in one of its
\* rows, however moves, saves, retries and late transactions interleave.
NothingLost == \A a \in Article : latest[a] # None => \E p \in Place : rows[<<a, p>>] = latest[a]

\* "ok" means that the editor's version was written, and a refusal that it was
\* not.
AnswersTrue ==
  \A e \in Editor :
    /\ answer[e] = "ok" => e \in saved
    /\ answer[e] \in {"notFound", "conflict", "slugTaken"} => e \notin saved

\* A list that succeeds gives no article twice, and one that nobody touched
\* exactly once, wherever its row is and whatever is moved between its pages;
\* an instance that reads current rows only leaves out legacy ones.
ListsExact ==
  \A l \in Lister : answer[l] = "ok" =>
    \A a \in Article :
      /\ given[l][a] <= 1
      /\ a \in steady[l] =>
           given[l][a] = IF l \in Modern /\ New(a) = None THEN 0 ELSE 1

\* A start in migrate mode completes at last, through faults, restarts and
\* concurrent saves, unless the two rows of an article have come to differ.
Differ(a) == None \notin {Old(a), New(a)} /\ Old(a) # New(a)

MigrationEnds ==
  \A m \in Migrator \ Repairer :
    pc[m] = "idle" ~> (answer[m] = "complete" \/ \E a \in Article : Differ(a))
=============================================================================
