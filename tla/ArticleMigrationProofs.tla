------------------------ MODULE ArticleMigrationProofs ------------------------
(***************************************************************************)
(* Proofs about ArticleMigration: the migration loses no version of an     *)
(* article, its marker and its completion mean what they say, editors are  *)
(* told the truth, and lists are exact, for any number of articles,        *)
(* instances, page sizes and faults.                                       *)
(***************************************************************************)
EXTENDS ArticleMigration, TLAPS, FiniteSetTheorems, WellFoundedInduction

Actor == Migrator \cup Editor

\* A request is on the path of its kind, with what the steps there need.
Routes ==
  /\ \A r \in Request : pc[r] # "done" => answer[r] = "none"
  /\ \A m \in Migrator :
       /\ pc[m] \in {"idle", "marker", "list", "move", "send", "legacy", "target", "again",
                     "verify", "persist", "recheck", "done"}
       /\ pc[m] = "marker" => m \notin Repairer
       /\ change[m] # None => change[m].kind \in {"move", "drop"} /\ change[m].put = change[m].under
       /\ pc[m] \in {"send", "legacy", "target", "again", "verify"} => change[m] # None
       /\ pc[m] \in {"legacy", "target", "again"} => change[m].kind = "move"
  /\ \A e \in Editor :
       /\ pc[e] \in {"idle", "find", "direct", "send", "gone", "done"}
       /\ pc[e] \notin {"idle", "done"} => article[e] \in Article
       /\ pc[e] = "idle" => use[e] = "read"
       /\ change[e] # None => change[e].kind \in {"move", "replace"} /\ change[e].put = e
       /\ pc[e] = "send" => change[e] # None /\ use[e] = "update"
       /\ pc[e] = "gone" => use[e] = "settle"
       /\ use[e] = "settle" => change[e] # None
  /\ \A l \in Lister : pc[l] \in {"idle", "list", "give", "done"}
  /\ \A o \in OldWriter : pc[o] \in {"idle", "done"}

\* An editor's version is met only once it was written.
Genuine ==
  /\ \A k \in Key : rows[k] \in Editor => rows[k] \in saved
  /\ \A m \in Migrator : \A entry \in todo[m] : entry.version \in Editor => entry.version \in saved
  /\ \A m \in Migrator : change[m] # None /\ change[m].put \in Editor => change[m].put \in saved
  /\ \A r \in Actor : seen[r] \in Editor => seen[r] \in saved
  /\ \A c \in inflight \cap Change : c.put \in Editor => c.put \in saved \/ use[c.put] = "settle"
  /\ \A e \in Editor : use[e] \in {"read", "update"} => e \notin saved
  /\ \A e \in Editor : answer[e] \in {"notFound", "conflict", "slugTaken"} => use[e] \in {"read", "update"}
  /\ \A e \in Editor : answer[e] = "ok" => e \in saved

\* The version last written is in the current row, or in the legacy one if there
\* is no current row.
Latest ==
  /\ \A a \in Article : latest[a] = IF New(a) # None THEN New(a) ELSE Old(a)
  /\ \A a \in late : New(a) = None

\* What a change may rely on when it is applied.
Safe(c) ==
  /\ c.kind = "drop" => New(c.article) # None /\ c.put = c.under
  /\ c.kind = "replace" /\ c.place = "legacy" => marker

SafeChanges ==
  /\ \A c \in inflight \cap Change : Safe(c)
  /\ \A r \in Actor : pc[r] = "send" => Safe(change[r])
  /\ \A m \in Migrator : pc[m] = "again" => New(change[m].article) # None
  /\ \A e \in Editor \cap Modern : Active(e) => marker

\* No legacy rows are left behind the marker.
MarkerTrue ==
  /\ marker \/ Marker \in inflight => \A a \in Article \ late : Old(a) = None
  /\ \A m \in Migrator : answer[m] = "complete" => marker

\* Legacy rows a migrator's scan is about.
Pending(m) == {a \in Article : Old(a) # None /\ (a \notin late \/ (m \in Repairer /\ a \in owed[m]))}

\* Article a is still before migrator m's scan, or the scan is repeated.
Ahead(m, a) ==
  \/ moved[m]
  \/ pc[m] = "list" /\ KeyOrder[<<a, "legacy">>] >= from[m]
  \/ /\ pc[m] \in {"move", "send", "legacy", "target", "again", "verify"}
     /\ \/ \E entry \in todo[m] : entry.article = a
        \/ further[m] /\ KeyOrder[<<a, "legacy">>] >= from[m]
        \/ pc[m] # "move" /\ change[m].article = a

Scanned ==
  \A m \in Migrator :
    /\ pc[m] \in {"list", "move", "send", "legacy", "target", "again", "verify"} =>
         \A a \in Pending(m) : Ahead(m, a)
    /\ pc[m] \in {"persist", "recheck"} => Pending(m) = {}
    /\ \A a \in owed[m] : Exists(a)
    /\ m \in Repairer /\ answer[m] = "complete" => \A a \in owed[m] : Old(a) = None

MigrationInv ==
  TypeOK /\ Routes /\ Genuine /\ Latest /\ SafeChanges /\ MarkerTrue /\ Scanned

-----------------------------------------------------------------------------
\* The requests are of one kind each, and None is nothing else.
LEMMA Cast ==
  /\ Migrator \subseteq Request /\ Editor \subseteq Request /\ Lister \subseteq Request /\ OldWriter \subseteq Request
  /\ Migrator \cap Editor = {} /\ Migrator \cap Lister = {} /\ Editor \cap Lister = {}
  /\ OldWriter \cap Migrator = {} /\ OldWriter \cap Editor = {} /\ OldWriter \cap Lister = {}
  /\ Repairer \subseteq Migrator
  /\ None \notin Version /\ None \notin Article /\ None \notin Change
  /\ Editor \subseteq Version /\ OldWriter \subseteq Version /\ "original" \in Version
  /\ "original" \notin Editor
  /\ Marker \notin Change
  BY CastAssumption, NoneAssumption DEF Request, Version, Marker, Change

\* A key is an article and a place.
LEMMA Keys ==
  /\ \A a \in Article, p \in Place : <<a, p>> \in Key
  /\ \A k \in Key : k[1] \in Article /\ k[2] \in Place /\ k = <<k[1], k[2]>>
  /\ \A k \in Key : KeyOrder[k] \in Nat
  BY OrderAssumption DEF Key, Place

\* Of some keys, one comes first.
LEMMA FirstKey ==
  ASSUME NEW S, S \subseteq Key, S # {}
  PROVE  \E k \in S : \A j \in S : KeyOrder[k] <= KeyOrder[j]
<1> DEFINE Below == {0..KeyOrder[k] : k \in S}
<1>1. ASSUME NEW k \in S PROVE IsFiniteSet(0..KeyOrder[k])
  <2>1. KeyOrder[k] \in Int /\ 0 \in Int
    BY Keys
  <2> QED BY Zenon, <2>1, FS_Interval
<1>2. \A k \in S : 0..KeyOrder[k] \subseteq Nat
  OBVIOUS
<1>3. Below \subseteq FiniteSubsetsOf(Nat) /\ Below # {}
  BY Zenon, <1>1, <1>2 DEF FiniteSubsetsOf
<1>4. PICK least \in Below : \A b \in Below : <<b, least>> \notin StrictSubsetOrdering(Nat)
  BY <1>3, WFMin, FS_StrictSubsetOrderingWellFounded
<1>5. PICK x \in S : least = 0..KeyOrder[x]
  BY <1>4
<1>6. ASSUME NEW y \in S, KeyOrder[y] < KeyOrder[x] PROVE FALSE
  <2>1. KeyOrder[x] \in Nat /\ KeyOrder[y] \in Nat
    BY Keys
  <2>2. 0..KeyOrder[y] \in Below /\ 0..KeyOrder[y] \subseteq 0..KeyOrder[x] /\ 0..KeyOrder[y] # 0..KeyOrder[x]
    BY <1>6, <2>1
  <2> QED BY <1>2, <1>4, <1>5, <2>2 DEF StrictSubsetOrdering
<1>7. \A y \in S : KeyOrder[x] <= KeyOrder[y]
  BY <1>6, Keys
<1> QED BY <1>7

\* A page leaves a scan at the first row that is still to come.
LEMMA Continued ==
  ASSUME TypeOK, NEW r \in Migrator \cup Lister, NEW page \in SUBSET Key, NEW top, PageOf(r, top, page), Continue(r, page)
  PROVE  /\ from' \in [Migrator \cup Lister -> Nat] /\ further' \in [Migrator \cup Lister -> BOOLEAN]
         /\ \A q \in (Migrator \cup Lister) \ {r} : from'[q] = from[q] /\ further'[q] = further[q]
         /\ \A k \in Present : KeyOrder[k] >= from[r] => k \in page \/ (further'[r] /\ KeyOrder[k] >= from'[r])
<1> DEFINE next == IF Rest(r, page) = {} THEN from[r] ELSE
                     KeyOrder[CHOOSE k \in Rest(r, page) : \A j \in Rest(r, page) : KeyOrder[k] <= KeyOrder[j]]
<1>1. from' = [from EXCEPT ![r] = next] /\ further' = [further EXCEPT ![r] = Rest(r, page) # {}]
  BY DEF Continue
<1>2. Rest(r, page) \subseteq Key
  BY DEF Rest, Beyond, Present
<1>3. next \in Nat /\ \A k \in Rest(r, page) : KeyOrder[k] >= next
  <2>1. CASE Rest(r, page) = {}
    BY <2>1 DEF TypeOK
  <2>2. CASE Rest(r, page) # {}
    <3>1. \E k \in Rest(r, page) : \A j \in Rest(r, page) : KeyOrder[k] <= KeyOrder[j]
      BY <1>2, <2>2, FirstKey
    <3>2. PICK first \in Rest(r, page) :
            next = KeyOrder[first] /\ \A j \in Rest(r, page) : KeyOrder[first] <= KeyOrder[j]
      BY <2>2, <3>1
    <3> QED BY <1>2, <3>2, Keys
  <2> QED BY <2>1, <2>2
<1> HIDE DEF next
<1>4. from' \in [Migrator \cup Lister -> Nat] /\ further' \in [Migrator \cup Lister -> BOOLEAN]
  BY <1>1, <1>3 DEF TypeOK
<1>5. from'[r] = next /\ further'[r] = (Rest(r, page) # {})
  BY <1>1 DEF TypeOK
<1>6. \A q \in (Migrator \cup Lister) \ {r} : from'[q] = from[q] /\ further'[q] = further[q]
  BY <1>1 DEF TypeOK
<1>7. \A k \in Present : KeyOrder[k] >= from[r] => k \in page \/ k \in Rest(r, page)
  BY DEF Rest, Beyond
<1> QED BY <1>3, <1>4, <1>5, <1>6, <1>7

\* What a transaction does to the table.
LEMMA Applied ==
  ASSUME TypeOK, NEW c \in Change, Apply(c)
  PROVE  /\ rows' \in [Key -> Version \cup {None}] /\ c.article \in Article
         /\ \A a \in Article \ {c.article} : Old(a)' = Old(a) /\ New(a)' = New(a)
         /\ c.kind = "move" => /\ New(c.article) = None /\ Old(c.article) = c.under
                               /\ New(c.article)' = c.put /\ Old(c.article)' = None
         /\ c.kind = "replace" => /\ rows[<<c.article, c.place>>] = c.under /\ rows'[<<c.article, c.place>>] = c.put
                                  /\ \A p \in Place \ {c.place} : rows'[<<c.article, p>>] = rows[<<c.article, p>>]
         /\ c.kind = "drop" => /\ Old(c.article) = c.under /\ Old(c.article)' = None
                               /\ New(c.article)' = New(c.article)
         /\ latest' \in [Article -> Version \cup {None}]
         /\ \A a \in Article \ {c.article} : latest'[a] = latest[a]
         /\ latest'[c.article] = IF c.put = c.under THEN latest[c.article] ELSE c.put
         /\ saved' = saved \cup ({c.put} \cap Editor) /\ UNCHANGED marker
         /\ late' = IF c.kind = "replace" THEN late ELSE late \ {c.article}
         /\ steady' = [l \in Lister |-> steady[l] \ {c.article}]
<1>1. /\ c.kind \in {"move", "replace", "drop"} /\ c.article \in Article /\ c.place \in Place
      /\ c.under \in Version /\ c.put \in Version
  BY DEF Change
<1>2. Meets(c) /\ rows' = Written(c)
  BY DEF Apply
<1>3. \A k \in Key : rows[k] \in Version \cup {None}
  BY DEF TypeOK
<1>4. /\ rows' \in [Key -> Version \cup {None}]
      /\ \A a \in Article \ {c.article}, p \in Place : rows'[<<a, p>>] = rows[<<a, p>>]
      /\ c.kind = "move" => /\ New(c.article) = None /\ Old(c.article) = c.under
                            /\ New(c.article)' = c.put /\ Old(c.article)' = None
      /\ c.kind = "replace" => /\ rows[<<c.article, c.place>>] = c.under /\ rows'[<<c.article, c.place>>] = c.put
                               /\ \A p \in Place \ {c.place} : rows'[<<c.article, p>>] = rows[<<c.article, p>>]
      /\ c.kind = "drop" => /\ Old(c.article) = c.under /\ Old(c.article)' = None
                            /\ New(c.article)' = New(c.article)
  <2>1. CASE c.kind = "move"
    BY <1>1, <1>2, <2>1 DEF TypeOK, Key, Place, Meets, Written, Old, New
  <2>2. CASE c.kind = "replace"
    BY <1>1, <1>2, <2>2 DEF TypeOK, Key, Place, Meets, Written, Old, New
  <2>3. CASE c.kind = "drop"
    BY <1>1, <1>2, <2>3 DEF TypeOK, Key, Place, Meets, Written, Old, New
  <2> QED BY <1>1, <2>1, <2>2, <2>3
<1>5. /\ latest' = [latest EXCEPT ![c.article] = IF c.put = c.under THEN @ ELSE c.put]
      /\ saved' = saved \cup ({c.put} \cap Editor) /\ UNCHANGED marker
      /\ late' = IF c.kind = "replace" THEN late ELSE late \ {c.article}
      /\ steady' = [l \in Lister |-> steady[l] \ {c.article}]
  BY DEF Apply
<1>6. latest' \in [Article -> Version \cup {None}]
  BY Zenon, <1>1, <1>5 DEF TypeOK
<1>7. /\ \A a \in Article \ {c.article} : latest'[a] = latest[a]
      /\ latest'[c.article] = IF c.put = c.under THEN latest[c.article] ELSE c.put
  BY <1>1, <1>5 DEF TypeOK
<1>8. ASSUME NEW a \in Article \ {c.article} PROVE Old(a)' = Old(a) /\ New(a)' = New(a)
  BY <1>4 DEF Old, New, Place
<1> QED BY <1>1, <1>4, <1>5, <1>6, <1>7, <1>8


\* The move of a request from one step to another, and its end.
LEMMA Steps ==
  ASSUME TypeOK, NEW r \in Request
  PROVE  /\ \A step \in Stage : Goto(r, step) => pc' \in [Request -> Stage]
         /\ \A reply \in Reply : Finish(r, reply) => pc' \in [Request -> Stage] /\ answer' \in [Request -> Reply]
<1>1. ASSUME NEW step \in Stage, Goto(r, step) PROVE pc' \in [Request -> Stage]
  BY <1>1 DEF TypeOK, Goto
<1>2. ASSUME NEW reply \in Reply, Finish(r, reply)
      PROVE  pc' \in [Request -> Stage] /\ answer' \in [Request -> Reply]
  <2>1. Goto(r, "done") /\ "done" \in Stage /\ answer' = [answer EXCEPT ![r] = reply]
    BY <1>2 DEF Finish, Stage
  <2> QED BY <1>1, <2>1 DEF TypeOK
<1> QED BY <1>1, <1>2

\* The steps and the answers there are.
LEMMA Vocabulary ==
  /\ "idle" \in Stage /\ "marker" \in Stage /\ "list" \in Stage /\ "move" \in Stage
  /\ "send" \in Stage /\ "legacy" \in Stage /\ "target" \in Stage /\ "again" \in Stage
  /\ "verify" \in Stage /\ "persist" \in Stage /\ "recheck" \in Stage /\ "find" \in Stage
  /\ "direct" \in Stage /\ "gone" \in Stage /\ "give" \in Stage /\ "done" \in Stage
  /\ "none" \in Reply /\ "complete" \in Reply /\ "failed" \in Reply /\ "ok" \in Reply
  /\ "notFound" \in Reply /\ "conflict" \in Reply /\ "slugTaken" \in Reply
  /\ "commitUnknown" \in Reply /\ "unavailable" \in Reply /\ "error" \in Reply
  BY DEF Stage, Reply

\* A pass begins anew.
LEMMA Rewound ==
  ASSUME TypeOK, NEW m \in Migrator, m \in Migrator \cup Lister, FirstPage(m) \/ UNCHANGED <<from, moved>>
  PROVE  from' \in [Migrator \cup Lister -> Nat] /\ moved' \in [Migrator -> BOOLEAN]
<1>1. from \in [Migrator \cup Lister -> Nat] /\ moved \in [Migrator -> BOOLEAN]
  BY DEF TypeOK
<1>2. CASE FirstPage(m)
  <2>1. from' = [from EXCEPT ![m] = 0] /\ moved' = [moved EXCEPT ![m] = FALSE]
    BY <1>2 DEF FirstPage
  <2>2. from' \in [Migrator \cup Lister -> Nat]
    BY <1>1, <2>1
  <2>3. moved' \in [Migrator -> BOOLEAN]
    BY <1>1, <2>1
  <2> QED BY <2>2, <2>3
<1>3. CASE UNCHANGED <<from, moved>>
  BY <1>1, <1>3
<1> QED BY <1>2, <1>3

\* How a migrator settles a row.
LEMMA Settled ==
  ASSUME TypeOK, NEW m \in Migrator, m \in Request,
         \/ Moved(m) /\ UNCHANGED answer
         \/ Finish(m, "failed") /\ UNCHANGED moved
         \/ Goto(m, "again") /\ UNCHANGED <<answer, moved>>
         \/ Goto(m, "send") /\ UNCHANGED <<answer, moved>>
  PROVE  pc' \in [Request -> Stage] /\ answer' \in [Request -> Reply] /\ moved' \in [Migrator -> BOOLEAN]
<1>1. answer \in [Request -> Reply] /\ moved \in [Migrator -> BOOLEAN]
  BY DEF TypeOK
<1>2. pc' \in [Request -> Stage] /\ answer' \in [Request -> Reply]
  BY <1>1, Steps, Vocabulary DEF Moved
<1>3. moved' \in [Migrator -> BOOLEAN]
  BY <1>1 DEF Moved
<1> QED BY <1>2, <1>3

\* A migrator's steps keep every variable in its type.
LEMMA MigratorTypes ==
  ASSUME TypeOK, Routes, NEW m \in Migrator, Step(m)
  PROVE  TypeOK'
<1>0. m \in Request /\ m \in Migrator \cup Lister
  BY Cast
<1>1. CASE Begin(m)
  <2>1. /\ owed' = [owed EXCEPT ![m] = {a \in Article : Old(a) # None}]
        /\ UNCHANGED <<table, answer, lookup, change, further, todo, list, inflight, faults>>
    BY <1>1 DEF Begin
  <2>2. owed' \in [Migrator -> SUBSET Article]
    BY <2>1 DEF TypeOK
  <2>3. \E step \in Stage : Goto(m, step)
    BY <1>1, Vocabulary DEF Begin, FirstPage
  <2>4. pc' \in [Request -> Stage]
    BY <1>0, <2>3, Steps
  <2>5. FirstPage(m) \/ UNCHANGED <<from, moved>>
    BY <1>1 DEF Begin
  <2>6. from' \in [Migrator \cup Lister -> Nat] /\ moved' \in [Migrator -> BOOLEAN]
    BY <1>0, <2>5, Rewound
  <2> QED BY <2>1, <2>2, <2>4, <2>6 DEF TypeOK, table, lookup, list
<1>2. CASE ReadMarker(m)
  <2>1. Finish(m, "complete") \/ (Goto(m, "list") /\ UNCHANGED answer)
    BY <1>2 DEF ReadMarker, FirstPage
  <2>2. pc' \in [Request -> Stage] /\ answer' \in [Request -> Reply]
    BY <1>0, <2>1, Steps, Vocabulary DEF TypeOK
  <2>3. FirstPage(m) \/ UNCHANGED <<from, moved>>
    BY <1>2 DEF ReadMarker
  <2>4. from' \in [Migrator \cup Lister -> Nat] /\ moved' \in [Migrator -> BOOLEAN]
    BY <1>0, <2>3, Rewound
  <2>5. UNCHANGED <<table, lookup, change, further, todo, owed, list, inflight, faults>>
    BY <1>2 DEF ReadMarker
  <2> QED BY <2>2, <2>4, <2>5 DEF TypeOK, table, lookup, list
<1>3. CASE ListRows(m)
  <2>1. PICK page \in SUBSET Key : PageOf(m, RawSize, page) /\ Continue(m, page) /\ todo' = [todo EXCEPT ![m] = Legacy(page)]
    BY <1>3 DEF ListRows
  <2>2. from' \in [Migrator \cup Lister -> Nat] /\ further' \in [Migrator \cup Lister -> BOOLEAN]
    BY <1>0, <2>1, Continued
  <2>3. Legacy(page) \subseteq Entry
    <3> SUFFICES ASSUME NEW k \in page, k[2] = "legacy"
                 PROVE  [article |-> k[1], version |-> rows[k]] \in Entry
      BY DEF Legacy
    <3>1. rows[k] \in Version
      BY <2>1 DEF PageOf, Beyond, Present, TypeOK
    <3> QED BY <3>1, Keys DEF Entry
  <2>4. todo' \in [Migrator -> SUBSET Entry]
    BY <2>1, <2>3 DEF TypeOK
  <2>5. pc' \in [Request -> Stage]
    BY <1>0, <1>3, Steps, Vocabulary DEF ListRows
  <2>6. UNCHANGED <<table, answer, lookup, change, moved, owed, list, inflight, faults>>
    BY <1>3 DEF ListRows
  <2> QED BY <2>2, <2>4, <2>5, <2>6 DEF TypeOK, table, lookup, list
<1>4. CASE PageEnd(m)
  <2>1. \E step \in Stage : Goto(m, step)
    BY <1>4, Vocabulary DEF PageEnd, FirstPage
  <2>2. pc' \in [Request -> Stage]
    BY <1>0, <2>1, Steps
  <2>3. FirstPage(m) \/ UNCHANGED <<from, moved>>
    BY <1>4 DEF PageEnd
  <2>4. from' \in [Migrator \cup Lister -> Nat] /\ moved' \in [Migrator -> BOOLEAN]
    BY <1>0, <2>3, Rewound
  <2>5. UNCHANGED <<table, answer, lookup, change, further, todo, owed, list, inflight, faults>>
    BY <1>4 DEF PageEnd
  <2> QED BY <2>2, <2>4, <2>5 DEF TypeOK, table, lookup, list
<1>5. CASE MoveRow(m)
  <2>1. PICK entry \in todo[m] :
          /\ todo' = [todo EXCEPT ![m] = @ \ {entry}]
          /\ change' = [change EXCEPT ![m] =
               [kind |-> "move", article |-> entry.article, place |-> "current",
                under |-> entry.version, put |-> entry.version]]
    BY <1>5 DEF MoveRow
  <2>2. entry \in Entry
    BY <2>1 DEF TypeOK
  <2>3. [kind |-> "move", article |-> entry.article, place |-> "current",
         under |-> entry.version, put |-> entry.version] \in Change
    BY <2>2 DEF Entry, Change, Place
  <2>4. change' \in [Migrator \cup Editor -> Change \cup {None}] /\ todo' \in [Migrator -> SUBSET Entry]
    BY <2>1, <2>3 DEF TypeOK
  <2>5. pc' \in [Request -> Stage] /\ UNCHANGED <<table, answer, lookup, scan, moved, owed, list, inflight, faults>>
    BY <1>0, <1>5, Steps, Vocabulary DEF MoveRow
  <2> QED BY <2>4, <2>5 DEF TypeOK, table, lookup, scan, list
<1>6. CASE LookLegacy(m)
  <2>1. pc[m] = "legacy" /\ seen' = [seen EXCEPT ![m] = Old(change[m].article)]
    BY <1>6 DEF LookLegacy
  <2>2. change[m] # None /\ change[m] \in Change
    BY <2>1 DEF TypeOK, Routes
  <2>3. Old(change[m].article) \in Version \cup {None}
    BY <2>2 DEF TypeOK, Old, Change, Key, Place
  <2>4. seen' \in [Migrator \cup Editor -> Version \cup {None}]
    BY <2>1, <2>3 DEF TypeOK
  <2>5. pc' \in [Request -> Stage] /\ UNCHANGED <<table, answer, article, use, known, change, scan, pass, list, inflight, faults>>
    BY <1>0, <1>6, Steps, Vocabulary DEF LookLegacy
  <2> QED BY <2>4, <2>5 DEF TypeOK, table, scan, pass, list
<1>7. CASE LookTarget(m)
  <2>1. /\ pc' \in [Request -> Stage] /\ answer' \in [Request -> Reply] /\ moved' \in [Migrator -> BOOLEAN]
        /\ UNCHANGED <<table, lookup, change, scan, todo, owed, list, inflight, faults>>
    <3>1. \/ Moved(m) /\ UNCHANGED answer
          \/ Finish(m, "failed") /\ UNCHANGED moved
          \/ Goto(m, "again") /\ UNCHANGED <<answer, moved>>
      BY <1>7 DEF LookTarget
    <3>2. pc' \in [Request -> Stage] /\ answer' \in [Request -> Reply] /\ moved' \in [Migrator -> BOOLEAN]
      BY <1>0, <3>1, Settled
    <3> QED BY <1>7, <3>2 DEF LookTarget
  <2> QED BY <2>1 DEF TypeOK, table, lookup, scan, list
<1>8. CASE ReadAgain(m)
  <2>1. pc[m] = "again" /\ change[m] # None /\ change[m] \in Change
    BY <1>8 DEF TypeOK, Routes, ReadAgain
  <2>2. Old(change[m].article) \in Version \cup {None}
    BY <2>1 DEF TypeOK, Old, Change, Key, Place
  <2>3. Old(change[m].article) # None =>
          [change[m] EXCEPT !.kind = "drop", !.place = "legacy", !.under = Old(change[m].article),
                            !.put = Old(change[m].article)] \in Change
    BY <2>1, <2>2 DEF Change, Place
  <2>4. change' \in [Migrator \cup Editor -> Change \cup {None}]
    <3>1. change \in [Migrator \cup Editor -> Change \cup {None}]
      BY DEF TypeOK
    <3> QED BY <1>8, <2>3, <3>1 DEF ReadAgain
  <2>5. /\ pc' \in [Request -> Stage] /\ moved' \in [Migrator -> BOOLEAN]
        /\ UNCHANGED <<table, answer, lookup, scan, todo, owed, list, inflight, faults>>
    <3>1. \/ Moved(m) /\ UNCHANGED answer
          \/ Goto(m, "send") /\ UNCHANGED <<answer, moved>>
      BY <1>8 DEF ReadAgain
    <3>2. pc' \in [Request -> Stage] /\ moved' \in [Migrator -> BOOLEAN]
      BY <1>0, <3>1, Settled
    <3> QED BY <1>8, <3>2 DEF ReadAgain
  <2> QED BY <2>4, <2>5 DEF TypeOK, table, lookup, scan, list
<1>9. CASE VerifyGone(m)
  <2>1. /\ pc' \in [Request -> Stage] /\ answer' \in [Request -> Reply] /\ moved' \in [Migrator -> BOOLEAN]
        /\ UNCHANGED <<table, lookup, change, scan, todo, owed, list, inflight, faults>>
    <3>1. \/ Moved(m) /\ UNCHANGED answer
          \/ Finish(m, "failed") /\ UNCHANGED moved
      BY <1>9 DEF VerifyGone
    <3>2. pc' \in [Request -> Stage] /\ answer' \in [Request -> Reply] /\ moved' \in [Migrator -> BOOLEAN]
      BY <1>0, <3>1, Settled
    <3> QED BY <1>9, <3>2 DEF VerifyGone
  <2> QED BY <2>1 DEF TypeOK, table, lookup, scan, list
<1>10. CASE Persist(m)
  <2>1. /\ pc' \in [Request -> Stage] /\ answer' \in [Request -> Reply] /\ marker' \in BOOLEAN
        /\ inflight' \subseteq Change \cup {Marker} /\ faults' \in 0..MaxFaults
        /\ UNCHANGED <<rows, latest, saved, late, steady, lookup, change, scan, pass, list>>
    <3>1. faults \in 0..MaxFaults /\ MaxFaults \in Nat /\ answer \in [Request -> Reply] /\ marker \in BOOLEAN
          /\ inflight \subseteq Change \cup {Marker}
      BY NumberAssumption DEF TypeOK
    <3>2. Finish(m, "complete") \/ (Goto(m, "recheck") /\ UNCHANGED answer)
      BY <1>10 DEF Persist
    <3>3. pc' \in [Request -> Stage] /\ answer' \in [Request -> Reply]
      BY <1>0, <3>1, <3>2, Steps, Vocabulary
    <3>4. /\ marker' \in {TRUE, marker} /\ inflight' \in {inflight, inflight \cup {Marker}}
          /\ faults' = faults \/ (faults < MaxFaults /\ faults' = faults + 1)
      BY <1>10 DEF Persist
    <3>5. marker' \in BOOLEAN /\ inflight' \subseteq Change \cup {Marker}
      BY <3>1, <3>4
    <3>6. faults' \in 0..MaxFaults
      BY <3>1, <3>4
    <3> QED BY <1>10, <3>3, <3>5, <3>6 DEF Persist
  <2> QED BY <2>1 DEF TypeOK, lookup, scan, pass, list
<1>11. CASE Recheck(m)
  <2>1. /\ pc' \in [Request -> Stage] /\ answer' \in [Request -> Reply]
        /\ UNCHANGED <<table, lookup, change, scan, pass, list, inflight, faults>>
    BY <1>0, <1>11, Steps, Vocabulary DEF TypeOK, Recheck
  <2> QED BY <2>1 DEF TypeOK, table, lookup, scan, pass, list
<1>12. CASE Restart(m)
  <2>1. /\ pc' \in [Request -> Stage] /\ answer' \in [Request -> Reply]
        /\ UNCHANGED <<table, lookup, change, scan, pass, list, inflight, faults>>
    BY <1>0, <1>12, Steps, Vocabulary DEF TypeOK, Restart
  <2> QED BY <2>1 DEF TypeOK, table, lookup, scan, pass, list
<1> QED BY <1>1, <1>2, <1>3, <1>4, <1>5, <1>6, <1>7, <1>8, <1>9, <1>10, <1>11, <1>12 DEF Step


\* Faults are counted up to their bound.
LEMMA Counted ==
  ASSUME TypeOK, faults < MaxFaults, faults' = faults + 1
  PROVE  faults' \in 0..MaxFaults
  BY NumberAssumption DEF TypeOK

\* The transaction an editor sends is one.
LEMMA SavingType ==
  ASSUME NEW e \in Editor, article[e] \in Article, NEW place \in Place, NEW version \in Version
  PROVE  Saving(e, place, version) \in Change
  BY Cast DEF Saving, Change, Place

\* What a lookup that finds a row changes keeps its type.
LEMMA FoundTypes ==
  ASSUME TypeOK, NEW e \in Editor, article[e] \in Article, NEW place \in Place, NEW version \in Version,
         Found(e, place, version)
  PROVE  /\ pc' \in [Request -> Stage] /\ answer' \in [Request -> Reply]
         /\ known' \in [Editor -> (Place \X Version) \cup {None}]
         /\ use' \in [Editor -> {"read", "update", "refresh", "settle"}]
         /\ change' \in [Actor -> Change \cup {None}] /\ seen' \in [Actor -> Version \cup {None}]
<1>1. /\ answer \in [Request -> Reply] /\ known \in [Editor -> (Place \X Version) \cup {None}]
      /\ use \in [Editor -> {"read", "update", "refresh", "settle"}]
      /\ change \in [Actor -> Change \cup {None}] /\ seen \in [Actor -> Version \cup {None}]
  BY DEF TypeOK, Actor
<1>2. e \in Request /\ e \in Actor
  BY Cast DEF Actor
<1>3. \/ Goto(e, "find") /\ UNCHANGED answer
      \/ Goto(e, "send") /\ UNCHANGED answer
      \/ Goto(e, "gone") /\ UNCHANGED answer
      \/ \E reply \in Reply : Finish(e, reply)
  <2>1. Reconciled(e, version) \in Reply
    BY Vocabulary DEF Reconciled
  <2> QED BY <2>1, Vocabulary DEF Found
<1>4. pc' \in [Request -> Stage] /\ answer' \in [Request -> Reply]
  BY <1>1, <1>2, <1>3, Steps, Vocabulary
<1>5. known' \in {known, [known EXCEPT ![e] = <<place, version>>]}
  BY DEF Found
<1>6. use' \in {use, [use EXCEPT ![e] = "update"]}
  BY DEF Found
<1>7. change' \in {change, [change EXCEPT ![e] = Saving(e, place, version)]}
  BY DEF Found
<1>8. seen' \in {seen, [seen EXCEPT ![e] = version]}
  BY DEF Found
<1>9. known' \in [Editor -> (Place \X Version) \cup {None}]
  BY <1>1, <1>5
<1>10. use' \in [Editor -> {"read", "update", "refresh", "settle"}]
  BY <1>1, <1>6
<1>11. change' \in [Actor -> Change \cup {None}]
  BY <1>1, <1>2, <1>7, SavingType
<1>12. seen' \in [Actor -> Version \cup {None}]
  BY <1>1, <1>2, <1>8
<1> QED BY <1>4, <1>9, <1>10, <1>11, <1>12

\* A row that a lookup finds has a version.
LEMMA Row ==
  ASSUME TypeOK, NEW k \in Present
  PROVE  k \in Key /\ rows[k] \in Version /\ k[2] \in Place
  BY Keys DEF TypeOK, Present

\* An editor's steps keep every variable in its type.
LEMMA EditorTypes ==
  ASSUME TypeOK, Routes, NEW e \in Editor, Open(e) \/ Find(e) \/ Direct(e) \/ Gone(e)
  PROVE  TypeOK'
<1>0. e \in Request /\ answer \in [Request -> Reply]
  BY Cast DEF TypeOK
<1>1. CASE Open(e)
  <2>1. PICK a \in Article : article' = [article EXCEPT ![e] = a]
    BY <1>1 DEF Open
  <2>2. article' \in [Editor -> Article \cup {None}]
    BY <2>1 DEF TypeOK
  <2>3. Goto(e, "find") /\ use' = [use EXCEPT ![e] = "read"]
        /\ UNCHANGED <<table, answer, known, seen, change, scan, pass, list, inflight, faults>>
    BY <1>1 DEF Open
  <2>4. pc' \in [Request -> Stage] /\ use' \in [Editor -> {"read", "update", "refresh", "settle"}]
    BY <1>0, <2>3, Steps, Vocabulary DEF TypeOK
  <2> QED BY <2>2, <2>3, <2>4 DEF TypeOK, table, scan, pass, list
<1>2. ASSUME UNCHANGED <<table, article, scan, pass, list, inflight, faults>>,
             pc[e] \in {"find", "direct"},
             \/ \E place \in Place, version \in Version : Found(e, place, version)
             \/ Missing(e)
             \/ Goto(e, "direct") /\ UNCHANGED <<answer, use, known, seen, change>>
      PROVE  TypeOK'
  <2>1. article[e] \in Article
    BY <1>2 DEF Routes
  <2>2. /\ pc' \in [Request -> Stage] /\ answer' \in [Request -> Reply]
        /\ known' \in [Editor -> (Place \X Version) \cup {None}]
        /\ use' \in [Editor -> {"read", "update", "refresh", "settle"}]
        /\ change' \in [Actor -> Change \cup {None}] /\ seen' \in [Actor -> Version \cup {None}]
    <3>1. CASE \E place \in Place, version \in Version : Found(e, place, version)
      BY <2>1, <3>1, FoundTypes
    <3>2. CASE Missing(e)
      <4>1. (\E reply \in Reply : Finish(e, reply)) /\ UNCHANGED <<use, known, seen, change>>
        BY <3>2, Vocabulary DEF Missing
      <4>2. pc' \in [Request -> Stage] /\ answer' \in [Request -> Reply]
        BY <1>0, <4>1, Steps
      <4> QED BY <4>1, <4>2 DEF TypeOK, Actor
    <3>3. CASE Goto(e, "direct") /\ UNCHANGED <<answer, use, known, seen, change>>
      <4>1. pc' \in [Request -> Stage]
        BY <1>0, <3>3, Steps, Vocabulary
      <4> QED BY <3>3, <4>1 DEF TypeOK, Actor
    <3> QED BY <1>2, <3>1, <3>2, <3>3
  <2> QED BY <1>2, <2>2 DEF TypeOK, table, scan, pass, list, Actor
<1>3. CASE Find(e)
  <2>1. CASE \E k \in WithID(article[e]) : Found(e, k[2], rows[k])
    <3>1. PICK k \in WithID(article[e]) : Found(e, k[2], rows[k])
      BY <2>1
    <3>2. k \in Present
      BY DEF WithID
    <3>3. k[2] \in Place /\ rows[k] \in Version
      BY <3>2, Row
    <3>4. \E place \in Place, version \in Version : Found(e, place, version)
      BY <3>1, <3>3
    <3> QED BY <1>2, <1>3, <3>4 DEF Find
  <2>2. CASE ~(\E k \in WithID(article[e]) : Found(e, k[2], rows[k]))
    BY <1>2, <1>3, <2>2 DEF Find
  <2> QED BY <2>1, <2>2
<1>4. CASE Direct(e)
  <2>1. article[e] \in Article
    BY <1>4 DEF Direct, Routes
  <2>2. Old(article[e]) \in Version \cup {None} /\ "legacy" \in Place
    BY <2>1 DEF TypeOK, Old, Key, Place
  <2> QED BY <1>2, <1>4, <2>2 DEF Direct
<1>5. CASE Gone(e)
  <2>1. \E reply \in Reply : Finish(e, reply)
    BY <1>5, Vocabulary DEF Gone
  <2>2. pc' \in [Request -> Stage] /\ answer' \in [Request -> Reply]
    BY <1>0, <2>1, Steps
  <2>3. UNCHANGED <<table, lookup, change, scan, pass, list, inflight, faults>>
    BY <1>5 DEF Gone
  <2> QED BY <2>2, <2>3 DEF TypeOK, table, lookup, scan, pass, list
<1> QED BY <1>1, <1>3, <1>4, <1>5

\* The entries of a list's page are entries.
LEMMA EntriesType ==
  ASSUME TypeOK, NEW page \in SUBSET Present
  PROVE  Entries(page) \subseteq Entry
<1> SUFFICES ASSUME NEW k \in page PROVE [article |-> k[1], version |-> rows[k]] \in Entry
  BY DEF Entries
<1>1. k \in Present
  OBVIOUS
<1>2. rows[k] \in Version /\ k[1] \in Article
  BY <1>1, Row, Keys
<1> QED BY <1>2 DEF Entry


\* A lister's steps keep every variable in its type.
LEMMA ListerTypes ==
  ASSUME TypeOK, NEW l \in Lister, BeginList(l) \/ CompatList(l) \/ CurrentList(l) \/ Give(l)
  PROVE  TypeOK'
<1>0. l \in Request /\ l \in Migrator \cup Lister /\ answer \in [Request -> Reply]
      /\ kept \in [Lister -> SUBSET Entry]
  BY Cast DEF TypeOK
<1>1. CASE BeginList(l)
  <2>1. steady' \in [Lister -> SUBSET Article]
    BY <1>1 DEF TypeOK, BeginList
  <2>2. pc' \in [Request -> Stage]
    BY <1>0, <1>1, Steps, Vocabulary DEF BeginList
  <2>3. UNCHANGED <<rows, marker, latest, saved, late, answer, lookup, change, scan, pass,
                    list, inflight, faults>>
    BY <1>1 DEF BeginList
  <2> QED BY <2>1, <2>2, <2>3 DEF TypeOK, lookup, scan, pass, list
<1>2. CASE CompatList(l)
  <2> DEFINE after(page) == {k \in page : cursor[l] = None \/ Newer(cursor[l], k[1])}
  <2>1. PICK page \in SUBSET Key :
          /\ PageOf(l, RawSize, page) /\ Continue(l, page)
          /\ kept' = [kept EXCEPT ![l] = Newest(@ \cup Entries(after(page)))]
          /\ IF Clash(l, after(page)) THEN Finish(l, "error")
             ELSE Goto(l, IF further'[l] THEN "list" ELSE "give") /\ UNCHANGED answer
    BY <1>2 DEF CompatList
  <2>2. after(page) \in SUBSET Present
    BY <2>1 DEF PageOf, Beyond
  <2> HIDE DEF after
  <2>3. Newest(kept[l] \cup Entries(after(page))) \subseteq Entry
    BY <1>0, <2>2, EntriesType DEF Newest
  <2>4. kept' \in [Lister -> SUBSET Entry]
    BY <1>0, <2>1, <2>3
  <2>5. from' \in [Migrator \cup Lister -> Nat] /\ further' \in [Migrator \cup Lister -> BOOLEAN]
    BY <1>0, <2>1, Continued
  <2>6. pc' \in [Request -> Stage] /\ answer' \in [Request -> Reply]
    BY <1>0, <2>1, Steps, Vocabulary
  <2>7. UNCHANGED <<table, lookup, change, pass, cursor, given, inflight, faults>>
    BY <1>2 DEF CompatList
  <2> QED BY <2>4, <2>5, <2>6, <2>7 DEF TypeOK, table, lookup, pass
<1>3. CASE CurrentList(l)
  <2>1. PICK page \in SUBSET Key :
          /\ PageOf(l, IF RawSize < Limit - Cardinality(kept[l]) THEN RawSize
                       ELSE Limit - Cardinality(kept[l]), page)
          /\ Continue(l, page)
          /\ kept' = [kept EXCEPT ![l] = @ \cup Entries({k \in page : k[2] = "current"})]
    BY <1>3 DEF CurrentList
  <2>2. {k \in page : k[2] = "current"} \in SUBSET Present
    BY <2>1 DEF PageOf, Beyond
  <2>3. kept[l] \cup Entries({k \in page : k[2] = "current"}) \subseteq Entry
    BY <1>0, <2>2, EntriesType
  <2>4. kept' \in [Lister -> SUBSET Entry]
    BY <1>0, <2>1, <2>3
  <2>5. from' \in [Migrator \cup Lister -> Nat] /\ further' \in [Migrator \cup Lister -> BOOLEAN]
    BY <1>0, <2>1, Continued
  <2>6. pc' \in [Request -> Stage]
    BY <1>0, <1>3, Steps, Vocabulary DEF CurrentList
  <2>7. UNCHANGED <<table, answer, lookup, change, pass, cursor, given, inflight, faults>>
    BY <1>3 DEF CurrentList
  <2> QED BY <2>4, <2>5, <2>6, <2>7 DEF TypeOK, table, lookup, pass
<1>4. CASE Give(l)
  <2>1. given' \in [Lister -> [Article -> Nat]] /\ kept' \in [Lister -> SUBSET Entry]
    <3>1. /\ given' = [given EXCEPT ![l] = [a \in Article |-> IF a \in Items(l) THEN @[a] + 1 ELSE @[a]]]
          /\ kept' = [kept EXCEPT ![l] = {}] /\ given \in [Lister -> [Article -> Nat]]
      BY <1>4 DEF Give, TypeOK
    <3>2. [a \in Article |-> IF a \in Items(l) THEN given[l][a] + 1 ELSE given[l][a]] \in [Article -> Nat]
      BY <3>1
    <3>3. given' = [given EXCEPT ![l] = [a \in Article |-> IF a \in Items(l) THEN given[l][a] + 1 ELSE given[l][a]]]
      BY <3>1
    <3>4. given' \in [Lister -> [Article -> Nat]]
      BY <3>1, <3>2, <3>3
    <3> QED BY <1>0, <3>1, <3>4
  <2>2. /\ cursor \in [Lister -> Article \cup {None}] /\ from \in [Migrator \cup Lister -> Nat]
    BY DEF TypeOK
  <2>3. /\ \/ Goto(l, "list") /\ UNCHANGED answer
           \/ Finish(l, "ok")
        /\ \/ \E last \in Items(l) : /\ cursor' = [cursor EXCEPT ![l] = last]
                                     /\ from' = [from EXCEPT ![l] =
                                          IF l \in Modern THEN KeyOrder[<<last, "current">>] + 1 ELSE 0]
           \/ UNCHANGED <<cursor, from>>
    <3>1. CASE More(l)
      BY <1>4, <3>1 DEF Give
    <3>2. CASE ~More(l)
      BY <1>4, <3>2 DEF Give
    <3> QED BY <3>1, <3>2
  <2>4. pc' \in [Request -> Stage] /\ answer' \in [Request -> Reply]
    BY <1>0, <2>3, Steps, Vocabulary
  <2>5. Items(l) \subseteq Article
    <3> SUFFICES ASSUME NEW x \in kept[l] PROVE x.article \in Article
      BY DEF Items
    <3>1. x \in Entry
      BY <1>0
    <3> QED BY <3>1 DEF Entry
  <2>6. cursor' \in [Lister -> Article \cup {None}] /\ from' \in [Migrator \cup Lister -> Nat]
    <3>1. CASE UNCHANGED <<cursor, from>>
      BY <2>2, <3>1
    <3>2. ASSUME NEW last \in Items(l), cursor' = [cursor EXCEPT ![l] = last],
                 from' = [from EXCEPT ![l] = IF l \in Modern THEN KeyOrder[<<last, "current">>] + 1 ELSE 0]
          PROVE  cursor' \in [Lister -> Article \cup {None}] /\ from' \in [Migrator \cup Lister -> Nat]
      <4>1. last \in Article
        BY <2>5
      <4>2. KeyOrder[<<last, "current">>] \in Nat
        BY <4>1, Keys DEF Place
      <4>3. cursor' \in [Lister -> Article \cup {None}]
        BY <2>2, <3>2, <4>1
      <4>4. from' \in [Migrator \cup Lister -> Nat]
        BY <2>2, <3>2, <4>2
      <4> QED BY <4>3, <4>4
    <3> QED BY <2>3, <3>1, <3>2
  <2>7. UNCHANGED <<table, lookup, change, further, pass, inflight, faults>>
    BY <1>4 DEF Give
  <2> QED BY <2>1, <2>4, <2>6, <2>7 DEF TypeOK, table, lookup, pass
<1> QED BY <1>1, <1>2, <1>3, <1>4

\* The transaction that is being sent is one.
LEMMA SentType ==
  ASSUME TypeOK, Routes, NEW r \in Actor, pc[r] = "send"
  PROVE  change[r] \in Change
  BY DEF TypeOK, Routes, Actor

\* The table keeps its type under a transaction.
LEMMA AppliedTypes ==
  ASSUME TypeOK, NEW c \in Change, Apply(c)
  PROVE  /\ rows' \in [Key -> Version \cup {None}] /\ marker' \in BOOLEAN
         /\ latest' \in [Article -> Version \cup {None}] /\ saved' \subseteq Editor
         /\ late' \subseteq Article /\ steady' \in [Lister -> SUBSET Article]
<1>1. marker \in BOOLEAN /\ saved \subseteq Editor /\ late \subseteq Article /\ steady \in [Lister -> SUBSET Article]
  BY DEF TypeOK
<1>2. /\ rows' \in [Key -> Version \cup {None}] /\ c.article \in Article
      /\ latest' \in [Article -> Version \cup {None}]
      /\ saved' = saved \cup ({c.put} \cap Editor) /\ UNCHANGED marker
      /\ late' = IF c.kind = "replace" THEN late ELSE late \ {c.article}
      /\ steady' = [l \in Lister |-> steady[l] \ {c.article}]
  BY Applied
<1>3. steady' \in [Lister -> SUBSET Article]
  BY <1>1, <1>2
<1> QED BY <1>1, <1>2, <1>3

\* A transaction keeps every variable in its type, whatever becomes of it.
LEMMA TransactionTypes ==
  ASSUME TypeOK, Routes, NEW r \in Actor, Commit(r) \/ Refuse(r) \/ NoAnswer(r)
  PROVE  TypeOK'
<1>0. r \in Request /\ pc[r] = "send" /\ answer \in [Request -> Reply]
      /\ use \in [Editor -> {"read", "update", "refresh", "settle"}]
  BY Cast DEF Actor, TypeOK, Commit, Refuse, NoAnswer
<1>1. change[r] \in Change
  BY <1>0, SentType
<1>2. CASE Commit(r)
  <2>1. /\ rows' \in [Key -> Version \cup {None}] /\ marker' \in BOOLEAN
        /\ latest' \in [Article -> Version \cup {None}] /\ saved' \subseteq Editor
        /\ late' \subseteq Article /\ steady' \in [Lister -> SUBSET Article]
    <3>1. PICK c \in Change : c = change[r]
      BY <1>1
    <3>2. Apply(c)
      BY <1>2, <3>1 DEF Commit
    <3> QED BY <3>2, AppliedTypes
  <2>2. /\ Goto(r, "move") \/ Goto(r, "find")
        /\ UNCHANGED use \/ (r \in Editor /\ use' = [use EXCEPT ![r] = "refresh"])
        /\ UNCHANGED moved \/ (r \in Migrator /\ moved' = [moved EXCEPT ![r] = TRUE])
    BY <1>2 DEF Commit, Moved
  <2>3. pc' \in [Request -> Stage]
    BY <1>0, <2>2, Steps, Vocabulary
  <2>4. use' \in [Editor -> {"read", "update", "refresh", "settle"}]
    BY <1>0, <2>2
  <2>5. moved' \in [Migrator -> BOOLEAN]
    BY <2>2 DEF TypeOK
  <2>6. UNCHANGED <<answer, article, known, seen, change, scan, todo, owed, list, inflight, faults>>
    BY <1>2 DEF Commit
  <2> QED BY <2>1, <2>3, <2>4, <2>5, <2>6 DEF TypeOK, scan, list
<1>3. CASE Refuse(r)
  <2>1. Refusal(change[r]) \in {"slugTaken", "notFound", "conflict"}
    BY DEF Refusal
  <2>2. \/ Goto(r, "legacy") /\ UNCHANGED answer
        \/ Goto(r, "verify") /\ UNCHANGED answer
        \/ \E reply \in Reply : Finish(r, reply)
    BY <1>3, <2>1, Vocabulary DEF Refuse, Reconcile
  <2>3. pc' \in [Request -> Stage] /\ answer' \in [Request -> Reply]
    BY <1>0, <2>2, Steps, Vocabulary
  <2>4. UNCHANGED <<table, lookup, change, scan, pass, list, inflight, faults>>
    BY <1>3 DEF Refuse
  <2> QED BY <2>3, <2>4 DEF TypeOK, table, lookup, scan, pass, list
<1>4. CASE NoAnswer(r)
  <2>1. faults' \in 0..MaxFaults
    BY <1>4, Counted DEF NoAnswer
  <2>2. inflight' \subseteq Change \cup {Marker}
    BY <1>1, <1>4 DEF TypeOK, NoAnswer
  <2>3. /\ Goto(r, "legacy") \/ Goto(r, "verify") \/ Goto(r, "find")
        /\ UNCHANGED use \/ (r \in Editor /\ use' = [use EXCEPT ![r] = "settle"])
    BY <1>4 DEF NoAnswer, Reconcile
  <2>4. pc' \in [Request -> Stage]
    BY <1>0, <2>3, Steps, Vocabulary
  <2>5. use' \in [Editor -> {"read", "update", "refresh", "settle"}]
    BY <1>0, <2>3
  <2>6. UNCHANGED <<table, answer, article, known, seen, change, scan, pass, list>>
    BY <1>4 DEF NoAnswer
  <2> QED BY <2>1, <2>2, <2>4, <2>5, <2>6 DEF TypeOK, table, scan, pass, list
<1> QED BY <1>2, <1>3, <1>4

\* So do a failure, a write of an old image and what arrives late.
LEMMA OtherTypes ==
  ASSUME TypeOK, Routes,
                 \/ \E r \in Request : Fail(r)
                 \/ \E o \in OldWriter : OldWrite(o)
                 \/ Land \/ LandMarker
  PROVE  TypeOK'
<1>1. ASSUME NEW r \in Request, Fail(r) PROVE TypeOK'
  <2>1. \E reply \in Reply : Finish(r, reply)
    <3>1. r \in Migrator \cup Lister \cup Editor
      BY <1>1 DEF Fail, Active, Routes, Request
    <3>2. CASE r \in Migrator
      BY <1>1, <3>2, Cast, Vocabulary DEF Fail
    <3>3. CASE r \in Lister
      BY <1>1, <3>3, Cast, Vocabulary DEF Fail
    <3>4. CASE r \in Editor
      BY <1>1, <3>4, Cast, Vocabulary DEF Fail
    <3> QED BY <3>1, <3>2, <3>3, <3>4
  <2>2. pc' \in [Request -> Stage] /\ answer' \in [Request -> Reply]
    BY <2>1, Steps
  <2>3. faults' \in 0..MaxFaults /\ UNCHANGED <<table, lookup, change, scan, pass, list, inflight>>
    BY <1>1, Counted DEF Fail
  <2> QED BY <2>2, <2>3 DEF TypeOK, table, lookup, scan, pass, list
<1>2. ASSUME NEW o \in OldWriter, OldWrite(o) PROVE TypeOK'
  <2>1. PICK a \in Article : /\ rows' = [rows EXCEPT ![<<a, "legacy">>] = o]
                             /\ latest' = [latest EXCEPT ![a] = o] /\ late' = late \cup {a}
                             /\ steady' = [l \in Lister |-> steady[l] \ {a}]
    BY <1>2 DEF OldWrite
  <2>2. o \in Version /\ o \in Request
    BY Cast
  <2>3. rows' \in [Key -> Version \cup {None}]
    BY <2>1, <2>2 DEF TypeOK
  <2>4. latest' \in [Article -> Version \cup {None}] /\ late' \subseteq Article
    BY <2>1, <2>2 DEF TypeOK
  <2>5. steady' \in [Lister -> SUBSET Article]
    BY <2>1 DEF TypeOK
  <2>6. pc' \in [Request -> Stage] /\ answer' \in [Request -> Reply]
    BY <1>2, <2>2, Steps, Vocabulary DEF OldWrite
  <2>7. UNCHANGED <<marker, saved, lookup, change, scan, pass, list, inflight, faults>>
    BY <1>2 DEF OldWrite
  <2> QED BY <2>3, <2>4, <2>5, <2>6, <2>7 DEF TypeOK, lookup, scan, pass, list
<1>3. CASE Land
  <2>1. PICK c \in inflight \cap Change : Apply(c) /\ inflight' = inflight \ {c}
    BY <1>3 DEF Land
  <2>2. /\ rows' \in [Key -> Version \cup {None}] /\ marker' \in BOOLEAN
        /\ latest' \in [Article -> Version \cup {None}] /\ saved' \subseteq Editor
        /\ late' \subseteq Article /\ steady' \in [Lister -> SUBSET Article]
    BY <2>1, AppliedTypes
  <2>3. inflight' \subseteq Change \cup {Marker}
    BY <2>1 DEF TypeOK
  <2>4. UNCHANGED <<progress, lookup, change, scan, pass, list, faults>>
    BY <1>3 DEF Land
  <2> QED BY <2>2, <2>3, <2>4 DEF TypeOK, progress, lookup, scan, pass, list
<1>4. CASE LandMarker
  <2>1. marker' \in BOOLEAN /\ inflight' \subseteq Change \cup {Marker}
    BY <1>4 DEF TypeOK, LandMarker
  <2>2. UNCHANGED <<rows, latest, saved, late, steady, progress, lookup, change, scan, pass, list, faults>>
    BY <1>4 DEF LandMarker
  <2> QED BY <2>1, <2>2 DEF TypeOK, progress, lookup, scan, pass, list
<1> QED BY <1>1, <1>2, <1>3, <1>4


\* The types hold in every behaviour whose requests keep to their paths.
LEMMA TypesInit == Init => TypeOK
<1> SUFFICES ASSUME Init PROVE TypeOK
  OBVIOUS
<1>1. /\ marker \in BOOLEAN /\ inflight \subseteq Change \cup {Marker} /\ faults \in 0..MaxFaults
      /\ saved \subseteq Editor /\ late \subseteq Article
  <2>1. marker = FALSE /\ inflight = {} /\ faults = 0 /\ saved = {} /\ late = {}
    BY DEF Init
  <2>2. faults \in 0..MaxFaults
    BY <2>1, NumberAssumption
  <2> QED BY <2>1, <2>2
<1>2. rows \in [Key -> Version \cup {None}]
  BY DEF Init, Version
<1>3. pc \in [Request -> Stage] /\ answer \in [Request -> Reply]
  BY DEF Init, Stage, Reply
<1>4. /\ article \in [Editor -> Article \cup {None}] /\ use \in [Editor -> {"read", "update", "refresh", "settle"}]
      /\ known \in [Editor -> (Place \X Version) \cup {None}]
  BY DEF Init
<1>5. /\ change \in [Migrator \cup Editor -> Change \cup {None}]
      /\ seen \in [Migrator \cup Editor -> Version \cup {None}]
  BY DEF Init
<1>6. /\ todo \in [Migrator -> SUBSET Entry] /\ moved \in [Migrator -> BOOLEAN] /\ owed \in [Migrator -> SUBSET Article]
      /\ from \in [Migrator \cup Lister -> Nat] /\ further \in [Migrator \cup Lister -> BOOLEAN]
  BY DEF Init
<1>7. /\ kept \in [Lister -> SUBSET Entry] /\ cursor \in [Lister -> Article \cup {None}]
      /\ given \in [Lister -> [Article -> Nat]] /\ steady \in [Lister -> SUBSET Article]
  BY DEF Init
<1>8. latest \in [Article -> Version \cup {None}]
  <2>1. latest = [a \in Article |-> IF Exists(a) THEN "original" ELSE None] /\ "original" \in Version
    BY DEF Init, Version
  <2> QED BY <2>1
<1> QED BY <1>1, <1>2, <1>3, <1>4, <1>5, <1>6, <1>7, <1>8 DEF TypeOK

LEMMA TypesStep ==
  ASSUME TypeOK, Routes, [Next]_vars
  PROVE  TypeOK'
<1>1. CASE Next
  <2>1. CASE \E m \in Migrator : Step(m)
    BY <2>1, MigratorTypes
  <2>2. CASE \E e \in Editor : Open(e) \/ Find(e) \/ Direct(e) \/ Gone(e)
    BY <2>2, EditorTypes
  <2>3. CASE \E l \in Lister : BeginList(l) \/ CompatList(l) \/ CurrentList(l) \/ Give(l)
    BY <2>3, ListerTypes
  <2>4. CASE \E r \in Migrator \cup Editor : Commit(r) \/ Refuse(r) \/ NoAnswer(r)
    BY <2>4, TransactionTypes DEF Actor
  <2>5. CASE (\E r \in Request : Fail(r)) \/ (\E o \in OldWriter : OldWrite(o)) \/ Land \/ LandMarker
    BY <2>5, OtherTypes
  <2> QED BY <1>1, <2>1, <2>2, <2>3, <2>4, <2>5 DEF Next
<1>2. CASE UNCHANGED vars
  BY <1>2 DEF vars, TypeOK, table, progress, lookup, scan, pass, list
<1> QED BY <1>1, <1>2
-----------------------------------------------------------------------------
(* What a step does to the state of its request, and to no other's.          *)

Still(q) ==
  /\ pc'[q] = pc[q] /\ answer'[q] = answer[q]
  /\ q \in Actor => change'[q] = change[q] /\ seen'[q] = seen[q]
  /\ q \in Editor => article'[q] = article[q] /\ use'[q] = use[q]
  /\ q \in Migrator => /\ todo'[q] = todo[q] /\ moved'[q] = moved[q] /\ owed'[q] = owed[q]
                       /\ from'[q] = from[q] /\ further'[q] = further[q]

TableKept == UNCHANGED <<rows, marker, latest, saved, late>>

\* A migrator begins; starts a pass; asks for a page; gets it; ends a pass.
Begins(m) ==
  /\ pc[m] = "idle" /\ owed'[m] = {a \in Article : Old(a) # None}
  /\ answer'[m] = answer[m] /\ change'[m] = change[m] /\ seen'[m] = seen[m] /\ todo'[m] = todo[m]
  /\ (pc'[m] = "list" /\ from'[m] = 0) \/ (pc'[m] = "marker" /\ m \notin Repairer)

Rewinds(m) ==
  /\ pc[m] \in {"marker", "move"} /\ pc'[m] = "list" /\ from'[m] = 0
  /\ answer'[m] = answer[m] /\ change'[m] = change[m] /\ seen'[m] = seen[m] /\ todo'[m] = todo[m]

Asks(m) ==
  /\ pc[m] = "move" /\ todo[m] = {} /\ pc'[m] = "list" /\ from'[m] = from[m] /\ moved'[m] = moved[m]
  /\ answer'[m] = answer[m] /\ change'[m] = change[m] /\ seen'[m] = seen[m] /\ todo'[m] = todo[m]

Gets(m) ==
  /\ pc[m] = "list" /\ pc'[m] = "move" /\ moved'[m] = moved[m]
  /\ \A a \in Article : Old(a) # None /\ KeyOrder[<<a, "legacy">>] >= from[m] =>
       \/ \E entry \in todo'[m] : entry.article = a
       \/ further'[m] /\ KeyOrder[<<a, "legacy">>] >= from'[m]
  /\ \A entry \in todo'[m] : \E k \in Key : entry.version = rows[k]
  /\ answer'[m] = answer[m] /\ change'[m] = change[m] /\ seen'[m] = seen[m]

Ends(m) ==
  /\ pc[m] = "move" /\ todo[m] = {} /\ ~further[m] /\ ~moved[m] /\ pc'[m] = "persist"
  /\ answer'[m] = answer[m] /\ change'[m] = change[m] /\ seen'[m] = seen[m] /\ todo'[m] = todo[m]

\* It takes a row; goes from one call of the move to the next; drops the legacy
\* row; has moved the row.
Takes(m) ==
  /\ pc[m] = "move" /\ pc'[m] = "send" /\ moved'[m] = moved[m]
  /\ from'[m] = from[m] /\ further'[m] = further[m] /\ change'[m] \in Change
  /\ \E entry \in todo[m] : /\ todo'[m] = todo[m] \ {entry} /\ change'[m].article = entry.article
                            /\ change'[m].kind = "move" /\ change'[m].place = "current"
                            /\ change'[m].under = entry.version /\ change'[m].put = entry.version
  /\ answer'[m] = answer[m] /\ seen'[m] = seen[m]

Proceeds(m) ==
  /\ \/ pc[m] = "send" /\ pc'[m] \in {"legacy", "verify"} /\ seen'[m] = seen[m]
        /\ (pc'[m] = "legacy" => change[m].kind = "move")
     \/ pc[m] = "legacy" /\ pc'[m] = "target" /\ seen'[m] = Old(change[m].article)
     \/ pc[m] = "target" /\ pc'[m] = "again" /\ seen'[m] = seen[m] /\ New(change[m].article) = change[m].put
  /\ todo'[m] = todo[m] /\ moved'[m] = moved[m] /\ from'[m] = from[m] /\ further'[m] = further[m]
  /\ answer'[m] = answer[m] /\ change'[m] = change[m]

Drops(m) ==
  /\ pc[m] = "again" /\ pc'[m] = "send" /\ change'[m] \in Change
  /\ change'[m].kind = "drop" /\ change'[m].place = "legacy" /\ change'[m].article = change[m].article
  /\ change'[m].under = Old(change[m].article) /\ change'[m].put = Old(change[m].article)
  /\ todo'[m] = todo[m] /\ moved'[m] = moved[m] /\ from'[m] = from[m] /\ further'[m] = further[m]
  /\ answer'[m] = answer[m] /\ seen'[m] = seen[m]

Settles(m) ==
  /\ pc[m] \in {"send", "target", "again", "verify"} /\ pc'[m] = "move" /\ moved'[m] = TRUE
  /\ answer'[m] = answer[m] /\ change'[m] = change[m] /\ seen'[m] = seen[m] /\ todo'[m] = todo[m]

\* It looks for the marker again; stops; is started again.
Checks(m) ==
  /\ pc[m] = "persist" /\ pc'[m] = "recheck"
  /\ answer'[m] = answer[m] /\ change'[m] = change[m] /\ seen'[m] = seen[m] /\ todo'[m] = todo[m]

Stops(m) ==
  /\ pc'[m] = "done" /\ pc[m] \notin {"idle", "done"}
  /\ answer'[m] = "failed" \/ (answer'[m] = "complete" /\ pc[m] \in {"marker", "persist", "recheck"} /\ marker')
  /\ change'[m] = change[m] /\ seen'[m] = seen[m] /\ todo'[m] = todo[m]

Restarts(m) ==
  /\ pc'[m] = "idle" /\ answer[m] = "failed" /\ answer'[m] = "none"
  /\ change'[m] = change[m] /\ seen'[m] = seen[m] /\ todo'[m] = todo[m]

Moves(m) ==
  \/ Begins(m)
  \/ /\ owed'[m] = owed[m]
     /\ \/ Rewinds(m) \/ Asks(m) \/ Gets(m) \/ Ends(m) \/ Takes(m) \/ Proceeds(m)
        \/ Drops(m) \/ Settles(m) \/ Checks(m) \/ Stops(m) \/ Restarts(m)


\* A migrator's own step is one of these, and it alone moves.
LEMMA MigratorMoves ==
  ASSUME TypeOK, Routes, NEW m \in Migrator, Step(m)
  PROVE  /\ Moves(m) /\ \A q \in Request \ {m} : Still(q)
         /\ UNCHANGED <<rows, latest, saved, late>>
         /\ \/ UNCHANGED <<marker, inflight>>
            \/ pc[m] = "persist" /\ UNCHANGED marker /\ inflight' = inflight \cup {Marker}
            \/ pc[m] = "persist" /\ marker' /\ UNCHANGED inflight
<1>0. /\ pc \in [Request -> Stage] /\ answer \in [Request -> Reply] /\ m \in Request /\ m \in Actor /\ m \notin Editor
      /\ change \in [Actor -> Change \cup {None}] /\ seen \in [Actor -> Version \cup {None}]
      /\ todo \in [Migrator -> SUBSET Entry] /\ moved \in [Migrator -> BOOLEAN] /\ owed \in [Migrator -> SUBSET Article]
      /\ from \in [Migrator \cup Lister -> Nat] /\ further \in [Migrator \cup Lister -> BOOLEAN]
      /\ m \in Migrator \cup Lister /\ Migrator \subseteq Migrator \cup Lister
  BY Cast DEF TypeOK, Actor
<1>1. CASE Begin(m)
  <2>1. Begins(m)
    BY <1>0, <1>1 DEF Begin, Begins, FirstPage, Goto, lookup
  <2>2. \A q \in Request \ {m} : Still(q)
    BY <1>0, <1>1 DEF Begin, FirstPage, Goto, lookup, Still
  <2> QED BY <1>1, <2>1, <2>2 DEF Begin, Moves, table
<1>2. CASE ReadMarker(m)
  <2>1. Rewinds(m) \/ Stops(m)
    BY <1>0, <1>2 DEF ReadMarker, Rewinds, Stops, FirstPage, Goto, Finish, lookup, table
  <2>2. \A q \in Request \ {m} : Still(q)
    BY <1>0, <1>2 DEF ReadMarker, FirstPage, Goto, Finish, lookup, Still
  <2> QED BY <1>2, <2>1, <2>2 DEF ReadMarker, Moves, table
<1>3. CASE ListRows(m)
  <2>1. PICK page \in SUBSET Key : PageOf(m, RawSize, page) /\ Continue(m, page) /\ todo' = [todo EXCEPT ![m] = Legacy(page)]
    BY <1>3 DEF ListRows
  <2>2. /\ pc[m] = "list" /\ Goto(m, "move")
        /\ UNCHANGED <<table, answer, lookup, change, moved, owed, list, inflight, faults>>
    BY <1>3 DEF ListRows
  <2>3. todo'[m] = Legacy(page) /\ pc'[m] = "move"
    BY <1>0, <2>1, <2>2 DEF Goto
  <2>4. /\ \A q \in (Migrator \cup Lister) \ {m} : from'[q] = from[q] /\ further'[q] = further[q]
        /\ \A k \in Present : KeyOrder[k] >= from[m] => k \in page \/ (further'[m] /\ KeyOrder[k] >= from'[m])
    BY <1>0, <2>1, Continued
  <2>5. ASSUME NEW a \in Article, Old(a) # None, KeyOrder[<<a, "legacy">>] >= from[m]
        PROVE  \/ \E entry \in todo'[m] : entry.article = a
               \/ further'[m] /\ KeyOrder[<<a, "legacy">>] >= from'[m]
    <3>1. <<a, "legacy">> \in Present
      BY <2>5, Keys DEF Present, Old, Place
    <3>2. CASE <<a, "legacy">> \in page
      <4>1. [article |-> a, version |-> rows[<<a, "legacy">>]] \in Legacy(page)
        BY <3>2 DEF Legacy
      <4> QED BY <2>3, <4>1
    <3> QED BY <2>4, <2>5, <3>1, <3>2
  <2>6. \A entry \in todo'[m] : \E k \in Key : entry.version = rows[k]
    <3> SUFFICES ASSUME NEW entry \in Legacy(page) PROVE \E k \in Key : entry.version = rows[k]
      BY <2>3
    <3>1. PICK k \in page : entry = [article |-> k[1], version |-> rows[k]]
      BY DEF Legacy
    <3> QED BY <3>1
  <2>7. Gets(m)
    BY <1>0, <2>2, <2>3, <2>5, <2>6 DEF Gets, lookup
  <2>8. \A q \in Request \ {m} : Still(q)
    BY <1>0, <2>1, <2>2, <2>4 DEF Goto, lookup, Still
  <2>9. owed'[m] = owed[m]
    BY <2>2
  <2> QED BY <2>2, <2>7, <2>8, <2>9 DEF Moves, table
<1>4. CASE PageEnd(m)
  <2>1. Asks(m) \/ Rewinds(m) \/ Ends(m)
    BY <1>0, <1>4 DEF PageEnd, Asks, Rewinds, Ends, FirstPage, Goto, lookup
  <2>2. \A q \in Request \ {m} : Still(q)
    BY <1>0, <1>4 DEF PageEnd, FirstPage, Goto, lookup, Still
  <2> QED BY <1>4, <2>1, <2>2 DEF PageEnd, Moves, table
<1>5. CASE MoveRow(m)
  <2>1. PICK entry \in todo[m] :
          /\ todo' = [todo EXCEPT ![m] = @ \ {entry}]
          /\ change' = [change EXCEPT ![m] =
               [kind |-> "move", article |-> entry.article, place |-> "current",
                under |-> entry.version, put |-> entry.version]]
    BY <1>5 DEF MoveRow
  <2>2. /\ pc[m] = "move" /\ Goto(m, "send")
        /\ UNCHANGED <<table, answer, lookup, scan, moved, owed, list, inflight, faults>>
    BY <1>5 DEF MoveRow
  <2>3. todo'[m] = todo[m] \ {entry} /\ pc'[m] = "send"
    BY <1>0, <2>1, <2>2 DEF Goto
  <2>4. change'[m] = [kind |-> "move", article |-> entry.article, place |-> "current",
                      under |-> entry.version, put |-> entry.version]
    BY <1>0, <2>1
  <2>5. change'[m] \in Change
    <3>1. entry \in Entry
      BY <1>0
    <3> QED BY <2>4, <3>1 DEF Entry, Change, Place
  <2>6. Takes(m)
    BY <1>0, <2>2, <2>3, <2>4, <2>5 DEF Takes, lookup, scan
  <2>7. \A q \in Request \ {m} : Still(q)
    BY <1>0, <2>1, <2>2 DEF Goto, lookup, scan, Still
  <2> QED BY <2>2, <2>6, <2>7 DEF Moves, table
<1>6. CASE LookLegacy(m)
  <2>1. Proceeds(m)
    BY <1>0, <1>6 DEF LookLegacy, Proceeds, Goto, scan, pass
  <2>2. \A q \in Request \ {m} : Still(q)
    BY <1>0, <1>6 DEF LookLegacy, Goto, scan, pass, Still
  <2> QED BY <1>6, <2>1, <2>2 DEF LookLegacy, Moves, table, pass
<1>7. CASE LookTarget(m)
  <2>1. Proceeds(m) \/ Settles(m) \/ Stops(m)
    BY <1>0, <1>7 DEF LookTarget, Proceeds, Settles, Stops, Moved, Goto, Finish, lookup, scan
  <2>2. \A q \in Request \ {m} : Still(q)
    BY <1>0, <1>7 DEF LookTarget, Moved, Goto, Finish, lookup, scan, Still
  <2> QED BY <1>7, <2>1, <2>2 DEF LookTarget, Moves, table
<1>8. CASE ReadAgain(m)
  <2>1. change[m] \in Change
    BY <1>0, <1>8 DEF ReadAgain, Routes
  <2>2. Drops(m) \/ Settles(m)
    <3>1. CASE Old(change[m].article) = None
      BY <1>0, <1>8, <3>1 DEF ReadAgain, Settles, Moved, Goto, lookup, scan
    <3>2. CASE Old(change[m].article) # None
      <4>1. change'[m] = [change[m] EXCEPT !.kind = "drop", !.place = "legacy",
                            !.under = Old(change[m].article), !.put = Old(change[m].article)]
        BY <1>0, <1>8, <3>2 DEF ReadAgain
      <4>2. Old(change[m].article) \in Version
        BY <2>1, <3>2 DEF TypeOK, Old, Change, Key, Place
      <4>3. /\ change'[m] \in Change
            /\ change'[m].kind = "drop" /\ change'[m].place = "legacy" /\ change'[m].article = change[m].article
            /\ change'[m].under = Old(change[m].article) /\ change'[m].put = Old(change[m].article)
        BY <2>1, <4>1, <4>2 DEF Change, Place
      <4>4. /\ pc[m] = "again" /\ pc'[m] = "send" /\ todo'[m] = todo[m] /\ moved'[m] = moved[m] /\ from'[m] = from[m]
            /\ further'[m] = further[m] /\ answer'[m] = answer[m] /\ seen'[m] = seen[m]
        BY <1>0, <1>8, <3>2 DEF ReadAgain, Goto, lookup, scan
      <4> QED BY <4>3, <4>4 DEF Drops
    <3> QED BY <3>1, <3>2
  <2>3. \A q \in Request \ {m} : Still(q)
    BY <1>0, <1>8 DEF ReadAgain, Moved, Goto, lookup, scan, Still
  <2> QED BY <1>8, <2>2, <2>3 DEF ReadAgain, Moves, table
<1>9. CASE VerifyGone(m)
  <2>1. Settles(m) \/ Stops(m)
    BY <1>0, <1>9 DEF VerifyGone, Settles, Stops, Moved, Goto, Finish, lookup, scan
  <2>2. \A q \in Request \ {m} : Still(q)
    BY <1>0, <1>9 DEF VerifyGone, Moved, Goto, Finish, lookup, scan, Still
  <2> QED BY <1>9, <2>1, <2>2 DEF VerifyGone, Moves, table
<1>10. CASE Persist(m)
  <2>1. Checks(m) \/ Stops(m)
    BY <1>0, <1>10 DEF Persist, Checks, Stops, Goto, Finish, lookup, scan, pass
  <2>2. \A q \in Request \ {m} : Still(q)
    BY <1>0, <1>10 DEF Persist, Goto, Finish, lookup, scan, pass, Still
  <2> QED BY <1>10, <2>1, <2>2 DEF Persist, Moves, pass
<1>11. CASE Recheck(m)
  <2>1. Stops(m)
    BY <1>0, <1>11 DEF Recheck, Stops, Goto, Finish, lookup, scan, pass, table
  <2>2. \A q \in Request \ {m} : Still(q)
    BY <1>0, <1>11 DEF Recheck, Goto, Finish, lookup, scan, pass, Still
  <2> QED BY <1>11, <2>1, <2>2 DEF Recheck, Moves, table, pass
<1>12. CASE Restart(m)
  <2>1. Restarts(m)
    BY <1>0, <1>12 DEF Restart, Restarts, Goto, lookup, scan, pass
  <2>2. \A q \in Request \ {m} : Still(q)
    BY <1>0, <1>12 DEF Restart, Goto, lookup, scan, pass, Still
  <2> QED BY <1>12, <2>1, <2>2 DEF Restart, Moves, table, pass
<1> QED BY <1>1, <1>2, <1>3, <1>4, <1>5, <1>6, <1>7, <1>8, <1>9, <1>10, <1>11, <1>12 DEF Step


\* An editor opens an article; looks; sends its save; waits for it without an
\* answer; has saved; is answered.
Opens(e) ==
  /\ pc[e] = "idle" /\ pc'[e] = "find" /\ use'[e] = "read" /\ article'[e] \in Article
  /\ answer'[e] = answer[e] /\ change'[e] = change[e] /\ seen'[e] = seen[e]
  /\ e \in Modern => \E m \in Migrator : answer[m] = "complete"

Looks(e) ==
  /\ pc[e] \in {"find", "direct"} /\ article'[e] = article[e] /\ answer'[e] = answer[e] /\ change'[e] = change[e]
  /\ \/ pc'[e] = "find" /\ use[e] = "read" /\ use'[e] = "update" /\ seen'[e] = seen[e]
     \/ pc'[e] = "direct" /\ use'[e] = use[e] /\ seen'[e] = seen[e]
     \/ pc'[e] = "gone" /\ use[e] = "settle" /\ use'[e] = use[e] /\ \E k \in Key : seen'[e] = rows[k]

Sends(e) ==
  /\ pc[e] \in {"find", "direct"} /\ pc'[e] = "send" /\ use[e] = "update" /\ use'[e] = "update"
  /\ change'[e] \in Change /\ change'[e].put = e
  /\ \/ change'[e].kind = "move"
     \/ change'[e].kind = "replace" /\ (change'[e].place = "legacy" => e \in Modern)
  /\ article'[e] = article[e] /\ answer'[e] = answer[e] /\ seen'[e] = seen[e]

Resumes(e) ==
  /\ pc[e] = "send" /\ pc'[e] = "find" /\ use'[e] \in {"refresh", "settle"}
  /\ article'[e] = article[e] /\ answer'[e] = answer[e] /\ change'[e] = change[e] /\ seen'[e] = seen[e]

Quits(e) ==
  /\ pc[e] \notin {"idle", "done"} /\ pc'[e] = "done"
  /\ answer'[e] \in {"notFound", "conflict", "slugTaken"} => use[e] \in {"read", "update"}
  /\ answer'[e] = "ok" => seen[e] = e \/ \E k \in Key : rows[k] = e
  /\ article'[e] = article[e] /\ use'[e] = use[e] /\ change'[e] = change[e] /\ seen'[e] = seen[e]

EditorMove(e) == Opens(e) \/ Looks(e) \/ Sends(e) \/ Resumes(e) \/ Quits(e)

\* What an editor does with the row that its lookup has found.
LEMMA FoundMoves ==
  ASSUME TypeOK, Routes, NEW e \in Editor, pc[e] \in {"find", "direct"}, NEW k \in Key, NEW place \in Place,
         rows[k] \in Version, Found(e, place, rows[k]), UNCHANGED article
  PROVE  (Looks(e) \/ Sends(e) \/ Quits(e)) /\ \A q \in Request \ {e} : q \notin Migrator => Still(q)
<1>0. /\ pc \in [Request -> Stage] /\ answer \in [Request -> Reply] /\ e \in Request /\ e \in Actor
      /\ change \in [Actor -> Change \cup {None}] /\ seen \in [Actor -> Version \cup {None}]
      /\ use \in [Editor -> {"read", "update", "refresh", "settle"}] /\ article[e] \in Article
  BY Cast DEF TypeOK, Actor, Routes
<1>1. CASE use[e] = "read" /\ use' = [use EXCEPT ![e] = "update"] /\ Goto(e, "find") /\ UNCHANGED <<answer, seen, change>>
  BY <1>0, <1>1 DEF Looks, Still, Goto
<1>2. CASE use[e] = "update" /\ change' = [change EXCEPT ![e] = Saving(e, place, rows[k])]
           /\ Goto(e, "send") /\ UNCHANGED <<answer, use, known, seen>>
  <2>1. change'[e] = Saving(e, place, rows[k])
    BY <1>0, <1>2
  <2>2. Saving(e, place, rows[k]) \in Change
    BY <1>0, SavingType
  <2>3. /\ Saving(e, place, rows[k]).put = e
        /\ \/ Saving(e, place, rows[k]).kind = "move"
           \/ /\ Saving(e, place, rows[k]).kind = "replace"
              /\ Saving(e, place, rows[k]).place = "legacy" => e \in Modern
    BY DEF Saving, Place
  <2>4. Sends(e)
    BY <1>0, <1>2, <2>1, <2>2, <2>3 DEF Sends, Goto
  <2>5. \A q \in Request \ {e} : q \notin Migrator => Still(q)
    BY <1>0, <1>2 DEF Still, Goto
  <2> QED BY <2>4, <2>5
<1>3. CASE use[e] = "update" /\ Finish(e, "conflict") /\ UNCHANGED <<use, known, seen, change>>
  BY <1>0, <1>3 DEF Quits, Still, Goto, Finish
<1>4. CASE /\ use[e] = "refresh" /\ Finish(e, IF rows[k] = e THEN "ok" ELSE "commitUnknown")
           /\ UNCHANGED <<use, known, seen, change>>
  BY <1>0, <1>4 DEF Quits, Still, Goto, Finish
<1>5. CASE use[e] = "settle" /\ Finish(e, Reconciled(e, rows[k])) /\ UNCHANGED <<use, known, seen, change>>
  BY <1>0, <1>5 DEF Quits, Still, Goto, Finish, Reconciled
<1>6. CASE use[e] = "settle" /\ seen' = [seen EXCEPT ![e] = rows[k]] /\ Goto(e, "gone")
           /\ UNCHANGED <<answer, use, known, change>>
  BY <1>0, <1>6 DEF Looks, Still, Goto
<1> QED
  <2>1. \/ use[e] = "read" /\ use' = [use EXCEPT ![e] = "update"] /\ Goto(e, "find") /\ UNCHANGED <<answer, seen, change>>
        \/ use[e] = "update" /\ change' = [change EXCEPT ![e] = Saving(e, place, rows[k])]
           /\ Goto(e, "send") /\ UNCHANGED <<answer, use, known, seen>>
        \/ use[e] = "update" /\ Finish(e, "conflict") /\ UNCHANGED <<use, known, seen, change>>
        \/ /\ use[e] = "refresh" /\ Finish(e, IF rows[k] = e THEN "ok" ELSE "commitUnknown")
           /\ UNCHANGED <<use, known, seen, change>>
        \/ use[e] = "settle" /\ Finish(e, Reconciled(e, rows[k])) /\ UNCHANGED <<use, known, seen, change>>
        \/ use[e] = "settle" /\ seen' = [seen EXCEPT ![e] = rows[k]] /\ Goto(e, "gone")
           /\ UNCHANGED <<answer, use, known, change>>
    BY DEF Found
  <2> QED BY <1>1, <1>2, <1>3, <1>4, <1>5, <1>6, <2>1

\* An editor's own step is one of these, and it alone moves.
LEMMA EditorMoves ==
  ASSUME TypeOK, Routes, NEW e \in Editor, Open(e) \/ Find(e) \/ Direct(e) \/ Gone(e)
  PROVE  EditorMove(e) /\ (\A q \in Request \ {e} : Still(q)) /\ TableKept /\ UNCHANGED inflight
<1>0. /\ pc \in [Request -> Stage] /\ answer \in [Request -> Reply] /\ e \in Request /\ e \in Actor /\ e \notin Migrator
      /\ change \in [Actor -> Change \cup {None}] /\ seen \in [Actor -> Version \cup {None}]
      /\ use \in [Editor -> {"read", "update", "refresh", "settle"}]
      /\ article \in [Editor -> Article \cup {None}] /\ Migrator \cap Editor = {} /\ Migrator \subseteq Request
  BY Cast DEF TypeOK, Actor
<1>1. CASE Open(e)
  <2>1. PICK a \in Article : article' = [article EXCEPT ![e] = a]
    BY <1>1 DEF Open
  <2>2. /\ pc[e] = "idle" /\ Served(e) /\ use' = [use EXCEPT ![e] = "read"] /\ Goto(e, "find")
        /\ UNCHANGED <<table, answer, known, seen, change, scan, pass, list, inflight, faults>>
    BY <1>1 DEF Open
  <2>3. Opens(e)
    BY <1>0, <2>1, <2>2 DEF Opens, Served, Goto
  <2>4. \A q \in Request \ {e} : Still(q)
    BY <1>0, <2>1, <2>2 DEF Still, Goto, scan, pass
  <2> QED BY <2>2, <2>3, <2>4 DEF EditorMove, TableKept, table
<1>2. ASSUME UNCHANGED <<table, article, scan, pass, list, inflight, faults>>,
             pc[e] \in {"find", "direct"},
             \/ \E place \in Place, k \in Key : rows[k] \in Version /\ Found(e, place, rows[k])
             \/ Missing(e)
             \/ Goto(e, "direct") /\ UNCHANGED <<answer, use, known, seen, change>>
      PROVE  EditorMove(e) /\ (\A q \in Request \ {e} : Still(q)) /\ TableKept /\ UNCHANGED inflight
  <2>1. TableKept /\ UNCHANGED <<inflight, article>>
    BY <1>2 DEF TableKept, table
  <2>2. CASE \E place \in Place, k \in Key : rows[k] \in Version /\ Found(e, place, rows[k])
    <3>1. PICK place \in Place, k \in Key : rows[k] \in Version /\ Found(e, place, rows[k])
      BY <2>2
    <3>2. EditorMove(e) /\ \A q \in Request \ {e} : q \notin Migrator => Still(q)
      BY <1>2, <2>1, <3>1, FoundMoves DEF EditorMove
    <3>3. ASSUME NEW q \in Migrator PROVE Still(q)
      <4>1. /\ q # e /\ q \in Request /\ q \in Actor /\ q \notin Editor
            /\ \/ change' = change
               \/ change' = [change EXCEPT ![e] = Saving(e, place, rows[k])]
            /\ \/ seen' = seen
               \/ seen' = [seen EXCEPT ![e] = rows[k]]
            /\ \/ UNCHANGED answer
               \/ \E reply : answer' = [answer EXCEPT ![e] = reply]
            /\ \E step : Goto(e, step)
        BY <1>0, <3>1 DEF Actor, Found, Finish
      <4> QED BY <1>0, <1>2, <4>1 DEF Still, Goto, scan, pass
    <3> QED BY <2>1, <3>2, <3>3
  <2>3. CASE Missing(e)
    <3>1. Quits(e)
      BY <1>0, <1>2, <2>1, <2>3 DEF Quits, Missing, Goto, Finish
    <3>2. \A q \in Request \ {e} : Still(q)
      BY <1>0, <1>2, <2>3 DEF Missing, Still, Goto, Finish, scan, pass
    <3> QED BY <2>1, <3>1, <3>2 DEF EditorMove
  <2>4. CASE Goto(e, "direct") /\ UNCHANGED <<answer, use, known, seen, change>>
    <3>1. Looks(e)
      BY <1>0, <1>2, <2>1, <2>4 DEF Looks, Goto
    <3>2. \A q \in Request \ {e} : Still(q)
      BY <1>0, <1>2, <2>4 DEF Still, Goto, scan, pass
    <3> QED BY <2>1, <3>1, <3>2 DEF EditorMove
  <2> QED BY <1>2, <2>2, <2>3, <2>4
<1>3. CASE Find(e)
  <2>1. CASE \E k \in WithID(article[e]) : Found(e, k[2], rows[k])
    <3>1. PICK k \in WithID(article[e]) : Found(e, k[2], rows[k])
      BY <2>1
    <3>2. k \in Present
      BY DEF WithID
    <3>3. k \in Key /\ k[2] \in Place /\ rows[k] \in Version
      BY <3>2, Row
    <3>4. \E place \in Place, j \in Key : rows[j] \in Version /\ Found(e, place, rows[j])
      BY <3>1, <3>3
    <3> QED BY <1>2, <1>3, <3>4 DEF Find
  <2>2. CASE ~(\E k \in WithID(article[e]) : Found(e, k[2], rows[k]))
    BY <1>2, <1>3, <2>2 DEF Find
  <2> QED BY <2>1, <2>2
<1>4. CASE Direct(e)
  <2>1. article[e] \in Article
    BY <1>4 DEF Direct, Routes
  <2>2. /\ <<article[e], "legacy">> \in Key /\ "legacy" \in Place
        /\ Old(article[e]) \in Version \cup {None} /\ Old(article[e]) = rows[<<article[e], "legacy">>]
    BY <2>1 DEF TypeOK, Old, Key, Place
  <2>3. CASE Old(article[e]) = None
    BY <1>2, <1>4, <2>3 DEF Direct
  <2>4. CASE Old(article[e]) # None
    <3>1. \E place \in Place, k \in Key : rows[k] \in Version /\ Found(e, place, rows[k])
      BY <1>4, <2>2, <2>4 DEF Direct
    <3> QED BY <1>2, <1>4, <3>1 DEF Direct
  <2> QED BY <2>3, <2>4
<1>5. CASE Gone(e)
  <2>1. Quits(e)
    BY <1>0, <1>5 DEF Gone, Quits, Goto, Finish, lookup
  <2>2. \A q \in Request \ {e} : Still(q)
    BY <1>0, <1>5 DEF Gone, Still, Goto, Finish, lookup, scan, pass
  <2> QED BY <1>5, <2>1, <2>2 DEF Gone, EditorMove, TableKept, table
<1> QED BY <1>1, <1>3, <1>4, <1>5


\* A lister goes on or is answered.
Advances(l) ==
  /\ pc'[l] \in {"list", "give", "done"}
  /\ pc'[l] = "done" \/ (pc[l] # "done" /\ answer'[l] = answer[l])

LEMMA ListerMoves ==
  ASSUME TypeOK, Routes, NEW l \in Lister, BeginList(l) \/ CompatList(l) \/ CurrentList(l) \/ Give(l)
  PROVE  Advances(l) /\ (\A q \in Request \ {l} : Still(q)) /\ TableKept /\ UNCHANGED inflight
<1>0. /\ pc \in [Request -> Stage] /\ answer \in [Request -> Reply] /\ l \in Request /\ l \notin Migrator
      /\ l \in Migrator \cup Lister /\ Migrator \subseteq Migrator \cup Lister
      /\ from \in [Migrator \cup Lister -> Nat] /\ further \in [Migrator \cup Lister -> BOOLEAN]
  BY Cast DEF TypeOK
<1>1. CASE BeginList(l)
  BY <1>0, <1>1 DEF BeginList, Advances, Still, TableKept, Goto, lookup, scan, pass
<1>2. CASE CompatList(l)
  <2>1. /\ pc[l] = "list" /\ UNCHANGED <<table, lookup, change, pass, cursor, given, inflight, faults>>
        /\ \/ Finish(l, "error")
           \/ Goto(l, "list") /\ UNCHANGED answer
           \/ Goto(l, "give") /\ UNCHANGED answer
    BY <1>2 DEF CompatList
  <2>2. \E page \in SUBSET Key : PageOf(l, RawSize, page) /\ Continue(l, page)
    BY <1>2 DEF CompatList
  <2>3. \A q \in (Migrator \cup Lister) \ {l} : from'[q] = from[q] /\ further'[q] = further[q]
    BY <1>0, <2>2, Continued
  <2> QED BY <1>0, <2>1, <2>3 DEF Advances, Still, TableKept, Goto, Finish, lookup, pass, table
<1>3. CASE CurrentList(l)
  <2>1. /\ pc[l] = "list" /\ UNCHANGED <<table, answer, lookup, change, pass, cursor, given, inflight, faults>>
        /\ Goto(l, "list") \/ Goto(l, "give")
    BY <1>3 DEF CurrentList
  <2>2. \E page \in SUBSET Key : (\E top : PageOf(l, top, page)) /\ Continue(l, page)
    BY <1>3 DEF CurrentList
  <2>3. \A q \in (Migrator \cup Lister) \ {l} : from'[q] = from[q] /\ further'[q] = further[q]
    BY <1>0, <2>2, Continued
  <2> QED BY <1>0, <2>1, <2>3 DEF Advances, Still, TableKept, Goto, lookup, pass, table
<1>4. CASE Give(l)
  <2>1. /\ pc[l] = "give" /\ UNCHANGED <<table, lookup, change, further, pass, inflight, faults>>
        /\ \/ Goto(l, "list") /\ UNCHANGED answer
           \/ Finish(l, "ok")
        /\ UNCHANGED from \/ \E last : from' = [from EXCEPT ![l] = last]
    <3>1. CASE More(l)
      BY <1>4, <3>1 DEF Give
    <3>2. CASE ~More(l)
      BY <1>4, <3>2 DEF Give
    <3> QED BY <3>1, <3>2
  <2> QED BY <1>0, <2>1 DEF Advances, Still, TableKept, Goto, Finish, lookup, pass, table
<1> QED BY <1>1, <1>2, <1>3, <1>4

\* What becomes of a transaction: it is applied, refused or not answered.
Applies(r) ==
  /\ pc[r] = "send" /\ Apply(change[r]) /\ UNCHANGED inflight
  /\ \/ r \in Migrator /\ Settles(r) /\ owed'[r] = owed[r]
     \/ r \in Editor /\ Resumes(r) /\ use'[r] = "refresh"

GetsNoAnswer(r) ==
  /\ pc[r] = "send" /\ TableKept /\ inflight' = inflight \cup {change[r]}
  /\ \/ r \in Migrator /\ Proceeds(r) /\ owed'[r] = owed[r]
     \/ r \in Editor /\ Resumes(r) /\ use'[r] = "settle"

LEMMA TransactionMoves ==
  ASSUME TypeOK, Routes, NEW r \in Actor, Commit(r) \/ Refuse(r) \/ NoAnswer(r)
  PROVE  /\ \A q \in Request \ {r} : Still(q)
         /\ \/ Applies(r) \/ GetsNoAnswer(r)
            \/ TableKept /\ UNCHANGED inflight /\ ((r \in Migrator /\ Moves(r)) \/ (r \in Editor /\ EditorMove(r)))
<1>0. /\ pc \in [Request -> Stage] /\ answer \in [Request -> Reply] /\ r \in Request /\ pc[r] = "send"
      /\ change \in [Actor -> Change \cup {None}] /\ seen \in [Actor -> Version \cup {None}]
      /\ use \in [Editor -> {"read", "update", "refresh", "settle"}]
      /\ article \in [Editor -> Article \cup {None}] /\ moved \in [Migrator -> BOOLEAN]
      /\ Migrator \cap Editor = {} /\ r \in Migrator \cup Editor
  BY Cast DEF TypeOK, Actor, Commit, Refuse, NoAnswer
<1>1. CASE Commit(r)
  <2>1. \A q \in Request \ {r} : Still(q)
    BY <1>0, <1>1 DEF Commit, Still, Goto, Moved, scan
  <2>2. CASE r \in Migrator
    BY <1>0, <1>1, <2>1, <2>2 DEF Commit, Applies, Settles, Goto, Moved, scan
  <2>3. CASE r \in Editor
    BY <1>0, <1>1, <2>1, <2>3 DEF Commit, Applies, Resumes, Goto, scan
  <2> QED BY <1>0, <2>2, <2>3
<1>2. CASE Refuse(r)
  <2>1. \A q \in Request \ {r} : Still(q)
    BY <1>0, <1>2 DEF Refuse, Reconcile, Still, Goto, Finish, lookup, scan, pass
  <2>2. TableKept /\ UNCHANGED inflight
    BY <1>2 DEF Refuse, TableKept, table
  <2>3. CASE r \in Migrator
    <3>1. Proceeds(r) /\ owed'[r] = owed[r]
      BY <1>0, <1>2, <2>3 DEF Refuse, Reconcile, Proceeds, Goto, lookup, scan, pass
    <3> QED BY <2>1, <2>2, <2>3, <3>1 DEF Moves
  <2>4. CASE r \in Editor
    <3>1. Refusal(change[r]) \in {"slugTaken", "notFound", "conflict"} /\ use[r] = "update"
      BY <1>0, <2>4 DEF Refusal, Routes
    <3>2. Quits(r)
      BY <1>0, <1>2, <2>4, <3>1 DEF Refuse, Quits, Goto, Finish, lookup
    <3> QED BY <2>1, <2>2, <2>4, <3>2 DEF EditorMove
  <2> QED BY <1>0, <2>3, <2>4
<1>3. CASE NoAnswer(r)
  <2>1. \A q \in Request \ {r} : Still(q)
    BY <1>0, <1>3 DEF NoAnswer, Reconcile, Still, Goto, scan, pass
  <2>2. TableKept /\ inflight' = inflight \cup {change[r]}
    BY <1>3 DEF NoAnswer, TableKept, table
  <2>3. CASE r \in Migrator
    <3>1. Proceeds(r) /\ owed'[r] = owed[r]
      BY <1>0, <1>3, <2>3 DEF NoAnswer, Reconcile, Proceeds, Goto, scan, pass
    <3> QED BY <1>0, <2>1, <2>2, <2>3, <3>1 DEF GetsNoAnswer
  <2>4. CASE r \in Editor
    <3>1. Resumes(r) /\ use'[r] = "settle"
      BY <1>0, <1>3, <2>4 DEF NoAnswer, Resumes, Goto
    <3> QED BY <1>0, <2>1, <2>2, <2>4, <3>1 DEF GetsNoAnswer
  <2> QED BY <1>0, <2>3, <2>4
<1> QED BY <1>1, <1>2, <1>3

LEMMA FailMoves ==
  ASSUME TypeOK, Routes, NEW r \in Request, Fail(r)
  PROVE  /\ \A q \in Request \ {r} : Still(q)
         /\ TableKept /\ UNCHANGED inflight
         /\ \/ r \in Migrator /\ Moves(r)
            \/ r \in Editor /\ EditorMove(r)
            \/ r \in Lister /\ Advances(r)
<1>0. /\ pc \in [Request -> Stage] /\ answer \in [Request -> Reply]
      /\ Migrator \cap Editor = {} /\ Migrator \cap Lister = {} /\ Editor \cap Lister = {}
  BY Cast DEF TypeOK
<1>1. TableKept /\ UNCHANGED inflight
  BY DEF Fail, TableKept, table
<1>2. \A q \in Request \ {r} : Still(q)
  BY <1>0 DEF Fail, Still, Finish, Goto, lookup, scan, pass
<1>3. pc[r] \notin {"idle", "done"}
  BY DEF Fail, Active
<1>4. r \in Migrator \cup Lister \cup Editor
  BY <1>3 DEF Routes, Request
<1>5. CASE r \in Migrator
  <2>1. Finish(r, "failed") /\ UNCHANGED <<table, lookup, change, scan, pass, list, inflight>>
    BY <1>0, <1>5 DEF Fail
  <2>2. Stops(r) /\ owed'[r] = owed[r]
    BY <1>0, <1>3, <2>1 DEF Stops, Finish, Goto, lookup, scan, pass
  <2> QED BY <1>1, <1>2, <1>5, <2>2 DEF Moves
<1>6. CASE r \in Editor
  <2>1. /\ Finish(r, "commitUnknown") \/ Finish(r, "unavailable")
        /\ UNCHANGED <<table, lookup, change, scan, pass, list, inflight>>
    BY <1>0, <1>6 DEF Fail
  <2>2. Quits(r)
    BY <1>0, <1>3, <2>1 DEF Quits, Finish, Goto, lookup
  <2> QED BY <1>1, <1>2, <1>6, <2>2 DEF EditorMove
<1>7. CASE r \in Lister
  <2>1. Finish(r, "error")
    BY <1>0, <1>7 DEF Fail
  <2>2. Advances(r)
    BY <1>0, <2>1 DEF Advances, Finish, Goto
  <2> QED BY <1>1, <1>2, <1>7, <2>2
<1> QED BY <1>4, <1>5, <1>6, <1>7

\* An image from before the boundary writes an article.
Writes(o) ==
  /\ pc[o] = "idle" /\ pc'[o] = "done" /\ ~Repairing /\ UNCHANGED <<marker, saved, inflight>>
  /\ \E a \in Article :
       /\ New(a) = None /\ rows' = [rows EXCEPT ![<<a, "legacy">>] = o]
       /\ latest' = [latest EXCEPT ![a] = o] /\ late' = late \cup {a}

LEMMA OldWriteMoves ==
  ASSUME TypeOK, Routes, NEW o \in OldWriter, OldWrite(o)
  PROVE  Writes(o) /\ \A q \in Request \ {o} : Still(q)
<1>0. pc \in [Request -> Stage] /\ answer \in [Request -> Reply] /\ o \in Request
  BY Cast DEF TypeOK
<1>1. Writes(o)
  BY <1>0 DEF OldWrite, Writes, Finish, Goto
<1>2. \A q \in Request \ {o} : Still(q)
  BY <1>0 DEF OldWrite, Still, Finish, Goto, lookup, scan, pass
<1> QED BY <1>1, <1>2

\* What a step of the system does, and to whose state.
StepOf(r) ==
  /\ \A q \in Request \ {r} : Still(q)
  /\ \/ /\ r \in Migrator /\ Moves(r) /\ UNCHANGED <<rows, latest, saved, late>>
        /\ \/ UNCHANGED <<marker, inflight>>
           \/ pc[r] = "persist" /\ UNCHANGED marker /\ inflight' = inflight \cup {Marker}
           \/ pc[r] = "persist" /\ marker' /\ UNCHANGED inflight
     \/ r \in Editor /\ EditorMove(r) /\ TableKept /\ UNCHANGED inflight
     \/ r \in Lister /\ Advances(r) /\ TableKept /\ UNCHANGED inflight
     \/ r \in Actor /\ (Applies(r) \/ GetsNoAnswer(r))
     \/ r \in OldWriter /\ Writes(r)

Arrival ==
  /\ \A q \in Request : Still(q)
  /\ \/ TableKept /\ UNCHANGED inflight
     \/ \E c \in inflight \cap Change : Apply(c) /\ inflight' = inflight \ {c}
     \/ Marker \in inflight /\ marker' /\ inflight' = inflight \ {Marker} /\ UNCHANGED <<rows, latest, saved, late>>

LEMMA StepMoves ==
  ASSUME TypeOK, Routes, [Next]_vars
  PROVE  (\E r \in Request : StepOf(r)) \/ Arrival
<1>0. Migrator \subseteq Request /\ Editor \subseteq Request /\ Lister \subseteq Request /\ OldWriter \subseteq Request
      /\ Actor \subseteq Request
  BY Cast DEF Actor
<1>1. ASSUME NEW m \in Migrator, Step(m) PROVE StepOf(m)
  BY <1>1, MigratorMoves DEF StepOf
<1>2. ASSUME NEW e \in Editor, Open(e) \/ Find(e) \/ Direct(e) \/ Gone(e) PROVE StepOf(e)
  BY <1>2, EditorMoves DEF StepOf
<1>3. ASSUME NEW l \in Lister, BeginList(l) \/ CompatList(l) \/ CurrentList(l) \/ Give(l) PROVE StepOf(l)
  BY <1>3, ListerMoves DEF StepOf
<1>4. ASSUME NEW r \in Actor, Commit(r) \/ Refuse(r) \/ NoAnswer(r) PROVE StepOf(r)
  <2>1. /\ \A q \in Request \ {r} : Still(q)
        /\ \/ Applies(r) \/ GetsNoAnswer(r)
           \/ TableKept /\ UNCHANGED inflight /\ ((r \in Migrator /\ Moves(r)) \/ (r \in Editor /\ EditorMove(r)))
    BY <1>4, TransactionMoves
  <2> QED BY <2>1 DEF StepOf, TableKept
<1>5. ASSUME NEW r \in Request, Fail(r) PROVE StepOf(r)
  <2>1. /\ \A q \in Request \ {r} : Still(q)
        /\ TableKept /\ UNCHANGED inflight
        /\ \/ r \in Migrator /\ Moves(r)
           \/ r \in Editor /\ EditorMove(r)
           \/ r \in Lister /\ Advances(r)
    BY <1>5, FailMoves
  <2> QED BY <2>1 DEF StepOf, TableKept
<1>6. ASSUME NEW o \in OldWriter, OldWrite(o) PROVE StepOf(o)
  BY <1>6, OldWriteMoves DEF StepOf
<1>7. ASSUME Land \/ LandMarker \/ UNCHANGED vars PROVE Arrival
  <2>1. UNCHANGED <<progress, lookup, change, scan, pass>>
    BY <1>7 DEF Land, LandMarker, vars
  <2>2. \A q \in Request : Still(q)
    BY <2>1 DEF Still, progress, lookup, scan, pass
  <2>3. CASE Land
    BY <2>2, <2>3 DEF Arrival, Land
  <2>4. CASE LandMarker
    BY <2>2, <2>4 DEF Arrival, LandMarker
  <2>5. CASE UNCHANGED vars
    BY <2>2, <2>5 DEF Arrival, TableKept, vars, table
  <2> QED BY <1>7, <2>3, <2>4, <2>5
<1>8. CASE Next
  <2>1. CASE \E m \in Migrator : Step(m)
    BY <1>0, <1>1, <2>1
  <2>2. CASE \E e \in Editor : Open(e) \/ Find(e) \/ Direct(e) \/ Gone(e)
    BY <1>0, <1>2, <2>2
  <2>3. CASE \E l \in Lister : BeginList(l) \/ CompatList(l) \/ CurrentList(l) \/ Give(l)
    BY <1>0, <1>3, <2>3
  <2>4. CASE \E r \in Migrator \cup Editor : Commit(r) \/ Refuse(r) \/ NoAnswer(r)
    BY <1>0, <1>4, <2>4 DEF Actor
  <2>5. CASE \E r \in Request : Fail(r)
    BY <1>5, <2>5
  <2>6. CASE \E o \in OldWriter : OldWrite(o)
    BY <1>0, <1>6, <2>6
  <2>7. CASE Land \/ LandMarker
    BY <1>7, <2>7
  <2> QED BY <1>8, <2>1, <2>2, <2>3, <2>4, <2>5, <2>6, <2>7 DEF Next
<1> QED BY <1>7, <1>8


\* How a step looks to each request.
LEMMA EachMoves ==
  ASSUME TypeOK, Routes, [Next]_vars
  PROVE  /\ \A m \in Migrator : Still(m) \/ Moves(m)
         /\ \A e \in Editor : Still(e) \/ EditorMove(e)
         /\ \A l \in Lister : Still(l) \/ Advances(l)
         /\ \A o \in OldWriter : Still(o) \/ Writes(o)
<1>1. (\E r \in Request : StepOf(r)) \/ Arrival
  BY StepMoves
<1>2. CASE Arrival
  BY <1>2, Cast DEF Arrival
<1>3. ASSUME NEW r \in Request, StepOf(r)
      PROVE  /\ \A q \in Request \ {r} : Still(q)
             /\ r \in Migrator => Moves(r)
             /\ r \in Editor => EditorMove(r)
             /\ r \in Lister => Advances(r)
             /\ r \in OldWriter => Writes(r)
  BY <1>3, Cast DEF StepOf, Applies, GetsNoAnswer, Moves, EditorMove, Actor
<1> QED BY <1>1, <1>2, <1>3, Cast

LEMMA RoutesStep ==
  ASSUME TypeOK, Routes, [Next]_vars
  PROVE  Routes'
<1>0. /\ \A m \in Migrator : Still(m) \/ Moves(m)
      /\ \A e \in Editor : Still(e) \/ EditorMove(e)
      /\ \A l \in Lister : Still(l) \/ Advances(l)
      /\ \A o \in OldWriter : Still(o) \/ Writes(o)
  BY EachMoves
<1>1. None \notin Change /\ Migrator \subseteq Request /\ Editor \subseteq Request /\ Lister \subseteq Request
      /\ OldWriter \subseteq Request /\ Migrator \subseteq Actor /\ Editor \subseteq Actor
  BY Cast DEF Actor
<1>2. ASSUME NEW m \in Migrator
      PROVE  /\ pc'[m] # "done" => answer'[m] = "none"
             /\ pc'[m] \in {"idle", "marker", "list", "move", "send", "legacy", "target", "again",
                           "verify", "persist", "recheck", "done"}
             /\ pc'[m] = "marker" => m \notin Repairer
             /\ change'[m] # None => change'[m].kind \in {"move", "drop"} /\ change'[m].put = change'[m].under
             /\ pc'[m] \in {"send", "legacy", "target", "again", "verify"} => change'[m] # None
             /\ pc'[m] \in {"legacy", "target", "again"} => change'[m].kind = "move"
  <2>1. /\ pc[m] # "done" => answer[m] = "none"
        /\ pc[m] \in {"idle", "marker", "list", "move", "send", "legacy", "target", "again",
                      "verify", "persist", "recheck", "done"}
        /\ pc[m] = "marker" => m \notin Repairer
        /\ change[m] # None => change[m].kind \in {"move", "drop"} /\ change[m].put = change[m].under
        /\ pc[m] \in {"send", "legacy", "target", "again", "verify"} => change[m] # None
        /\ pc[m] \in {"legacy", "target", "again"} => change[m].kind = "move"
    BY <1>1 DEF Routes
  <2>2. CASE Still(m)
    BY <1>1, <2>1, <2>2 DEF Still
  <2>3. CASE Moves(m)
    <3>1. CASE Begins(m) \/ Rewinds(m) \/ Asks(m) \/ Gets(m) \/ Ends(m) \/ Settles(m) \/ Checks(m)
      BY <2>1, <3>1 DEF Begins, Rewinds, Asks, Gets, Ends, Settles, Checks
    <3>2. CASE Takes(m) \/ Drops(m)
      BY <1>1, <2>1, <3>2 DEF Takes, Drops
    <3>3. CASE Proceeds(m)
      BY <2>1, <3>3 DEF Proceeds
    <3>4. CASE Stops(m) \/ Restarts(m)
      BY <2>1, <3>4 DEF Stops, Restarts
    <3> QED BY <2>3, <3>1, <3>2, <3>3, <3>4 DEF Moves
  <2> QED BY <1>0, <2>2, <2>3
<1>3. ASSUME NEW e \in Editor
      PROVE  /\ pc'[e] # "done" => answer'[e] = "none"
             /\ pc'[e] \in {"idle", "find", "direct", "send", "gone", "done"}
             /\ pc'[e] \notin {"idle", "done"} => article'[e] \in Article
             /\ pc'[e] = "idle" => use'[e] = "read"
             /\ change'[e] # None => change'[e].kind \in {"move", "replace"} /\ change'[e].put = e
             /\ pc'[e] = "send" => change'[e] # None /\ use'[e] = "update"
             /\ pc'[e] = "gone" => use'[e] = "settle"
             /\ use'[e] = "settle" => change'[e] # None
  <2>1. /\ pc[e] # "done" => answer[e] = "none"
        /\ pc[e] \in {"idle", "find", "direct", "send", "gone", "done"}
        /\ pc[e] \notin {"idle", "done"} => article[e] \in Article
        /\ pc[e] = "idle" => use[e] = "read"
        /\ change[e] # None => change[e].kind \in {"move", "replace"} /\ change[e].put = e
        /\ pc[e] = "send" => change[e] # None /\ use[e] = "update"
        /\ pc[e] = "gone" => use[e] = "settle"
        /\ use[e] = "settle" => change[e] # None
    BY <1>1 DEF Routes
  <2>2. CASE Still(e)
    BY <1>1, <2>1, <2>2 DEF Still
  <2>3. CASE Opens(e) \/ Looks(e)
    BY <2>1, <2>3 DEF Opens, Looks
  <2>4. CASE Sends(e)
    BY <1>1, <2>1, <2>4 DEF Sends
  <2>5. CASE Resumes(e) \/ Quits(e)
    BY <2>1, <2>5 DEF Resumes, Quits
  <2> QED BY <1>0, <2>2, <2>3, <2>4, <2>5 DEF EditorMove
<1>4. ASSUME NEW l \in Lister
      PROVE  pc'[l] \in {"idle", "list", "give", "done"} /\ (pc'[l] # "done" => answer'[l] = "none")
  BY <1>0, <1>1 DEF Routes, Still, Advances
<1>5. ASSUME NEW o \in OldWriter
      PROVE  pc'[o] \in {"idle", "done"} /\ (pc'[o] # "done" => answer'[o] = "none")
  BY <1>0, <1>1 DEF Routes, Still, Writes
<1> QED BY <1>2, <1>3, <1>4, <1>5 DEF Routes, Request
-----------------------------------------------------------------------------
(* What a step does to the table                                            *)

\* Whoever applies it, a change is one that may be applied.
LEMMA TableMoves ==
  ASSUME TypeOK, Routes, SafeChanges, [Next]_vars
  PROVE  \/ TableKept
         \/ \E c \in Change : /\ Apply(c) /\ Safe(c)
                              /\ c \in inflight \/ \E r \in Actor : pc[r] = "send" /\ c = change[r]
         \/ UNCHANGED <<rows, latest, saved, late>> /\ marker'
         \/ \E o \in OldWriter : Writes(o)
<1>1. (\E r \in Request : StepOf(r)) \/ Arrival
  BY StepMoves
<1>2. CASE Arrival
  BY <1>2 DEF Arrival, SafeChanges
<1>3. ASSUME NEW r \in Request, StepOf(r)
      PROVE  \/ TableKept
             \/ \E c \in Change : /\ Apply(c) /\ Safe(c)
                                  /\ c \in inflight \/ \E q \in Actor : pc[q] = "send" /\ c = change[q]
             \/ UNCHANGED <<rows, latest, saved, late>> /\ marker'
             \/ \E o \in OldWriter : Writes(o)
  <2>1. CASE r \in Actor /\ Applies(r)
    <3>1. pc[r] = "send" /\ Apply(change[r])
      BY <2>1 DEF Applies
    <3>2. change[r] \in Change /\ Safe(change[r])
      BY <2>1, <3>1, SentType DEF SafeChanges
    <3>3. PICK c \in Change : c = change[r]
      BY <3>2
    <3>4. Apply(c)
      BY <3>1, <3>3
    <3> QED BY <2>1, <3>1, <3>2, <3>3, <3>4
  <2>2. CASE r \in Actor /\ GetsNoAnswer(r)
    BY <2>2 DEF GetsNoAnswer
  <2> QED BY <1>3, <2>1, <2>2 DEF StepOf, TableKept
<1> QED BY <1>1, <1>2, <1>3

\* A current row stays, an article stays, and the marker stays.
LEMMA Lasting ==
  ASSUME TypeOK, Routes, SafeChanges, [Next]_vars
  PROVE  /\ marker => marker'
         /\ saved \subseteq saved'
         /\ \A a \in Article : New(a) # None => New(a)' # None
         /\ \A a \in Article : Exists(a) => Exists(a)'
<1>0. ASSUME NEW a \in Article PROVE Exists(a) <=> Old(a) # None \/ New(a) # None
  BY DEF Exists, Old, New, Place
<1>1. ASSUME NEW a \in Article PROVE Exists(a)' <=> rows'[<<a, "legacy">>] # None \/ rows'[<<a, "current">>] # None
  BY DEF Exists, Place
<1>2. CASE UNCHANGED <<rows, saved>> /\ (UNCHANGED marker \/ marker')
  BY <1>2 DEF Exists, New
<1>3. ASSUME NEW c \in Change, Apply(c), Safe(c)
      PROVE  /\ marker => marker'
             /\ saved \subseteq saved'
             /\ \A a \in Article : New(a) # None => New(a)' # None
             /\ \A a \in Article : Exists(a) => Exists(a)'
  <2>1. PICK b \in Article, p \in Place : b = c.article /\ p = c.place /\ c.put \in Version /\ c.under \in Version
                                          /\ c.kind \in {"move", "replace", "drop"}
    BY DEF Change
  <2>2. None \notin Version
    BY Cast
  <2>3. /\ \A a \in Article \ {b} : Old(a)' = Old(a) /\ New(a)' = New(a)
        /\ c.kind = "move" => New(b)' = c.put
        /\ c.kind = "replace" => rows[<<b, p>>] = c.under /\ rows'[<<b, p>>] = c.put
                                 /\ \A o \in Place \ {p} : rows'[<<b, o>>] = rows[<<b, o>>]
        /\ c.kind = "drop" => Old(b)' = None /\ New(b)' = New(b) /\ New(b) # None
        /\ saved' = saved \cup ({c.put} \cap Editor) /\ UNCHANGED marker
    BY <1>3, <2>1, Applied DEF Safe
  <2>4. ASSUME NEW a \in Article \ {b}
        PROVE  (New(a) # None => New(a)' # None) /\ (Exists(a) => Exists(a)')
    BY <2>3, <1>0, <1>1 DEF Old, New
  <2>5. (New(b) # None => New(b)' # None) /\ (Exists(b) => Exists(b)')
    BY <2>1, <2>2, <2>3, <1>0, <1>1 DEF Old, New, Place
  <2>6. \A a \in Article : (New(a) # None => New(a)' # None) /\ (Exists(a) => Exists(a)')
    BY <2>4, <2>5
  <2> QED BY <2>3, <2>6
<1>4. ASSUME NEW o \in OldWriter, Writes(o)
      PROVE  /\ marker => marker'
             /\ saved \subseteq saved'
             /\ \A a \in Article : New(a) # None => New(a)' # None
             /\ \A a \in Article : Exists(a) => Exists(a)'
  <2>1. UNCHANGED <<marker, saved>> /\ o # None
    BY <1>4, Cast DEF Writes
  <2>2. PICK b \in Article : rows' = [rows EXCEPT ![<<b, "legacy">>] = o]
    BY <1>4 DEF Writes
  <2>3. ASSUME NEW a \in Article
        PROVE  /\ rows'[<<a, "current">>] = rows[<<a, "current">>]
               /\ rows'[<<a, "legacy">>] \in {o, rows[<<a, "legacy">>]}
    BY <2>2, Keys DEF TypeOK, Place
  <2>4. ASSUME NEW a \in Article
        PROVE  (New(a) # None => New(a)' # None) /\ (Exists(a) => Exists(a)')
    BY <2>1, <2>3, <1>0, <1>1 DEF Old, New
  <2> QED BY <2>1, <2>4
<1> QED
  <2>1. \/ TableKept
        \/ \E c \in Change : Apply(c) /\ Safe(c)
        \/ UNCHANGED <<rows, latest, saved, late>> /\ marker'
        \/ \E o \in OldWriter : Writes(o)
    BY TableMoves
  <2> QED BY <2>1, <1>2, <1>3, <1>4 DEF TableKept


\* What is unanswered was sent or is the marker of a pass that ended.
LEMMA InflightMoves ==
  ASSUME TypeOK, Routes, [Next]_vars
  PROVE  /\ \A c \in inflight' \cap Change : c \in inflight \/ \E r \in Actor : pc[r] = "send" /\ c = change[r]
         /\ Marker \in inflight' => Marker \in inflight \/ \E m \in Migrator : pc[m] = "persist"
<1>1. (\E r \in Request : StepOf(r)) \/ Arrival
  BY StepMoves
<1>2. CASE Arrival
  BY <1>2 DEF Arrival
<1>3. ASSUME NEW r \in Request, StepOf(r)
      PROVE  /\ \A c \in inflight' \cap Change : c \in inflight \/ \E q \in Actor : pc[q] = "send" /\ c = change[q]
             /\ Marker \in inflight' => Marker \in inflight \/ \E m \in Migrator : pc[m] = "persist"
  <2>1. CASE r \in Actor /\ GetsNoAnswer(r)
    <3>1. pc[r] = "send" /\ inflight' = inflight \cup {change[r]}
      BY <2>1 DEF GetsNoAnswer
    <3>2. change[r] \in Change /\ Marker \notin Change
      BY <2>1, <3>1, SentType, Cast
    <3> QED BY <2>1, <3>1, <3>2
  <2>2. CASE ~(r \in Actor /\ GetsNoAnswer(r))
    <3>1. \/ UNCHANGED inflight
          \/ r \in Migrator /\ pc[r] = "persist" /\ inflight' = inflight \cup {Marker}
      BY <1>3, <2>2 DEF StepOf, Applies, Writes
    <3>2. Marker \notin Change
      BY Cast
    <3> QED BY <3>1, <3>2
  <2> QED BY <2>1, <2>2
<1> QED BY <1>1, <1>2, <1>3

\* Changes stay safe until they are applied.
LEMMA SafeChangesStep ==
  ASSUME TypeOK, Routes, SafeChanges, MarkerTrue, [Next]_vars
  PROVE  SafeChanges'
<1>0. /\ marker => marker'
      /\ \A a \in Article : New(a) # None => New(a)' # None
      /\ \A m \in Migrator : Still(m) \/ Moves(m)
      /\ \A e \in Editor : Still(e) \/ EditorMove(e)
  BY Lasting, EachMoves
<1>1. Actor = Migrator \cup Editor /\ None \notin Change /\ None \notin Version
  BY Cast DEF Actor
<1>2. ASSUME NEW c \in Change, Safe(c) PROVE Safe(c)'
  <2>1. PICK b \in Article : b = c.article
    BY DEF Change
  <2> QED BY <1>0, <1>2, <2>1 DEF Safe, New
<1>3. ASSUME NEW c \in inflight' \cap Change PROVE Safe(c)'
  <2>1. c \in inflight \/ \E r \in Actor : pc[r] = "send" /\ c = change[r]
    BY InflightMoves
  <2>2. Safe(c)
    BY <2>1 DEF SafeChanges
  <2> QED BY <1>2, <2>2
<1>4. ASSUME NEW m \in Migrator, pc'[m] = "send" PROVE Safe(change[m])'
  <2>1. \/ pc[m] = "send" /\ change'[m] = change[m]
        \/ change'[m] \in Change /\ change'[m].kind = "move"
        \/ /\ pc[m] = "again" /\ change'[m] \in Change /\ change'[m].article = change[m].article
           /\ change'[m].kind = "drop" /\ change'[m].put = change'[m].under
    <3>1. CASE Still(m)
      BY <1>1, <1>4, <3>1 DEF Still
    <3>2. CASE Moves(m)
      BY <1>4, <3>2 DEF Moves, Begins, Rewinds, Asks, Gets, Ends, Takes, Proceeds, Drops, Settles, Checks, Stops, Restarts
    <3> QED BY <1>0, <3>1, <3>2
  <2>2. CASE pc[m] = "send" /\ change'[m] = change[m]
    <3>1. change[m] \in Change /\ Safe(change[m])
      BY <1>1, <2>2, SentType DEF SafeChanges
    <3>2. PICK c \in Change : c = change[m]
      BY <3>1
    <3>3. Safe(c)'
      BY <1>2, <3>1, <3>2
    <3> QED BY <2>2, <3>2, <3>3 DEF Safe, New
  <2>3. CASE change'[m].kind = "move"
    BY <2>3 DEF Safe
  <2>4. CASE /\ pc[m] = "again" /\ change'[m] \in Change /\ change'[m].article = change[m].article
             /\ change'[m].kind = "drop" /\ change'[m].put = change'[m].under
    <3>1. PICK b \in Article : b = change'[m].article
      BY <2>4 DEF Change
    <3>2. New(b) # None
      BY <2>4, <3>1 DEF SafeChanges
    <3>3. rows'[<<b, "current">>] # None
      BY <1>0, <3>2 DEF New
    <3> QED BY <2>4, <3>1, <3>3 DEF Safe, New
  <2> QED BY <2>1, <2>2, <2>3, <2>4
<1>5. ASSUME NEW e \in Editor, e \in Modern, pc'[e] \notin {"idle", "done"} PROVE marker'
  <2>1. CASE Still(e)
    BY <1>0, <1>5, <2>1 DEF Still, SafeChanges, Active
  <2>2. CASE Opens(e)
    BY <1>0, <1>5, <2>2 DEF Opens, MarkerTrue
  <2>3. CASE Looks(e) \/ Sends(e) \/ Resumes(e) \/ Quits(e)
    BY <1>0, <1>5, <2>3 DEF Looks, Sends, Resumes, Quits, SafeChanges, Active
  <2> QED BY <1>0, <2>1, <2>2, <2>3 DEF EditorMove
<1>6. ASSUME NEW e \in Editor, pc'[e] = "send" PROVE Safe(change[e])'
  <2>1. \/ pc[e] = "send" /\ change'[e] = change[e]
        \/ change'[e] \in Change /\ change'[e].kind = "move"
        \/ /\ change'[e] \in Change /\ change'[e].kind = "replace"
           /\ change'[e].place = "legacy" => e \in Modern
    <3>1. CASE Still(e)
      BY <1>1, <1>6, <3>1 DEF Still
    <3>2. CASE EditorMove(e)
      BY <1>6, <3>2 DEF EditorMove, Opens, Looks, Sends, Resumes, Quits
    <3> QED BY <1>0, <3>1, <3>2
  <2>2. CASE pc[e] = "send" /\ change'[e] = change[e]
    <3>1. change[e] \in Change /\ Safe(change[e])
      BY <1>1, <2>2, SentType DEF SafeChanges
    <3>2. PICK c \in Change : c = change[e]
      BY <3>1
    <3>3. Safe(c)'
      BY <1>2, <3>1, <3>2
    <3> QED BY <2>2, <3>2, <3>3 DEF Safe, New
  <2>3. CASE change'[e].kind \in {"move", "replace"} /\ (change'[e].kind = "replace" /\ change'[e].place = "legacy" => e \in Modern)
    BY <1>5, <1>6, <2>3 DEF Safe
  <2> QED BY <2>1, <2>2, <2>3
<1>7. ASSUME NEW m \in Migrator, pc'[m] = "again" PROVE New(change[m].article)' # None
  <2>1. pc[m] \in {"again", "target"} /\ change'[m] = change[m] /\ (pc[m] = "target" => New(change[m].article) = change[m].put)
    <3>1. CASE Still(m)
      BY <1>1, <1>7, <3>1 DEF Still
    <3>2. CASE Moves(m)
      BY <1>7, <3>2 DEF Moves, Begins, Rewinds, Asks, Gets, Ends, Takes, Proceeds, Drops, Settles, Checks, Stops, Restarts
    <3> QED BY <1>0, <3>1, <3>2
  <2>2. change[m] # None /\ change[m] \in Change
    BY <2>1 DEF Routes, TypeOK
  <2>3. PICK b \in Article : b = change[m].article
    BY <2>2 DEF Change
  <2>4. change[m].put \in Version
    BY <2>2 DEF Change
  <2>5. New(b) # None
    BY <1>1, <2>1, <2>3, <2>4 DEF SafeChanges
  <2>6. rows'[<<b, "current">>] # None
    BY <1>0, <2>5 DEF New
  <2> QED BY <2>1, <2>3, <2>6 DEF New
<1> QED BY <1>1, <1>3, <1>4, <1>5, <1>6, <1>7 DEF SafeChanges, Active

\* The version last written stays where readers look for it.
LEMMA LatestStep ==
  ASSUME TypeOK, Routes, Latest, SafeChanges, MarkerTrue, [Next]_vars
  PROVE  Latest'
<1>1. CASE UNCHANGED <<rows, latest, late>>
  BY <1>1 DEF Latest, Old, New
<1>2. ASSUME NEW c \in Change, Apply(c), Safe(c)
      PROVE  Latest'
  <2>1. PICK b \in Article, p \in Place : b = c.article /\ p = c.place /\ c.put \in Version /\ c.under \in Version
                                          /\ c.kind \in {"move", "replace", "drop"}
    BY DEF Change
  <2>2. None \notin Version
    BY Cast
  <2>3. /\ \A a \in Article \ {b} : Old(a)' = Old(a) /\ New(a)' = New(a)
        /\ c.kind = "move" => New(b) = None /\ Old(b) = c.under /\ New(b)' = c.put /\ Old(b)' = None
        /\ c.kind = "replace" => rows[<<b, p>>] = c.under /\ rows'[<<b, p>>] = c.put
                                 /\ \A o \in Place \ {p} : rows'[<<b, o>>] = rows[<<b, o>>]
        /\ c.kind = "drop" => Old(b) = c.under /\ Old(b)' = None /\ New(b)' = New(b)
        /\ \A a \in Article \ {b} : latest'[a] = latest[a]
        /\ latest'[b] = IF c.put = c.under THEN latest[b] ELSE c.put
        /\ late' = IF c.kind = "replace" THEN late ELSE late \ {b}
    BY <1>2, <2>1, Applied
  <2>4. latest[b] = (IF New(b) # None THEN New(b) ELSE Old(b)) /\ (b \in late => New(b) = None)
    BY DEF Latest
  <2>5. /\ latest'[b] = IF rows'[<<b, "current">>] # None THEN rows'[<<b, "current">>] ELSE rows'[<<b, "legacy">>]
        /\ b \in late' => rows'[<<b, "current">>] = None
    <3>1. CASE c.kind = "move"
      BY <2>1, <2>2, <2>3, <2>4, <3>1 DEF Old, New
    <3>2. CASE c.kind = "drop"
      BY <1>2, <2>1, <2>2, <2>3, <2>4, <3>2 DEF Old, New, Safe
    <3>3. CASE c.kind = "replace" /\ p = "current"
      BY <2>1, <2>2, <2>3, <2>4, <3>3 DEF Old, New, Place
    <3>4. CASE c.kind = "replace" /\ p = "legacy"
      <4>1. marker /\ Old(b) # None
        BY <1>2, <2>1, <2>2, <2>3, <3>4 DEF Safe, Old
      <4>2. b \in late
        BY <4>1 DEF MarkerTrue
      <4> QED BY <2>1, <2>2, <2>3, <2>4, <3>4, <4>2 DEF Old, New, Place
    <3>5. c.kind = "move" \/ c.kind = "drop" \/ (c.kind = "replace" /\ p = "current") \/ (c.kind = "replace" /\ p = "legacy")
      BY <2>1 DEF Place
    <3> QED BY <3>1, <3>2, <3>3, <3>4, <3>5
  <2>6. ASSUME NEW a \in Article \ {b}
        PROVE  /\ latest'[a] = IF rows'[<<a, "current">>] # None THEN rows'[<<a, "current">>] ELSE rows'[<<a, "legacy">>]
               /\ a \in late' => rows'[<<a, "current">>] = None
    BY <2>3 DEF Latest, Old, New
  <2>7. late' \subseteq Article
    BY <2>3 DEF TypeOK
  <2>8. ASSUME NEW a \in Article
        PROVE  /\ latest'[a] = IF rows'[<<a, "current">>] # None THEN rows'[<<a, "current">>] ELSE rows'[<<a, "legacy">>]
               /\ a \in late' => rows'[<<a, "current">>] = None
    BY <2>5, <2>6
  <2> QED BY <2>7, <2>8 DEF Latest, Old, New
<1>3. ASSUME NEW o \in OldWriter, Writes(o)
      PROVE  Latest'
  <2>1. PICK b \in Article : /\ New(b) = None /\ rows' = [rows EXCEPT ![<<b, "legacy">>] = o]
                             /\ latest' = [latest EXCEPT ![b] = o] /\ late' = late \cup {b}
    BY <1>3 DEF Writes
  <2>2. ASSUME NEW a \in Article
        PROVE  /\ rows'[<<a, "current">>] = rows[<<a, "current">>]
               /\ rows'[<<a, "legacy">>] = IF a = b THEN o ELSE rows[<<a, "legacy">>]
    BY <2>1, Keys DEF TypeOK, Place
  <2>3. \A a \in Article : latest'[a] = IF a = b THEN o ELSE latest[a]
    BY <2>1 DEF TypeOK
  <2>4. ASSUME NEW a \in Article
        PROVE  /\ latest'[a] = IF rows'[<<a, "current">>] # None THEN rows'[<<a, "current">>] ELSE rows'[<<a, "legacy">>]
               /\ a \in late' => rows'[<<a, "current">>] = None
    BY <2>1, <2>2, <2>3 DEF Latest, Old, New
  <2> QED BY <2>1, <2>4 DEF Latest, Old, New, TypeOK
<1> QED BY <1>1, <1>2, <1>3, TableMoves DEF TableKept


\* The marker is put behind the last legacy row, and no start completes before.
LEMMA MarkerTrueStep ==
  ASSUME TypeOK, Routes, SafeChanges, MarkerTrue, Scanned, [Next]_vars
  PROVE  MarkerTrue'
<1>1. ASSUME NEW m \in Migrator, answer'[m] = "complete" PROVE marker'
  <2>1. marker => marker'
    BY Lasting
  <2>2. Still(m) \/ Moves(m)
    BY EachMoves
  <2>3. CASE answer[m] = "complete"
    BY <2>1, <2>3 DEF MarkerTrue
  <2>4. CASE answer[m] # "complete"
    <3>1. Stops(m)
      BY <1>1, <2>2, <2>4 DEF Still, Moves, Begins, Rewinds, Asks, Gets, Ends, Takes, Proceeds, Drops, Settles, Checks, Restarts
    <3> QED BY <1>1, <3>1 DEF Stops
  <2> QED BY <2>3, <2>4
<1>2. ASSUME marker' \/ Marker \in inflight' PROVE \A a \in Article \ late : Old(a) = None
  <2>1. marker \/ Marker \in inflight \/ \E m \in Migrator : pc[m] = "persist"
    <3>1. CASE Marker \in inflight'
      BY <3>1, InflightMoves
    <3>2. CASE marker'
      <4>1. (\E r \in Request : StepOf(r)) \/ Arrival
        BY StepMoves
      <4>2. CASE Arrival
        BY <3>2, <4>2 DEF Arrival, TableKept, Apply
      <4>3. ASSUME NEW r \in Request, StepOf(r) PROVE marker \/ \E m \in Migrator : pc[m] = "persist"
        BY <3>2, <4>3 DEF StepOf, TableKept, Applies, GetsNoAnswer, Writes, Apply
      <4> QED BY <4>1, <4>2, <4>3
    <3> QED BY <1>2, <3>1, <3>2
  <2>2. ASSUME NEW m \in Migrator, pc[m] = "persist" PROVE \A a \in Article \ late : Old(a) = None
    BY <2>2 DEF Scanned, Pending
  <2> QED BY <2>1, <2>2 DEF MarkerTrue
<1>3. ASSUME marker' \/ Marker \in inflight', NEW a \in Article \ late' PROVE Old(a)' = None
  <2>1. CASE UNCHANGED <<rows, late>>
    BY <1>2, <1>3, <2>1 DEF Old
  <2>2. ASSUME NEW c \in Change, Apply(c) PROVE Old(a)' = None
    <3>1. PICK b \in Article, p \in Place : b = c.article /\ p = c.place /\ c.under \in Version
                                            /\ c.kind \in {"move", "replace", "drop"}
      BY DEF Change
    <3>2. /\ \A d \in Article \ {b} : Old(d)' = Old(d) /\ New(d)' = New(d)
          /\ c.kind = "move" => Old(b)' = None
          /\ c.kind = "replace" => rows[<<b, p>>] = c.under
                                   /\ \A o \in Place \ {p} : rows'[<<b, o>>] = rows[<<b, o>>]
          /\ c.kind = "drop" => Old(b)' = None
          /\ late' = IF c.kind = "replace" THEN late ELSE late \ {b}
      BY <2>2, <3>1, Applied
    <3>3. CASE a # b
      BY <1>2, <1>3, <3>2, <3>3
    <3>4. CASE a = b /\ c.kind = "replace"
      <4>1. Old(a) = None
        BY <1>2, <1>3, <3>2, <3>4
      <4>2. p # "legacy"
        BY <3>1, <3>2, <3>4, <4>1, Cast DEF Old
      <4> QED BY <3>2, <3>4, <4>1, <4>2 DEF Old, Place
    <3>5. CASE a = b /\ c.kind # "replace"
      BY <3>1, <3>2, <3>5
    <3> QED BY <3>3, <3>4, <3>5
  <2>3. ASSUME NEW o \in OldWriter, Writes(o) PROVE Old(a)' = None
    <3>1. PICK b \in Article : rows' = [rows EXCEPT ![<<b, "legacy">>] = o] /\ late' = late \cup {b}
      BY <2>3 DEF Writes
    <3>2. a # b /\ Old(a) = None
      BY <1>2, <1>3, <3>1
    <3> QED BY <3>1, <3>2, Keys DEF Old, TypeOK, Place
  <2> QED BY <2>1, <2>2, <2>3, TableMoves DEF TableKept
<1> QED BY <1>1, <1>3 DEF MarkerTrue

\* Rows are not put back at a legacy key, but by an old image.
LEMMA LegacyMoves ==
  ASSUME TypeOK, Routes, SafeChanges, MarkerTrue, [Next]_vars
  PROVE  \/ \E o \in OldWriter, b \in Article :
              /\ ~Repairing /\ New(b) = None /\ late' = late \cup {b} /\ pc[o] = "idle"
              /\ \A a \in Article \ {b} : Old(a)' = Old(a)
         \/ \A a \in Article : Old(a)' # None => Old(a) # None /\ (a \in late => a \in late')
<1>1. CASE UNCHANGED <<rows, late>>
  BY <1>1 DEF Old
<1>2. ASSUME NEW c \in Change, Apply(c)
      PROVE  \A a \in Article : Old(a)' # None => Old(a) # None /\ (a \in late => a \in late')
  <2>1. PICK b \in Article, p \in Place : b = c.article /\ p = c.place /\ c.under \in Version
                                          /\ c.kind \in {"move", "replace", "drop"}
    BY DEF Change
  <2>2. /\ \A d \in Article \ {b} : Old(d)' = Old(d) /\ New(d)' = New(d)
        /\ c.kind = "move" => Old(b)' = None
        /\ c.kind = "replace" => rows[<<b, p>>] = c.under
                                 /\ \A o \in Place \ {p} : rows'[<<b, o>>] = rows[<<b, o>>]
        /\ c.kind = "drop" => Old(b)' = None
        /\ late' = IF c.kind = "replace" THEN late ELSE late \ {b}
    BY <1>2, <2>1, Applied
  <2>3. None \notin Version
    BY Cast
  <2>4. c.kind = "replace" => rows[<<b, "legacy">>] # None \/ rows'[<<b, "legacy">>] = rows[<<b, "legacy">>]
    BY <2>1, <2>2, <2>3 DEF Place
  <2>5. Old(b)' # None => Old(b) # None /\ late' = late
    BY <2>1, <2>2, <2>4 DEF Old
  <2>6. ASSUME NEW a \in Article \ {b} PROVE Old(a)' # None => Old(a) # None /\ (a \in late => a \in late')
    BY <2>2
  <2>7. ASSUME NEW a \in Article PROVE Old(a)' # None => Old(a) # None /\ (a \in late => a \in late')
    BY <2>5, <2>6
  <2> QED BY <2>7
<1>3. ASSUME NEW o \in OldWriter, Writes(o)
      PROVE  \E b \in Article : /\ ~Repairing /\ New(b) = None /\ late' = late \cup {b} /\ pc[o] = "idle"
                                /\ \A a \in Article \ {b} : Old(a)' = Old(a)
  <2>1. PICK b \in Article : /\ New(b) = None /\ rows' = [rows EXCEPT ![<<b, "legacy">>] = o]
                             /\ late' = late \cup {b}
    BY <1>3 DEF Writes
  <2>2. ASSUME NEW a \in Article \ {b} PROVE Old(a)' = Old(a)
    BY <2>1, Keys DEF Old, TypeOK, Place
  <2> QED BY <1>3, <2>1, <2>2 DEF Writes
<1> QED BY <1>1, <1>2, <1>3, TableMoves DEF TableKept


\* What a migrator's scan is about is never more than it was.
LEMMA PendingMoves ==
  ASSUME TypeOK, Routes, SafeChanges, MarkerTrue, Scanned, [Next]_vars,
         NEW m \in Migrator, pc[m] \notin {"idle", "done"}, owed'[m] = owed[m]
  PROVE  Pending(m)' \subseteq Pending(m)
<1>1. ASSUME NEW a \in Article, Old(a)' # None, a \notin late' \/ (m \in Repairer /\ a \in owed[m])
      PROVE  Old(a) # None /\ (a \notin late \/ (m \in Repairer /\ a \in owed[m]))
  <2>1. CASE \A d \in Article : Old(d)' # None => Old(d) # None /\ (d \in late => d \in late')
    BY <1>1, <2>1
  <2>2. ASSUME NEW o \in OldWriter, NEW b \in Article, ~Repairing, late' = late \cup {b},
               \A d \in Article \ {b} : Old(d)' = Old(d)
        PROVE  Old(a) # None /\ (a \notin late \/ (m \in Repairer /\ a \in owed[m]))
    <3>1. m \notin Repairer
      BY <2>2 DEF Repairing, Active
    <3>2. a # b
      BY <1>1, <2>2, <3>1
    <3> QED BY <1>1, <2>2, <3>2
  <2> QED BY <2>1, <2>2, LegacyMoves
<1> QED BY <1>1 DEF Pending, Old

\* No legacy row escapes the scan that ends with the marker.
LEMMA ScannedStep ==
  ASSUME TypeOK, Routes, SafeChanges, MarkerTrue, Scanned, [Next]_vars
  PROVE  Scanned'
<1> DEFINE Walks == {"list", "move", "send", "legacy", "target", "again", "verify"}
<1>0. ASSUME NEW m \in Migrator
      PROVE  /\ Still(m) \/ Moves(m)
             /\ m \in Actor
             /\ pc[m] \in Walks => \A a \in Pending(m) : Ahead(m, a)
             /\ pc[m] \in {"persist", "recheck"} => Pending(m) = {}
             /\ \A a \in owed[m] : Exists(a)
             /\ m \in Repairer /\ answer[m] = "complete" => \A a \in owed[m] : Old(a) = None
             /\ owed[m] \subseteq Article /\ todo[m] \subseteq Entry
             /\ Pending(m) \subseteq Article
  BY EachMoves DEF Scanned, TypeOK, Pending, Actor
<1>1. ASSUME NEW m \in Migrator, pc'[m] \in Walks \cup {"persist", "recheck"},
             pc[m] \notin {"idle", "done"}, owed'[m] = owed[m], NEW a \in Pending(m)'
      PROVE  a \in Pending(m) /\ a \in Article
  BY <1>0, <1>1, PendingMoves
<1>2. ASSUME NEW m \in Migrator, pc'[m] \in Walks, NEW a \in Pending(m)'
      PROVE  Ahead(m, a)'
  <2>1. a \in Article /\ KeyOrder[<<a, "legacy">>] \in Nat
    BY Keys DEF Pending, Place
  <2>2. CASE Begins(m) \/ Rewinds(m)
    <3>1. pc'[m] = "list" /\ from'[m] = 0
      BY <1>2, <2>2 DEF Begins, Rewinds
    <3> QED BY <2>1, <3>1 DEF Ahead
  <2>3. CASE pc[m] \notin {"idle", "done"} /\ owed'[m] = owed[m]
    <3>1. a \in Pending(m)
      BY <1>1, <1>2, <2>3
    <3>2. pc[m] \in {"persist", "recheck"} => FALSE
      BY <1>0, <3>1
    <3>3. pc[m] \in Walks => Ahead(m, a)
      BY <1>0, <3>1
    <3>4. CASE Still(m)
      BY <1>0, <1>2, <3>3, <3>4 DEF Still, Ahead, Actor
    <3>5. CASE Asks(m)
      BY <3>3, <3>5 DEF Asks, Ahead
    <3>6. CASE Gets(m)
      <4>1. moved[m] \/ KeyOrder[<<a, "legacy">>] >= from[m]
        BY <3>3, <3>6 DEF Gets, Ahead
      <4>2. Old(a) # None
        BY <3>1 DEF Pending
      <4> QED BY <2>1, <3>6, <4>1, <4>2 DEF Gets, Ahead
    <3>7. CASE Takes(m)
      <4>1. moved[m] \/ (\E entry \in todo[m] : entry.article = a) \/ (further[m] /\ KeyOrder[<<a, "legacy">>] >= from[m])
        BY <3>3, <3>7 DEF Takes, Ahead
      <4>2. PICK taken \in todo[m] : todo'[m] = todo[m] \ {taken} /\ change'[m].article = taken.article
        BY <3>7 DEF Takes
      <4>3. (\E entry \in todo[m] : entry.article = a) => (\E entry \in todo'[m] : entry.article = a) \/ change'[m].article = a
        BY <4>2
      <4>4. /\ pc'[m] = "send" /\ moved'[m] = moved[m] /\ from'[m] = from[m] /\ further'[m] = further[m]
        BY <3>7 DEF Takes
      <4> QED BY <4>1, <4>3, <4>4 DEF Ahead
    <3>8. CASE Proceeds(m)
      BY <3>3, <3>8 DEF Proceeds, Ahead
    <3>9. CASE Drops(m)
      <4>1. moved[m] \/ (\E entry \in todo[m] : entry.article = a) \/ (further[m] /\ KeyOrder[<<a, "legacy">>] >= from[m])
            \/ change[m].article = a
        BY <3>3, <3>9 DEF Drops, Ahead
      <4> QED BY <3>9, <4>1 DEF Drops, Ahead
    <3>10. CASE Settles(m)
      BY <3>10 DEF Settles, Ahead
    <3>11. ~Ends(m) /\ ~Checks(m) /\ ~Stops(m) /\ ~Restarts(m)
      BY <1>2 DEF Ends, Checks, Stops, Restarts
    <3> QED BY <1>0, <2>2, <3>4, <3>5, <3>6, <3>7, <3>8, <3>9, <3>10, <3>11 DEF Moves
  <2>4. Begins(m) \/ (pc[m] \notin {"idle", "done"} /\ owed'[m] = owed[m])
    <3>1. CASE Still(m)
      BY <1>2, <3>1 DEF Still
    <3>2. CASE Moves(m)
      BY <1>2, <3>2 DEF Moves, Rewinds, Asks, Gets, Ends, Takes, Proceeds, Drops, Settles, Checks, Stops, Restarts
    <3> QED BY <1>0, <3>1, <3>2
  <2> QED BY <2>2, <2>3, <2>4
<1>3. ASSUME NEW m \in Migrator, pc'[m] \in {"persist", "recheck"}
      PROVE  Pending(m)' = {}
  <2>1. /\ pc[m] \notin {"idle", "done"} /\ owed'[m] = owed[m]
        /\ (pc[m] \in {"persist", "recheck"} \/ Ends(m))
    <3>1. CASE Still(m)
      BY <1>3, <3>1 DEF Still
    <3>2. CASE Moves(m)
      BY <1>3, <3>2 DEF Moves, Begins, Rewinds, Asks, Gets, Ends, Takes, Proceeds, Drops, Settles, Checks, Stops, Restarts
    <3> QED BY <1>0, <3>1, <3>2
  <2>2. ASSUME NEW a \in Pending(m)' PROVE FALSE
    <3>1. a \in Pending(m)
      BY <1>1, <1>3, <2>1, <2>2
    <3>2. CASE pc[m] \in {"persist", "recheck"}
      BY <1>0, <3>1, <3>2
    <3>3. CASE Ends(m)
      <4>1. Ahead(m, a)
        BY <1>0, <3>1, <3>3 DEF Ends
      <4> QED BY <3>3, <4>1 DEF Ends, Ahead
    <3> QED BY <2>1, <3>2, <3>3
  <2> QED BY <2>2
<1>4. ASSUME NEW m \in Migrator, NEW a \in owed'[m]
      PROVE  Exists(a)'
  <2>1. a \in Article /\ (a \in owed[m] \/ Old(a) # None)
    BY <1>0, <1>4 DEF Still, Moves, Begins
  <2>2. Exists(a)
    BY <1>0, <2>1 DEF Exists, Old, Place
  <2> QED BY <2>1, <2>2, Lasting
<1>5. ASSUME NEW m \in Repairer, answer'[m] = "complete", NEW a \in owed'[m]
      PROVE  Old(a)' = None
  <2>0. m \in Migrator
    BY Cast
  <2>1. /\ owed'[m] = owed[m] /\ a \in Article /\ Exists(a)
        /\ answer[m] = "complete" \/ pc[m] \in {"persist", "recheck"}
    <3>1. CASE Still(m)
      BY <1>0, <1>5, <2>0, <3>1 DEF Still
    <3>2. CASE Begins(m)
      BY <1>5, <2>0, <3>2, Cast DEF Begins, Routes
    <3>3. CASE Moves(m) /\ ~Begins(m)
      <4>1. owed'[m] = owed[m]
        BY <3>3 DEF Moves
      <4>2. answer[m] = "complete" \/ Stops(m)
        BY <1>5, <3>3 DEF Moves, Rewinds, Asks, Gets, Ends, Takes, Proceeds, Drops, Settles, Checks, Restarts
      <4>3. Stops(m) => pc[m] \in {"persist", "recheck"}
        BY <1>5, <2>0 DEF Stops, Routes
      <4> QED BY <1>0, <1>5, <2>0, <4>1, <4>2, <4>3
    <3> QED BY <1>0, <2>0, <3>1, <3>2, <3>3
  <2>2. Old(a) = None
    BY <1>0, <1>5, <2>0, <2>1 DEF Pending
  <2>3. New(a) # None
    BY <2>1, <2>2 DEF Exists, Old, New, Place
  <2>4. CASE \A d \in Article : Old(d)' # None => Old(d) # None
    BY <2>1, <2>2, <2>4
  <2>5. ASSUME NEW b \in Article, New(b) = None, \A d \in Article \ {b} : Old(d)' = Old(d)
        PROVE  Old(a)' = None
    BY <2>1, <2>2, <2>3, <2>5
  <2> QED BY <2>4, <2>5, LegacyMoves
<1> QED BY <1>2, <1>3, <1>4, <1>5, Cast DEF Scanned


\* An editor's version is written only once it has been sent for good.
LEMMA SavedMoves ==
  ASSUME TypeOK, Routes, Genuine, [Next]_vars
  PROVE  /\ saved \subseteq saved'
         /\ \A k \in Key : rows'[k] \in Editor => rows'[k] \in saved'
         /\ \A e \in Editor : e \in saved' => e \in saved \/ use'[e] \in {"refresh", "settle"}
         /\ \A c \in inflight' \cap Change : c.put \in Editor =>
              \/ c \in inflight \/ c.put \in saved \/ use'[c.put] = "settle"
<1>0. /\ Migrator \cap Editor = {} /\ Editor \subseteq Request /\ Migrator \subseteq Request /\ Actor = Migrator \cup Editor
      /\ Marker \notin Change /\ None \notin Editor /\ OldWriter \cap Editor = {}
  BY Cast DEF Actor
<1>1. ASSUME NEW c \in Change, Apply(c)
      PROVE  /\ saved' = saved \cup ({c.put} \cap Editor)
             /\ \A k \in Key : rows'[k] \in Editor => rows'[k] \in saved'
  <2>1. /\ saved' = saved \cup ({c.put} \cap Editor) /\ rows' = Written(c)
        /\ c.kind \in {"move", "replace", "drop"}
    BY <1>1 DEF Apply, Change
  <2>2. ASSUME NEW k \in Key PROVE rows'[k] \in {rows[k], c.put, None}
    <3>1. CASE c.kind = "move"
      BY <2>1, <3>1 DEF Written, TypeOK
    <3>2. CASE c.kind = "replace"
      BY <2>1, <3>2 DEF Written, TypeOK
    <3>3. CASE c.kind = "drop"
      BY <2>1, <3>3 DEF Written, TypeOK
    <3> QED BY <2>1, <3>1, <3>2, <3>3
  <2> QED BY <1>0, <2>1, <2>2 DEF Genuine
<1>2. CASE Arrival
  <2>1. CASE TableKept /\ UNCHANGED inflight
    BY <2>1 DEF TableKept, Genuine
  <2>2. ASSUME NEW c \in inflight \cap Change, Apply(c), inflight' = inflight \ {c}
        PROVE  /\ saved \subseteq saved'
               /\ \A k \in Key : rows'[k] \in Editor => rows'[k] \in saved'
               /\ \A e \in Editor : e \in saved' => e \in saved \/ use'[e] \in {"refresh", "settle"}
               /\ inflight' \subseteq inflight
    <3>1. c.put \in Editor => c.put \in saved \/ use'[c.put] = "settle"
      BY <1>0, <1>2, <2>2 DEF Arrival, Still, Genuine
    <3> QED BY <1>1, <2>2, <3>1
  <2>3. CASE inflight' = inflight \ {Marker} /\ UNCHANGED <<rows, latest, saved, late>>
    BY <2>3 DEF Genuine
  <2> QED BY <1>2, <2>1, <2>2, <2>3 DEF Arrival
<1>3. ASSUME NEW r \in Request, StepOf(r)
      PROVE  /\ saved \subseteq saved'
             /\ \A k \in Key : rows'[k] \in Editor => rows'[k] \in saved'
             /\ \A e \in Editor : e \in saved' => e \in saved \/ use'[e] \in {"refresh", "settle"}
             /\ \A c \in inflight' \cap Change : c.put \in Editor =>
                  \/ c \in inflight \/ c.put \in saved \/ use'[c.put] = "settle"
  <2>1. CASE r \in Actor /\ Applies(r)
    <3>1. pc[r] = "send" /\ Apply(change[r]) /\ UNCHANGED inflight /\ (r \in Editor => use'[r] = "refresh")
      BY <1>0, <2>1 DEF Applies
    <3>2. change[r] \in Change
      BY <2>1, <3>1, SentType
    <3>3. PICK c \in Change : c = change[r]
      BY <3>2
    <3>4. Apply(c)
      BY <3>1, <3>3
    <3>5. /\ r \in Editor => c.put = r
          /\ r \in Migrator => (c.put \in Editor => c.put \in saved)
      BY <1>0, <3>1, <3>2, <3>3 DEF Routes, Genuine
    <3>6. c.put \in Editor => c.put \in saved \/ use'[c.put] = "refresh"
      BY <1>0, <2>1, <3>1, <3>5
    <3> QED BY <1>1, <3>1, <3>4, <3>6
  <2>2. CASE r \in Actor /\ GetsNoAnswer(r)
    <3>1. pc[r] = "send" /\ TableKept /\ inflight' = inflight \cup {change[r]} /\ (r \in Editor => use'[r] = "settle")
      BY <1>0, <2>2 DEF GetsNoAnswer
    <3>2. change[r] \in Change
      BY <2>2, <3>1, SentType
    <3>3. /\ r \in Editor => change[r].put = r
          /\ r \in Migrator => (change[r].put \in Editor => change[r].put \in saved)
      BY <1>0, <3>1, <3>2 DEF Routes, Genuine
    <3>4. change[r].put \in Editor => change[r].put \in saved \/ use'[change[r].put] = "settle"
      BY <1>0, <2>2, <3>1, <3>3
    <3> QED BY <3>1, <3>4 DEF TableKept, Genuine
  <2>3. CASE r \in OldWriter /\ Writes(r)
    <3>1. PICK a \in Article : rows' = [rows EXCEPT ![<<a, "legacy">>] = r]
      BY <2>3 DEF Writes
    <3>2. UNCHANGED <<saved, inflight>> /\ r \notin Editor
      BY <1>0, <2>3 DEF Writes
    <3>3. ASSUME NEW k \in Key PROVE rows'[k] \in {rows[k], r}
      BY <3>1 DEF TypeOK
    <3> QED BY <3>2, <3>3 DEF Genuine
  <2>4. CASE UNCHANGED <<rows, saved>> /\ (UNCHANGED inflight \/ inflight' = inflight \cup {Marker})
    BY <1>0, <2>4 DEF Genuine
  <2> QED BY <1>3, <2>1, <2>2, <2>3, <2>4 DEF StepOf, TableKept
<1> QED BY <1>2, <1>3, StepMoves

LEMMA GenuineStep ==
  ASSUME TypeOK, Routes, Genuine, [Next]_vars
  PROVE  Genuine'
<1>0. /\ Migrator \cap Editor = {} /\ Editor \subseteq Request /\ Migrator \subseteq Request /\ Actor = Migrator \cup Editor
      /\ None \notin Editor /\ None \notin Change
  BY Cast DEF Actor
<1>1. /\ saved \subseteq saved'
      /\ \A k \in Key : rows'[k] \in Editor => rows'[k] \in saved'
      /\ \A e \in Editor : e \in saved' => e \in saved \/ use'[e] \in {"refresh", "settle"}
      /\ \A c \in inflight' \cap Change : c.put \in Editor =>
           \/ c \in inflight \/ c.put \in saved \/ use'[c.put] = "settle"
  BY SavedMoves
<1>2. /\ \A m \in Migrator : Still(m) \/ Moves(m)
      /\ \A e \in Editor : Still(e) \/ EditorMove(e)
      /\ \A k \in Key : rows[k] \in Editor => rows[k] \in saved
  BY EachMoves DEF Genuine
<1>3. ASSUME NEW c \in Change PROVE Old(c.article) \in Editor => Old(c.article) \in saved
  <2>1. <<c.article, "legacy">> \in Key
    BY DEF Change, Key, Place
  <2> QED BY <1>2, <2>1 DEF Old
<1>4. ASSUME NEW m \in Migrator
      PROVE  /\ \A entry \in todo'[m] : entry.version \in Editor => entry.version \in saved'
             /\ change'[m] # None /\ change'[m].put \in Editor => change'[m].put \in saved'
             /\ seen'[m] \in Editor => seen'[m] \in saved'
  <2>1. /\ \A entry \in todo[m] : entry.version \in Editor => entry.version \in saved
        /\ change[m] # None /\ change[m].put \in Editor => change[m].put \in saved
        /\ seen[m] \in Editor => seen[m] \in saved
    BY <1>0 DEF Genuine
  <2>2. pc[m] \in {"legacy", "again"} => change[m] \in Change
    BY <1>0 DEF Routes, TypeOK
  <2>3. CASE Gets(m)
    BY <1>1, <1>2, <2>1, <2>3 DEF Gets
  <2>4. CASE Takes(m)
    BY <1>1, <2>1, <2>4 DEF Takes
  <2>5. CASE Drops(m)
    BY <1>1, <1>3, <2>1, <2>2, <2>5 DEF Drops
  <2>6. CASE Proceeds(m)
    BY <1>1, <1>3, <2>1, <2>2, <2>6 DEF Proceeds
  <2>7. CASE todo'[m] = todo[m] /\ change'[m] = change[m] /\ seen'[m] = seen[m]
    BY <1>1, <2>1, <2>7
  <2>8. CASE Still(m)
    BY <1>0, <2>7, <2>8 DEF Still
  <2> QED BY <1>2, <2>3, <2>4, <2>5, <2>6, <2>7, <2>8
          DEF Moves, Begins, Rewinds, Asks, Ends, Settles, Checks, Stops, Restarts
<1>5. ASSUME NEW e \in Editor
      PROVE  /\ seen'[e] \in Editor => seen'[e] \in saved'
             /\ use'[e] \in {"read", "update"} => e \notin saved'
             /\ answer'[e] \in {"notFound", "conflict", "slugTaken"} => use'[e] \in {"read", "update"}
             /\ answer'[e] = "ok" => e \in saved'
             /\ use[e] = "settle" => use'[e] = "settle"
  <2>1. /\ seen[e] \in Editor => seen[e] \in saved
        /\ use[e] \in {"read", "update"} => e \notin saved
        /\ answer[e] \in {"notFound", "conflict", "slugTaken"} => use[e] \in {"read", "update"}
        /\ answer[e] = "ok" => e \in saved
    BY <1>0 DEF Genuine
  <2>2. /\ pc[e] # "done" => answer[e] = "none"
        /\ pc[e] = "idle" => use[e] = "read"
        /\ pc[e] = "send" => use[e] = "update"
    BY <1>0 DEF Routes
  <2>3. CASE Still(e)
    BY <1>0, <1>1, <2>1, <2>3 DEF Still
  <2>4. CASE Opens(e)
    BY <1>1, <2>1, <2>2, <2>4 DEF Opens
  <2>5. CASE Looks(e)
    BY <1>1, <1>2, <2>1, <2>2, <2>5 DEF Looks
  <2>6. CASE Sends(e)
    BY <1>1, <2>1, <2>2, <2>6 DEF Sends
  <2>7. CASE Resumes(e)
    BY <1>1, <2>1, <2>2, <2>7 DEF Resumes
  <2>8. CASE Quits(e)
    BY <1>1, <1>2, <2>1, <2>2, <2>8 DEF Quits
  <2> QED BY <1>2, <2>3, <2>4, <2>5, <2>6, <2>7, <2>8 DEF EditorMove
<1>6. ASSUME NEW c \in inflight' \cap Change, c.put \in Editor
      PROVE  c.put \in saved' \/ use'[c.put] = "settle"
  <2>1. CASE c \in inflight
    BY <1>1, <1>5, <1>6, <2>1 DEF Genuine
  <2>2. CASE c \notin inflight
    BY <1>1, <1>6, <2>2
  <2> QED BY <2>1, <2>2
<1> QED BY <1>0, <1>1, <1>4, <1>5, <1>6 DEF Genuine
-----------------------------------------------------------------------------
LEMMA MigrationInit == Init => MigrationInv
<1> SUFFICES ASSUME Init PROVE MigrationInv
  OBVIOUS
<1>1. TypeOK
  BY TypesInit
<1>2. /\ pc = [r \in Request |-> "idle"] /\ answer = [r \in Request |-> "none"] /\ marker = FALSE
      /\ use = [e \in Editor |-> "read"] /\ inflight = {} /\ saved = {} /\ late = {}
      /\ change = [r \in Actor |-> None] /\ seen = [r \in Actor |-> None]
      /\ todo = [m \in Migrator |-> {}] /\ owed = [m \in Migrator |-> {}]
  BY DEF Init, Actor
<1>3. Migrator \subseteq Request /\ Editor \subseteq Request /\ Lister \subseteq Request /\ OldWriter \subseteq Request
      /\ Migrator \subseteq Actor /\ Editor \subseteq Actor /\ Actor \subseteq Request /\ None \notin Version
      /\ Editor \subseteq Version /\ OldWriter \subseteq Version /\ Repairer \subseteq Migrator
  BY Cast DEF Actor
<1>4. Routes
  BY <1>2, <1>3 DEF Routes
<1>5. Genuine
  <2>1. ASSUME NEW k \in Key PROVE rows[k] \notin Editor
    <3>1. rows[k] \in {None, "original"}
      BY DEF Init
    <3> QED BY <1>3, <3>1, Cast
  <2> QED BY <1>2, <1>3, <2>1 DEF Genuine
<1>6. Latest
  <2>1. ASSUME NEW a \in Article PROVE latest[a] = IF New(a) # None THEN New(a) ELSE Old(a)
    <3>1. rows[<<a, "legacy">>] \in {None, "original"} /\ rows[<<a, "current">>] \in {None, "original"}
      BY DEF Init, Key, Place
    <3>2. latest[a] = IF Exists(a) THEN "original" ELSE None
      BY DEF Init
    <3>3. Exists(a) <=> rows[<<a, "legacy">>] # None \/ rows[<<a, "current">>] # None
      BY DEF Exists, Place
    <3> QED BY <3>1, <3>2, <3>3 DEF Old, New
  <2> QED BY <1>2, <2>1 DEF Latest
<1>7. SafeChanges
  BY <1>2, <1>3 DEF SafeChanges, Active
<1>8. MarkerTrue
  BY <1>2, <1>3 DEF MarkerTrue
<1>9. Scanned
  BY <1>2, <1>3 DEF Scanned
<1> QED BY <1>1, <1>4, <1>5, <1>6, <1>7, <1>8, <1>9 DEF MigrationInv

LEMMA MigrationStep ==
  ASSUME MigrationInv, [Next]_vars
  PROVE  MigrationInv'
  BY TypesStep, RoutesStep, GenuineStep, LatestStep, SafeChangesStep, MarkerTrueStep, ScannedStep DEF MigrationInv

\* The inductive invariant of the migration.
THEOREM MigrationInvariant == Spec => []MigrationInv
  BY MigrationInit, MigrationStep, PTL DEF Spec

\* Every variable keeps its type, whatever migrators, editors, lists and old
\* images do at the same time.
THEOREM MigrationTypeCorrect == Spec => []TypeOK
<1>1. MigrationInv => TypeOK
  BY DEF MigrationInv
<1> QED BY <1>1, MigrationInvariant, PTL

\* The completion marker is put only behind the last legacy row, and a start
\* completes only when the rows it met are moved.
THEOREM MigrationConverged == Spec => []Converged
<1>1. ASSUME MigrationInv PROVE Converged
  <2>1. MarkerTrue /\ Scanned
    BY <1>1 DEF MigrationInv
  <2>2. ASSUME NEW m \in Migrator, answer[m] = "complete", NEW a \in owed[m]
        PROVE  Old(a) = None \/ (m \notin Repairer /\ a \in late)
    <3>1. marker /\ a \in Article
      BY <1>1, <2>1, <2>2 DEF MarkerTrue, MigrationInv, TypeOK
    <3> QED BY <2>1, <2>2, <3>1 DEF MarkerTrue, Scanned
  <2> QED BY <2>1, <2>2 DEF MarkerTrue, Converged
<1> QED BY <1>1, MigrationInvariant, PTL

\* The version last written of an article is in one of its rows.
THEOREM NoSaveLost == Spec => []NothingLost
<1>1. ASSUME MigrationInv PROVE NothingLost
  <2>1. Latest
    BY <1>1 DEF MigrationInv
  <2> QED BY <2>1 DEF Latest, NothingLost, Old, New, Place
<1> QED BY <1>1, MigrationInvariant, PTL

\* An editor is told "ok" only of a version that was written, and refused only
\* one that was not.
THEOREM EditorsToldTheTruth == Spec => []AnswersTrue
<1>1. ASSUME MigrationInv PROVE AnswersTrue
  <2>1. Genuine
    BY <1>1 DEF MigrationInv
  <2> QED BY <2>1 DEF Genuine, AnswersTrue
<1> QED BY <1>1, MigrationInvariant, PTL
-----------------------------------------------------------------------------
(* Lists                                                                     *)

\* The entries of newer articles.
NewerIn(entries, a) == {x \in entries : Newer(x.article, a)}

Holds(entries, a) == \E x \in entries : x.article = a

\* What a list has met and not given yet is kept, unless the page is full without it.
Met(entries, a) == Holds(entries, a) \/ Cardinality(NewerIn(entries, a)) > Limit

\* Whether an article comes after what a list has given.
After(l, a) == cursor[l] = None \/ Newer(cursor[l], a)

\* The place of an article's current row in the order of keys.
Rank(a) == KeyOrder[<<a, "current">>]

\* Where a list begins, and what it has been promised.
Promised(l) ==
  /\ pc[l] = "idle" => /\ from[l] = 0 /\ cursor[l] = None /\ kept[l] = {}
                       /\ \A a \in Article : given[l][a] = 0
  /\ IsFiniteSet(kept[l])
  /\ \A a \in steady[l] : Exists(a)
  /\ \A a \in Article : given[l][a] \in {0, 1}

\* A compat list has given what comes up to its cursor, and keeps what comes after.
CompatGiven(l) ==
  pc[l] # "done" => /\ \A a \in Article : given[l][a] = 1 => ~After(l, a)
                    /\ \A x \in kept[l] : After(l, x.article)

\* An untouched article is before a compat list's scan, or met, or given.
CompatReach(l) ==
  \A a \in steady[l] :
    /\ pc[l] \in {"list", "give"} /\ given[l][a] # 1 =>
         /\ After(l, a)
         /\ \/ pc[l] = "list" /\ \E p \in Place : rows[<<a, p>>] # None /\ KeyOrder[<<a, p>>] >= from[l]
            \/ Met(kept[l], a)
    /\ answer[l] = "ok" => given[l][a] = 1

\* A current-only list has given and keeps what comes up to its continuation, in
\* this order, and no more than a page.
CurrentGiven(l) ==
  /\ Cardinality(kept[l]) <= Limit /\ (pc[l] = "list" => Cardinality(kept[l]) < Limit)
  /\ pc[l] = "list" => \A a \in Article : given[l][a] = 1 => Rank(a) < from[l]
  /\ pc[l] = "list" \/ (pc[l] = "give" /\ further[l]) =>
       \A x \in kept[l] : Rank(x.article) < from[l]
  /\ pc[l] \in {"list", "give"} =>
       \A x \in kept[l], a \in Article : given[l][a] = 1 => Rank(a) < Rank(x.article)

\* An untouched article with a current row is before a current-only list's scan,
\* or kept, or given; one without is none of this.
CurrentReach(l) ==
  \A a \in steady[l] :
    IF New(a) = None THEN given[l][a] = 0 /\ ~Holds(kept[l], a)
    ELSE /\ pc[l] \in {"list", "give"} /\ given[l][a] # 1 =>
              \/ Holds(kept[l], a)
              \/ (pc[l] = "list" \/ further[l]) /\ Rank(a) >= from[l]
         /\ answer[l] = "ok" => given[l][a] = 1

Listed(l) ==
  /\ Promised(l)
  /\ l \notin Modern => CompatGiven(l) /\ CompatReach(l)
  /\ l \in Modern => CurrentGiven(l) /\ CurrentReach(l)

ListInv == \A l \in Lister : Listed(l)


\* The newest articles come first.
LEMMA Ranks ==
  ASSUME NEW a \in Article, NEW b \in Article
  PROVE  /\ Rank(a) \in Nat /\ (Newer(a, b) <=> Rank(a) < Rank(b))
         /\ Rank(a) = Rank(b) => a = b
<1>1. <<a, "current">> \in Key /\ <<b, "current">> \in Key
  BY Keys DEF Place
<1> QED BY <1>1, Keys, OrderAssumption DEF Rank, Newer

\* There are finitely many rows, and so entries on a page.
LEMMA PagesFinite ==
  ASSUME NEW page \in SUBSET Key
  PROVE  /\ IsFiniteSet(page) /\ IsFiniteSet(Entries(page))
         /\ Cardinality(Entries(page)) <= Cardinality(page)
<1>1. IsFiniteSet(Place)
  <2>1. IsFiniteSet({"legacy"} \cup {"current"})
    BY FS_Singleton, FS_Union
  <2>2. Place = {"legacy"} \cup {"current"}
    BY DEF Place
  <2> QED BY <2>1, <2>2
<1>2. IsFiniteSet(Key)
  BY <1>1, FS_Product, NumberAssumption DEF Key
<1>3. IsFiniteSet(page)
  BY <1>2, FS_Subset
<1> DEFINE entry == [k \in page |-> [article |-> k[1], version |-> rows[k]]]
<1>4. entry \in Surjection(page, Entries(page))
  BY DEF Entries, Surjection
<1> HIDE DEF entry
<1> QED BY <1>3, <1>4, FS_Surjection

\* Cutting entries down to the newest keeps every article among them, or more
\* than a page of newer ones.
LEMMA NewestMet ==
  ASSUME NEW T \in SUBSET Entry, IsFiniteSet(T), NEW a \in Article, Met(T, a)
  PROVE  Met(Newest(T), a)
<1> DEFINE Dropped == T \ Newest(T)
<1>0. /\ \A x \in T : x.article \in Article
      /\ \A b \in Article : NewerIn(T, b) \subseteq T /\ IsFiniteSet(NewerIn(T, b))
                            /\ Cardinality(NewerIn(T, b)) \in Nat
  <2>1. ASSUME NEW b \in Article
        PROVE  NewerIn(T, b) \subseteq T /\ IsFiniteSet(NewerIn(T, b))
               /\ Cardinality(NewerIn(T, b)) \in Nat
    <3>1. NewerIn(T, b) \subseteq T
      BY DEF NewerIn
    <3>2. IsFiniteSet(NewerIn(T, b))
      BY <3>1, FS_Subset
    <3> QED BY <3>1, <3>2, FS_CardinalityType
  <2> QED BY <2>1 DEF Entry
<1>1. \A x \in T : x \in Newest(T) <=> ~(Cardinality(NewerIn(T, x.article)) > Limit)
  <2> SUFFICES ASSUME NEW x \in T
               PROVE  x \in Newest(T) <=> ~(Cardinality(NewerIn(T, x.article)) > Limit)
    OBVIOUS
  <2>1. x \in Newest(T) <=> Cardinality(NewerIn(T, x.article)) <= Limit
    BY Zenon DEF Newest, NewerIn
  <2>2. Cardinality(NewerIn(T, x.article)) \in Nat
    BY <1>0
  <2> QED BY <2>1, <2>2, NumberAssumption
<1>2. ASSUME NEW x \in Dropped, x.article = a \/ Newer(x.article, a)
      PROVE  Met(Newest(T), a)
  <2> DEFINE Between == {y \in Dropped : y = x \/ Newer(y.article, x.article)}
             Firsts == {<<y.article, "current">> : y \in Between}
  <2>1. Firsts \subseteq Key /\ Firsts # {}
    <3>1. \A y \in Between : <<y.article, "current">> \in Key
      BY <1>0, Keys DEF Place
    <3>2. x \in Between
      BY <1>2
    <3> HIDE DEF Between
    <3> QED BY <3>1, <3>2
  <2>2. PICK k \in Firsts : \A j \in Firsts : KeyOrder[k] <= KeyOrder[j]
    <3> HIDE DEF Firsts
    <3> QED BY <2>1, FirstKey
  <2>3. PICK z \in Between : k = <<z.article, "current">>
    BY <2>2
  <2>4. z \in T /\ z.article \in Article /\ x.article \in Article
        /\ (z = x \/ Rank(z.article) < Rank(x.article))
    BY <1>0, <2>3, Ranks
  <2>5. \A y \in Between : Rank(z.article) <= Rank(y.article)
    BY <2>2, <2>3 DEF Rank
  <2>6. ASSUME NEW y \in NewerIn(T, z.article) PROVE y \in NewerIn(Newest(T), a)
    <3>1. y \in T /\ y.article \in Article /\ Rank(y.article) < Rank(z.article)
      BY <1>0, <2>4, <2>6, Ranks DEF NewerIn
    <3>2. Rank(y.article) \in Nat /\ Rank(z.article) \in Nat /\ Rank(x.article) \in Nat /\ Rank(a) \in Nat
      BY <2>4, <3>1, Ranks
    <3>3. Rank(y.article) < Rank(x.article) /\ Newer(y.article, x.article)
      BY <2>4, <3>1, <3>2, Ranks
    <3>4. y \in Newest(T)
      BY <2>5, <3>1, <3>2, <3>3
    <3>5. Rank(x.article) <= Rank(a)
      BY <1>2, <2>4, <3>2, Ranks
    <3>6. Newer(y.article, a)
      BY <3>1, <3>2, <3>3, <3>5, Ranks
    <3> QED BY <3>4, <3>6 DEF NewerIn
  <2>7. NewerIn(Newest(T), a) \subseteq NewerIn(T, a)
    BY DEF NewerIn, Newest
  <2>8. IsFiniteSet(NewerIn(Newest(T), a))
    BY <1>0, <2>7, FS_Subset
  <2>9. Cardinality(NewerIn(T, z.article)) <= Cardinality(NewerIn(Newest(T), a))
    BY <2>6, <2>8, FS_Subset
  <2>10. Cardinality(NewerIn(Newest(T), a)) \in Nat
    BY <2>8, FS_CardinalityType
  <2>11. Cardinality(NewerIn(T, z.article)) > Limit /\ Cardinality(NewerIn(T, z.article)) \in Nat
    BY <1>0, <1>1, <2>3, <2>4
  <2> QED BY <2>9, <2>10, <2>11, NumberAssumption DEF Met
<1>3. CASE Holds(T, a)
  <2>1. PICK x \in T : x.article = a
    BY <1>3 DEF Holds
  <2> QED BY <1>2, <2>1 DEF Met, Holds
<1>4. CASE Cardinality(NewerIn(T, a)) > Limit
  <2>1. CASE NewerIn(T, a) \subseteq Newest(T)
    <3>1. NewerIn(Newest(T), a) = NewerIn(T, a)
      BY <2>1 DEF NewerIn, Newest
    <3> QED BY <1>4, <3>1 DEF Met
  <2>2. CASE ~(NewerIn(T, a) \subseteq Newest(T))
    BY <1>2, <2>2 DEF NewerIn
  <2> QED BY <2>1, <2>2
<1> QED BY <1>3, <1>4 DEF Met

\* What is met stays met when entries are added.
LEMMA MetGrows ==
  ASSUME NEW S, NEW T, S \subseteq T, IsFiniteSet(T), NEW a, Met(S, a)
  PROVE  Met(T, a)
<1>1. NewerIn(S, a) \subseteq NewerIn(T, a) /\ NewerIn(T, a) \subseteq T
  BY DEF NewerIn
<1>2. IsFiniteSet(NewerIn(T, a))
  BY <1>1, FS_Subset
<1>3. /\ Cardinality(NewerIn(S, a)) <= Cardinality(NewerIn(T, a))
      /\ Cardinality(NewerIn(S, a)) \in Nat /\ Cardinality(NewerIn(T, a)) \in Nat
  BY <1>1, <1>2, FS_Subset, FS_CardinalityType
<1> QED BY <1>3, NumberAssumption DEF Met, Holds

\* A list's state, but for its end by a failure.
Rests(l) ==
  /\ from'[l] = from[l] /\ further'[l] = further[l]
  /\ kept'[l] = kept[l] /\ cursor'[l] = cursor[l] /\ given'[l] = given[l]
  /\ \/ pc'[l] = pc[l] /\ answer'[l] = answer[l]
     \/ pc'[l] = "done" /\ answer'[l] = "error"

\* What is still untouched was so before, and its rows are as they were.
Untouched(l) ==
  \A a \in steady'[l] : a \in steady[l] /\ \A p \in Place : rows'[<<a, p>>] = rows[<<a, p>>]

\* A transaction leaves the rows of other articles alone.
LEMMA TransactionTouches ==
  ASSUME TypeOK, NEW c \in Change, Apply(c), NEW l \in Lister
  PROVE  Untouched(l)
<1>1. /\ \A a \in Article \ {c.article} : Old(a)' = Old(a) /\ New(a)' = New(a)
      /\ steady' = [k \in Lister |-> steady[k] \ {c.article}]
  BY Applied
<1>2. steady[l] \subseteq Article /\ steady'[l] = steady[l] \ {c.article}
  BY <1>1 DEF TypeOK
<1> SUFFICES ASSUME NEW a \in steady'[l], NEW p \in Place
             PROVE  a \in steady[l] /\ rows'[<<a, p>>] = rows[<<a, p>>]
  BY DEF Untouched, Place
<1>3. a \in Article \ {c.article} /\ a \in steady[l]
  BY <1>2
<1>4. Old(a)' = Old(a) /\ New(a)' = New(a)
  BY <1>1, <1>3
<1> QED BY <1>3, <1>4 DEF Old, New, Place

\* The scan of a list is moved by no migrator.
LEMMA MigratorRests ==
  ASSUME TypeOK, Routes, NEW m \in Migrator, Step(m), NEW l \in Lister
  PROVE  Rests(l) /\ Untouched(l)
<1>0. m \in Migrator \cup Lister /\ l \in (Migrator \cup Lister) \ {m} /\ l \in Request \ {m}
      /\ from \in [Migrator \cup Lister -> Nat] /\ steady[l] \subseteq Article
  BY Cast DEF TypeOK
<1>1. pc'[l] = pc[l] /\ answer'[l] = answer[l] /\ UNCHANGED rows
  BY <1>0, MigratorMoves DEF Still
<1>2. UNCHANGED <<steady, kept, cursor, given>>
  <2>1. CASE Begin(m) \/ ReadMarker(m) \/ ListRows(m) \/ PageEnd(m)
    BY <2>1 DEF Begin, ReadMarker, ListRows, PageEnd, table, list
  <2>2. CASE MoveRow(m) \/ LookLegacy(m) \/ LookTarget(m) \/ ReadAgain(m)
    BY <2>2 DEF MoveRow, LookLegacy, LookTarget, ReadAgain, table, list
  <2>3. CASE VerifyGone(m) \/ Persist(m) \/ Recheck(m) \/ Restart(m)
    BY <2>3 DEF VerifyGone, Persist, Recheck, Restart, table, list
  <2> QED BY <2>1, <2>2, <2>3 DEF Step
<1>3. from'[l] = from[l] /\ further'[l] = further[l]
  <2>1. CASE ListRows(m)
    <3>1. PICK page \in SUBSET Key : PageOf(m, RawSize, page) /\ Continue(m, page)
      BY <2>1 DEF ListRows
    <3> QED BY <1>0, <3>1, Continued
  <2>2. CASE ~ListRows(m)
    <3>1. UNCHANGED further /\ (UNCHANGED from \/ FirstPage(m))
      BY <2>2 DEF Step, Begin, ReadMarker, PageEnd, MoveRow, LookLegacy, LookTarget, ReadAgain,
                  VerifyGone, Persist, Recheck, Restart, scan
    <3> QED BY <1>0, <3>1 DEF FirstPage
  <2> QED BY <2>1, <2>2
<1> QED BY <1>1, <1>2, <1>3 DEF Rests, Untouched

\* Nor by another list.
LEMMA OtherListRests ==
  ASSUME TypeOK, Routes, NEW k \in Lister, BeginList(k) \/ CompatList(k) \/ CurrentList(k) \/ Give(k),
         NEW l \in Lister, l # k
  PROVE  Rests(l) /\ Untouched(l)
<1>0. k \in Migrator \cup Lister /\ l \in (Migrator \cup Lister) \ {k} /\ l \in Request \ {k}
      /\ from \in [Migrator \cup Lister -> Nat] /\ steady \in [Lister -> SUBSET Article]
      /\ cursor \in [Lister -> Article \cup {None}] /\ given \in [Lister -> [Article -> Nat]]
      /\ kept \in [Lister -> SUBSET Entry]
  BY Cast DEF TypeOK
<1>1. pc'[l] = pc[l] /\ answer'[l] = answer[l] /\ UNCHANGED rows
  BY <1>0, ListerMoves DEF Still, TableKept
<1>2. CASE BeginList(k)
  BY <1>0, <1>1, <1>2 DEF BeginList, Rests, Untouched, scan, list
<1>3. CASE CompatList(k) \/ CurrentList(k)
  <2>1. PICK page \in SUBSET Key : (\E top : PageOf(k, top, page)) /\ Continue(k, page)
    BY <1>3 DEF CompatList, CurrentList
  <2>2. from'[l] = from[l] /\ further'[l] = further[l]
    BY <1>0, <2>1, Continued
  <2>3. UNCHANGED <<steady, cursor, given>> /\ kept'[l] = kept[l]
    BY <1>0, <1>3 DEF CompatList, CurrentList, table
  <2> QED BY <1>0, <1>1, <2>2, <2>3 DEF Rests, Untouched
<1>4. CASE Give(k)
  <2>1. UNCHANGED <<steady, further>> /\ kept'[l] = kept[l] /\ given'[l] = given[l]
    BY <1>0, <1>4 DEF Give, table
  <2>2. from'[l] = from[l] /\ cursor'[l] = cursor[l]
    <3>1. CASE More(k)
      BY <1>0, <1>4, <3>1 DEF Give
    <3>2. CASE ~More(k)
      BY <1>0, <1>4, <3>2 DEF Give
    <3> QED BY <3>1, <3>2
  <2> QED BY <1>0, <1>1, <2>1, <2>2 DEF Rests, Untouched
<1> QED BY <1>2, <1>3, <1>4

\* A list moves by its own steps, or fails.
LEMMA ListsMove ==
  ASSUME TypeOK, Routes, [Next]_vars, NEW l \in Lister
  PROVE  \/ BeginList(l) \/ CompatList(l) \/ CurrentList(l) \/ Give(l)
         \/ Rests(l) /\ Untouched(l)
<1>0. l \in Request /\ pc \in [Request -> Stage] /\ answer \in [Request -> Reply] /\ steady \in [Lister -> SUBSET Article]
      /\ l \notin Migrator /\ l \notin Editor /\ l \notin OldWriter
      /\ Migrator \subseteq Request /\ Editor \subseteq Request /\ OldWriter \subseteq Request
  BY Cast DEF TypeOK
<1>1. CASE \E m \in Migrator : Step(m)
  BY <1>1, MigratorRests
<1>2. CASE \E e \in Editor : Open(e) \/ Find(e) \/ Direct(e) \/ Gone(e)
  <2>1. PICK e \in Editor : Open(e) \/ Find(e) \/ Direct(e) \/ Gone(e)
    BY <1>2
  <2>2. Still(l)
    BY <1>0, <2>1, EditorMoves
  <2>3. UNCHANGED <<rows, steady, from, further, kept, cursor, given>>
    BY <2>1 DEF Open, Find, Direct, Gone, table, scan, list
  <2> QED BY <1>0, <2>2, <2>3 DEF Still, Rests, Untouched
<1>3. CASE \E k \in Lister : BeginList(k) \/ CompatList(k) \/ CurrentList(k) \/ Give(k)
  <2>1. PICK k \in Lister : BeginList(k) \/ CompatList(k) \/ CurrentList(k) \/ Give(k)
    BY <1>3
  <2>2. CASE k = l
    BY <2>1, <2>2
  <2>3. CASE k # l
    BY <2>1, <2>3, OtherListRests
  <2> QED BY <2>2, <2>3
<1>4. CASE \E r \in Migrator \cup Editor : Commit(r) \/ Refuse(r) \/ NoAnswer(r)
  <2>1. PICK r \in Actor : Commit(r) \/ Refuse(r) \/ NoAnswer(r)
    BY <1>4 DEF Actor
  <2>2. Still(l)
    BY <1>0, <2>1, TransactionMoves DEF Actor
  <2>3. UNCHANGED <<from, further, kept, cursor, given>>
    BY <2>1 DEF Commit, Refuse, NoAnswer, scan, list
  <2>4. Untouched(l)
    <3>1. CASE Commit(r)
      <4>1. change[r] \in Change
        BY <2>1, <3>1, SentType DEF Commit
      <4>2. PICK c \in Change : c = change[r]
        BY <4>1
      <4>3. Apply(c)
        BY <3>1, <4>2 DEF Commit
      <4> QED BY <4>3, TransactionTouches
    <3>2. CASE Refuse(r) \/ NoAnswer(r)
      BY <3>2 DEF Refuse, NoAnswer, table, Untouched
    <3> QED BY <2>1, <3>1, <3>2
  <2> QED BY <2>2, <2>3, <2>4 DEF Still, Rests
<1>5. CASE \E r \in Request : Fail(r)
  <2>1. PICK r \in Request : Fail(r)
    BY <1>5
  <2>2. UNCHANGED <<rows, steady, from, further, kept, cursor, given>>
    BY <2>1 DEF Fail, table, scan, list
  <2>3. CASE r = l
    <3>1. Finish(l, "error")
      BY <1>0, <2>1, <2>3 DEF Fail
    <3> QED BY <1>0, <2>2, <3>1 DEF Finish, Goto, Rests, Untouched
  <2>4. CASE r # l
    <3>1. Still(l)
      BY <1>0, <2>1, <2>4, FailMoves
    <3> QED BY <2>2, <3>1 DEF Still, Rests, Untouched
  <2> QED BY <2>3, <2>4
<1>6. CASE \E o \in OldWriter : OldWrite(o)
  <2>1. PICK o \in OldWriter : OldWrite(o)
    BY <1>6
  <2>2. Still(l) /\ UNCHANGED <<from, further, kept, cursor, given>>
    BY <1>0, <2>1, OldWriteMoves DEF OldWrite, scan, list
  <2>3. PICK a \in Article : /\ rows' = [rows EXCEPT ![<<a, "legacy">>] = o]
                             /\ steady' = [k \in Lister |-> steady[k] \ {a}]
    BY <2>1 DEF OldWrite
  <2>4. rows \in [Key -> Version \cup {None}]
    BY DEF TypeOK
  <2>5. Untouched(l)
    BY <1>0, <2>3, <2>4, Keys DEF Untouched
  <2> QED BY <2>2, <2>5 DEF Still, Rests
<1>7. CASE Land \/ LandMarker \/ UNCHANGED vars
  <2>1. UNCHANGED <<pc, answer, from, further, kept, cursor, given>>
    BY <1>7 DEF Land, LandMarker, vars, progress, scan, list
  <2>2. Untouched(l)
    <3>1. CASE Land
      <4>1. PICK c \in inflight \cap Change : Apply(c)
        BY <3>1 DEF Land
      <4> QED BY <4>1, TransactionTouches
    <3>2. CASE LandMarker \/ UNCHANGED vars
      BY <3>2 DEF LandMarker, vars, table, Untouched
    <3> QED BY <1>7, <3>1, <3>2
  <2> QED BY <2>1, <2>2 DEF Rests
<1> QED BY <1>1, <1>2, <1>3, <1>4, <1>5, <1>6, <1>7 DEF Next

\* A page, and where it leaves the scan.
LEMMA PageScanned ==
  ASSUME TypeOK, NEW l \in Lister, NEW page \in SUBSET Key, NEW top, PageOf(l, top, page), Continue(l, page)
  PROVE  /\ \A k \in page : k \in Present /\ KeyOrder[k] >= from[l]
         /\ from'[l] >= from[l]
         /\ further'[l] => \A k \in page : KeyOrder[k] < from'[l]
<1> DEFINE next == IF Rest(l, page) = {} THEN from[l] ELSE
                     KeyOrder[CHOOSE k \in Rest(l, page) : \A j \in Rest(l, page) : KeyOrder[k] <= KeyOrder[j]]
<1>1. from' = [from EXCEPT ![l] = next] /\ further' = [further EXCEPT ![l] = Rest(l, page) # {}]
  BY DEF Continue
<1>2. l \in Migrator \cup Lister /\ from[l] \in Nat /\ Rest(l, page) \subseteq Key
      /\ from \in [Migrator \cup Lister -> Nat] /\ further \in [Migrator \cup Lister -> BOOLEAN]
  BY DEF TypeOK, Rest, Beyond, Present
<1>3. \A k \in page : k \in Present /\ KeyOrder[k] >= from[l]
  BY DEF PageOf, Beyond
<1>4. CASE Rest(l, page) = {}
  <2>1. next = from[l]
    BY <1>4
  <2> HIDE DEF next
  <2>2. from'[l] = from[l] /\ further'[l] = FALSE
    BY <1>1, <1>2, <1>4, <2>1
  <2> QED BY <1>2, <1>3, <2>2
<1>5. CASE Rest(l, page) # {}
  <2>1. \E k \in Rest(l, page) : \A j \in Rest(l, page) : KeyOrder[k] <= KeyOrder[j]
    BY <1>2, <1>5, FirstKey
  <2>2. PICK first \in Rest(l, page) : next = KeyOrder[first]
    BY <1>5, <2>1
  <2>3. KeyOrder[first] >= from[l] /\ \A k \in page : KeyOrder[k] < KeyOrder[first]
    BY <2>2 DEF Rest, Beyond, PageOf
  <2> HIDE DEF next
  <2>4. from'[l] = KeyOrder[first]
    BY <1>1, <1>2, <2>2
  <2> QED BY <1>3, <2>3, <2>4
<1> QED BY <1>4, <1>5

\* What a failure or a step of another leaves of a list's promises.
LEMMA ListRests ==
  ASSUME TypeOK, NEW l \in Lister, Listed(l), Rests(l), Untouched(l)
  PROVE  Listed(l)'
<1>1. steady'[l] \subseteq Article
  BY DEF TypeOK, Untouched
<1>2. /\ from'[l] = from[l] /\ further'[l] = further[l]
      /\ kept'[l] = kept[l] /\ cursor'[l] = cursor[l] /\ given'[l] = given[l]
      /\ \/ pc'[l] = pc[l] /\ answer'[l] = answer[l]
         \/ pc'[l] = "done" /\ answer'[l] = "error"
  BY DEF Rests
<1>3. \A a \in steady'[l] : a \in steady[l] /\ \A p \in Place : rows'[<<a, p>>] = rows[<<a, p>>]
  BY DEF Untouched
<1>4. Promised(l)'
  BY <1>2, <1>3 DEF Listed, Promised, Exists
<1>5. ASSUME l \notin Modern PROVE CompatGiven(l)' /\ CompatReach(l)'
  <2>1. CompatGiven(l) /\ CompatReach(l)
    BY <1>5 DEF Listed
  <2>2. CompatGiven(l)'
    BY <1>2, <2>1 DEF CompatGiven, After
  <2>3. CompatReach(l)'
    <3> SUFFICES ASSUME NEW a \in steady'[l]
                 PROVE  /\ pc'[l] \in {"list", "give"} /\ given'[l][a] # 1 =>
                             /\ After(l, a)'
                             /\ \/ pc'[l] = "list" /\ \E p \in Place : rows'[<<a, p>>] # None /\ KeyOrder[<<a, p>>] >= from'[l]
                                \/ Met(kept'[l], a)
                        /\ answer'[l] = "ok" => given'[l][a] = 1
      BY DEF CompatReach
    <3>1. a \in steady[l] /\ (After(l, a)' <=> After(l, a)) /\ (Met(kept'[l], a) <=> Met(kept[l], a))
      BY <1>2, <1>3 DEF After
    <3>2. \A p \in Place : rows'[<<a, p>>] = rows[<<a, p>>]
      BY <1>3
    <3> QED BY <1>2, <2>1, <3>1, <3>2 DEF CompatReach
  <2> QED BY <2>2, <2>3
<1>6. ASSUME l \in Modern PROVE CurrentGiven(l)' /\ CurrentReach(l)'
  <2>1. CurrentGiven(l) /\ CurrentReach(l)
    BY <1>6 DEF Listed
  <2>2. CurrentGiven(l)'
    BY <1>2, <2>1 DEF CurrentGiven
  <2>3. CurrentReach(l)'
    BY <1>2, <1>3, <2>1 DEF CurrentReach, Holds, New, Place
  <2> QED BY <2>2, <2>3
<1> QED BY <1>4, <1>5, <1>6 DEF Listed

\* A list begins with everything before it.
LEMMA ListBegins ==
  ASSUME TypeOK, Routes, NEW l \in Lister, Listed(l), BeginList(l)
  PROVE  Listed(l)'
<1>1. /\ pc'[l] = "list" /\ steady'[l] = {a \in Article : Exists(a)}
      /\ UNCHANGED <<rows, answer, from, further, kept, cursor, given>>
  <2>1. l \in Request
    BY Cast
  <2> QED BY <2>1 DEF BeginList, Goto, TypeOK, scan, list
<1>2. /\ from[l] = 0 /\ cursor[l] = None /\ kept[l] = {} /\ answer[l] = "none"
      /\ \A a \in Article : given[l][a] = 0
  BY Cast DEF BeginList, Listed, Promised, Routes
<1>3. IsFiniteSet({}) /\ Cardinality({}) = 0
  BY FS_EmptySet
<1>4. \A a \in Article : Exists(a) => \E p \in Place : rows[<<a, p>>] # None /\ KeyOrder[<<a, p>>] >= 0
  BY Keys DEF Exists
<1>5. \A a \in Article : Rank(a) \in Nat
  BY Ranks
<1>6. Promised(l)'
  BY <1>1, <1>2, <1>3 DEF Promised, Exists
<1>7. CompatGiven(l)' /\ CompatReach(l)'
  BY <1>1, <1>2, <1>4 DEF CompatGiven, CompatReach, After
<1>8. CurrentGiven(l)'
  BY <1>1, <1>2, <1>3, NumberAssumption DEF CurrentGiven
<1>9. CurrentReach(l)'
  <2>1. \A a \in Article : given'[l][a] = 0 /\ ~Holds(kept'[l], a) /\ Rank(a) >= from'[l]
    BY <1>1, <1>2, <1>5 DEF Holds
  <2>2. steady'[l] \subseteq Article /\ pc'[l] = "list" /\ answer'[l] # "ok"
    BY <1>1, <1>2
  <2> QED BY <2>1, <2>2 DEF CurrentReach
<1> QED BY <1>6, <1>7, <1>8, <1>9 DEF Listed

\* A compat list takes in a page.
LEMMA CompatLists ==
  ASSUME TypeOK, Routes, NEW l \in Lister, Listed(l), CompatList(l)
  PROVE  Listed(l)'
<1> DEFINE after(page) == {k \in page : cursor[l] = None \/ Newer(cursor[l], k[1])}
<1>1. PICK page \in SUBSET Key :
        /\ PageOf(l, RawSize, page) /\ Continue(l, page)
        /\ kept' = [kept EXCEPT ![l] = Newest(@ \cup Entries(after(page)))]
        /\ IF Clash(l, after(page)) THEN Finish(l, "error")
           ELSE Goto(l, IF further'[l] THEN "list" ELSE "give") /\ UNCHANGED answer
  BY DEF CompatList
<1>2. /\ l \in Request /\ l \in Migrator \cup Lister /\ l \notin Modern /\ pc[l] = "list" /\ answer[l] = "none"
      /\ pc \in [Request -> Stage] /\ answer \in [Request -> Reply] /\ kept \in [Lister -> SUBSET Entry]
      /\ kept[l] \subseteq Entry /\ steady[l] \subseteq Article
  BY Cast DEF CompatList, TypeOK, Routes
<1>3. UNCHANGED <<rows, steady, cursor, given>>
  BY DEF CompatList, table
<1>4. Promised(l) /\ CompatGiven(l) /\ CompatReach(l)
  BY <1>2 DEF Listed
<1>5. after(page) \in SUBSET Present /\ after(page) \in SUBSET Key
  BY <1>1 DEF PageOf, Beyond, Present
<1> DEFINE T == kept[l] \cup Entries(after(page))
<1>6. T \in SUBSET Entry /\ IsFiniteSet(T) /\ kept'[l] = Newest(T)
  <2> HIDE DEF after
  <2>1. Entries(after(page)) \subseteq Entry /\ IsFiniteSet(Entries(after(page)))
    BY <1>5, EntriesType, PagesFinite
  <2>2. IsFiniteSet(T)
    BY <1>4, <2>1, FS_Union DEF Promised
  <2> QED BY <1>1, <1>2, <2>1, <2>2
<1>7. Newest(T) \subseteq T /\ IsFiniteSet(Newest(T))
  <2>1. Newest(T) \subseteq T
    BY DEF Newest
  <2> QED BY <1>6, <2>1, FS_Subset
<1>8. ASSUME NEW x \in T PROVE After(l, x.article)
  <2>1. CASE x \in kept[l]
    BY <1>2, <1>4, <2>1 DEF CompatGiven
  <2>2. CASE x \in Entries(after(page))
    BY <2>2 DEF Entries, After
  <2> QED BY <2>1, <2>2
<1>9. ASSUME NEW k \in page, cursor[l] = None \/ Newer(cursor[l], k[1])
      PROVE  Holds(T, k[1])
  <2>1. [article |-> k[1], version |-> rows[k]] \in Entries(after(page))
    BY <1>9 DEF Entries
  <2> QED BY <2>1 DEF Holds
<1>10. /\ pc'[l] \in {"list", "give", "done"}
       /\ pc'[l] = "done" => answer'[l] = "error"
       /\ pc'[l] # "done" => answer'[l] = "none"
       /\ pc'[l] \in {"list", "give"} /\ further'[l] => pc'[l] = "list"
  <2> HIDE DEF after
  <2>1. CASE Clash(l, after(page))
    BY <1>1, <1>2, <2>1 DEF Finish, Goto
  <2>2. CASE ~Clash(l, after(page))
    BY <1>1, <1>2, <2>2 DEF Goto
  <2> QED BY <2>1, <2>2
<1> HIDE DEF after, T
<1>11. Promised(l)'
  BY <1>3, <1>4, <1>6, <1>7, <1>10 DEF Promised, Exists
<1>12. CompatGiven(l)'
  BY <1>2, <1>3, <1>4, <1>6, <1>7, <1>8 DEF CompatGiven, After
<1>13. CompatReach(l)'
  <2>1. ASSUME NEW a \in steady[l], pc'[l] \in {"list", "give"}, given[l][a] # 1
        PROVE  /\ After(l, a)
               /\ \/ pc'[l] = "list" /\ \E p \in Place : rows[<<a, p>>] # None /\ KeyOrder[<<a, p>>] >= from'[l]
                  \/ Met(kept'[l], a)
    <3>1. /\ After(l, a)
          /\ \/ \E p \in Place : rows[<<a, p>>] # None /\ KeyOrder[<<a, p>>] >= from[l]
             \/ Met(kept[l], a)
      BY <1>2, <1>4, <2>1 DEF CompatReach
    <3>2. a \in Article
      BY <1>2
    <3>3. CASE \E p \in Place : rows[<<a, p>>] # None /\ KeyOrder[<<a, p>>] >= from[l]
      <4>1. PICK p \in Place : rows[<<a, p>>] # None /\ KeyOrder[<<a, p>>] >= from[l]
        BY <3>3
      <4>2. <<a, p>> \in Present
        BY <3>2, <4>1, Keys DEF Present
      <4>3. <<a, p>> \in page \/ (further'[l] /\ KeyOrder[<<a, p>>] >= from'[l])
        BY <1>1, <1>2, <4>1, <4>2, Continued
      <4>4. CASE <<a, p>> \in page
        <5>1. Holds(T, a)
          BY <1>9, <3>1, <4>4 DEF After
        <5>2. Met(T, a)
          BY <5>1 DEF Met
        <5> QED BY <1>6, <3>1, <3>2, <5>2, NewestMet
      <4>5. CASE further'[l] /\ KeyOrder[<<a, p>>] >= from'[l]
        BY <1>10, <2>1, <3>1, <4>1, <4>5
      <4> QED BY <4>3, <4>4, <4>5
    <3>4. CASE Met(kept[l], a)
      <4>1. kept[l] \subseteq T
        BY DEF T
      <4>2. Met(T, a)
        BY <1>6, <3>4, <4>1, MetGrows
      <4> QED BY <1>6, <3>1, <3>2, <4>2, NewestMet
    <3> QED BY <3>1, <3>3, <3>4
  <2> QED BY <1>3, <1>10, <2>1 DEF CompatReach, After
<1> QED BY <1>2, <1>11, <1>12, <1>13 DEF Listed

\* A current-only list takes in a page.
LEMMA CurrentLists ==
  ASSUME TypeOK, Routes, NEW l \in Lister, Listed(l), CurrentList(l)
  PROVE  Listed(l)'
<1> DEFINE room == Limit - Cardinality(kept[l])
           top == IF RawSize < room THEN RawSize ELSE room
           current(page) == {k \in page : k[2] = "current"}
<1>1. PICK page \in SUBSET Key :
        /\ PageOf(l, top, page) /\ Continue(l, page)
        /\ kept' = [kept EXCEPT ![l] = @ \cup Entries(current(page))]
  BY DEF CurrentList
<1>2. /\ l \in Request /\ l \in Migrator \cup Lister /\ l \in Modern /\ pc[l] = "list" /\ answer[l] = "none"
      /\ pc \in [Request -> Stage] /\ kept \in [Lister -> SUBSET Entry]
      /\ kept[l] \subseteq Entry /\ steady[l] \subseteq Article
      /\ from[l] \in Nat /\ from'[l] \in Nat
  <2>1. from' \in [Migrator \cup Lister -> Nat]
    BY <1>1, Continued
  <2> QED BY <2>1, Cast DEF CurrentList, TypeOK, Routes
<1>3. UNCHANGED <<rows, steady, answer, given>>
      /\ pc'[l] = IF further'[l] /\ Cardinality(kept'[l]) < Limit THEN "list" ELSE "give"
  BY <1>2 DEF CurrentList, Goto, table
<1>4. Promised(l) /\ CurrentGiven(l) /\ CurrentReach(l)
  BY <1>2 DEF Listed
<1>5. current(page) \in SUBSET Present /\ current(page) \in SUBSET Key /\ current(page) \subseteq page
  BY <1>1 DEF PageOf, Beyond, Present
<1>6. kept'[l] = kept[l] \cup Entries(current(page))
  BY <1>1, <1>2
<1>7. IsFiniteSet(kept'[l]) /\ Cardinality(kept'[l]) <= Limit /\ Cardinality(kept'[l]) \in Nat
  <2>1. /\ IsFiniteSet(page) /\ IsFiniteSet(current(page)) /\ IsFiniteSet(Entries(current(page)))
        /\ Cardinality(Entries(current(page))) <= Cardinality(current(page))
    <3> HIDE DEF current
    <3> QED BY <1>1, <1>5, PagesFinite
  <2>2. Cardinality(current(page)) <= Cardinality(page)
    BY <1>5, <2>1, FS_Subset
  <2> HIDE DEF current
  <2>3. IsFiniteSet(kept[l]) /\ Cardinality(kept[l]) \in Nat /\ Cardinality(kept[l]) <= Limit
    BY <1>4, FS_CardinalityType DEF Promised, CurrentGiven
  <2>4. /\ Cardinality(page) \in Nat /\ Cardinality(current(page)) \in Nat
        /\ Cardinality(Entries(current(page))) \in Nat
    BY <2>1, FS_CardinalityType
  <2>5. Cardinality(page) <= top
    BY <1>1 DEF PageOf
  <2>6. top <= Limit - Cardinality(kept[l])
    BY <2>3, NumberAssumption
  <2> HIDE DEF top
  <2>7. IsFiniteSet(kept[l] \cap Entries(current(page)))
    BY <2>3, FS_Subset
  <2>8. /\ IsFiniteSet(kept'[l]) /\ Cardinality(kept[l] \cap Entries(current(page))) \in Nat
        /\ Cardinality(kept'[l]) = Cardinality(kept[l]) + Cardinality(Entries(current(page)))
                                   - Cardinality(kept[l] \cap Entries(current(page)))
    BY <1>6, <2>1, <2>3, <2>7, FS_Union, FS_CardinalityType
  <2>9. top \in Int
    BY <2>3, NumberAssumption DEF top
  <2> QED BY <2>1, <2>2, <2>3, <2>4, <2>5, <2>6, <2>8, <2>9, FS_CardinalityType, NumberAssumption
<1>8. /\ \A k \in page : k \in Present /\ KeyOrder[k] >= from[l]
      /\ from'[l] >= from[l]
      /\ further'[l] => \A k \in page : KeyOrder[k] < from'[l]
  <2> HIDE DEF top
  <2> QED BY <1>1, PageScanned
<1>9. ASSUME NEW x \in Entries(current(page))
      PROVE  \E k \in page : /\ k = <<x.article, "current">> /\ x.article \in Article
                             /\ Rank(x.article) = KeyOrder[k] /\ KeyOrder[k] \in Nat
  <2>1. PICK k \in current(page) : x = [article |-> k[1], version |-> rows[k]]
    BY DEF Entries
  <2>2. k \in page /\ k \in Key /\ k[2] = "current" /\ x.article = k[1]
    BY <1>5, <2>1
  <2> QED BY <2>2, Keys DEF Rank
<1> HIDE DEF current, top
<1>10. \A x \in kept[l] : x.article \in Article
  BY <1>2 DEF Entry
<1>11. Promised(l)'
  BY <1>3, <1>4, <1>7 DEF Promised, Exists
<1>12. CurrentGiven(l)'
  <2>1. \A a \in Article : Rank(a) \in Nat
    BY Ranks
  <2>2. \A a \in Article : given[l][a] = 1 => Rank(a) < from[l] /\ Rank(a) < from'[l]
    BY <1>2, <1>4, <1>8, <2>1 DEF CurrentGiven
  <2>3. ASSUME NEW x \in kept'[l], further'[l] PROVE Rank(x.article) < from'[l]
    <3>1. CASE x \in kept[l]
      BY <1>2, <1>4, <1>8, <1>10, <2>1, <3>1 DEF CurrentGiven
    <3>2. CASE x \in Entries(current(page))
      BY <1>8, <1>9, <2>3, <3>2
    <3> QED BY <1>6, <3>1, <3>2
  <2>4. ASSUME NEW x \in kept'[l], NEW a \in Article, given[l][a] = 1 PROVE Rank(a) < Rank(x.article)
    <3>1. CASE x \in kept[l]
      BY <1>2, <1>4, <2>4, <3>1 DEF CurrentGiven
    <3>2. CASE x \in Entries(current(page))
      <4>1. PICK k \in page : Rank(x.article) = KeyOrder[k] /\ KeyOrder[k] \in Nat
        BY <1>9, <3>2
      <4>2. KeyOrder[k] >= from[l] /\ Rank(a) < from[l]
        BY <1>8, <2>2, <2>4
      <4> QED BY <1>2, <2>1, <4>1, <4>2
    <3> QED BY <1>6, <3>1, <3>2
  <2> QED BY <1>3, <1>7, <2>2, <2>3, <2>4 DEF CurrentGiven
<1>13. CurrentReach(l)'
  <2> SUFFICES ASSUME NEW a \in steady[l]
               PROVE  IF New(a) = None THEN given[l][a] = 0 /\ ~Holds(kept'[l], a)
                      ELSE pc'[l] \in {"list", "give"} /\ given[l][a] # 1 =>
                             \/ Holds(kept'[l], a)
                             \/ (pc'[l] = "list" \/ further'[l]) /\ Rank(a) >= from'[l]
    BY <1>2, <1>3 DEF CurrentReach, New
  <2>1. a \in Article /\ <<a, "current">> \in Key
    BY <1>2, Keys DEF Place
  <2>2. CASE New(a) = None
    <3>1. given[l][a] = 0 /\ ~Holds(kept[l], a)
      BY <1>4, <2>2 DEF CurrentReach
    <3>2. ASSUME NEW x \in Entries(current(page)) PROVE x.article # a
      <4>1. PICK k \in page : k = <<x.article, "current">>
        BY <1>9
      <4>2. rows[<<x.article, "current">>] # None
        BY <1>8, <4>1 DEF Present
      <4> QED BY <2>2, <4>2 DEF New
    <3> QED BY <1>6, <2>2, <3>1, <3>2 DEF Holds
  <2>3. CASE New(a) # None /\ given[l][a] # 1
    <3>1. Holds(kept[l], a) \/ Rank(a) >= from[l]
      BY <1>2, <1>4, <2>3 DEF CurrentReach
    <3>2. CASE Holds(kept[l], a)
      BY <1>6, <2>3, <3>2 DEF Holds
    <3>3. CASE Rank(a) >= from[l]
      <4>1. <<a, "current">> \in Present /\ KeyOrder[<<a, "current">>] >= from[l]
        BY <2>1, <2>3, <3>3 DEF Present, New, Rank
      <4>2. <<a, "current">> \in page \/ (further'[l] /\ KeyOrder[<<a, "current">>] >= from'[l])
        BY <1>1, <1>2, <4>1, Continued
      <4>3. CASE <<a, "current">> \in page
        <5>1. [article |-> a, version |-> rows[<<a, "current">>]] \in Entries(current(page))
          BY <4>3 DEF Entries, current
        <5>2. Holds(kept'[l], a)
          BY <1>6, <5>1 DEF Holds
        <5> QED BY <2>3, <5>2
      <4>4. CASE further'[l] /\ KeyOrder[<<a, "current">>] >= from'[l]
        BY <2>3, <4>4 DEF Rank
      <4> QED BY <4>2, <4>3, <4>4
    <3> QED BY <3>1, <3>2, <3>3
  <2> QED BY <2>2, <2>3
<1> QED BY <1>2, <1>11, <1>12, <1>13 DEF Listed

\* The articles of a page: those kept with less than a page of newer ones.
LEMMA PageItems ==
  ASSUME TypeOK, NEW l \in Lister, Promised(l)
  PROVE  /\ Items(l) \subseteq Article
         /\ \A a \in Items(l) : Holds(kept[l], a) /\ Cardinality(NewerIn(kept[l], a)) < Limit
         /\ \A a \in Article : Holds(kept[l], a) /\ Cardinality(NewerIn(kept[l], a)) < Limit => a \in Items(l)
         /\ \A a \in Article : /\ IsFiniteSet(NewerIn(kept[l], a)) /\ Cardinality(NewerIn(kept[l], a)) \in Nat
                               /\ Cardinality(NewerIn(kept[l], a)) <= Cardinality(kept[l])
                               /\ Holds(kept[l], a) => Cardinality(NewerIn(kept[l], a)) < Cardinality(kept[l])
         /\ Cardinality(kept[l]) \in Nat
<1>1. IsFiniteSet(kept[l]) /\ Cardinality(kept[l]) \in Nat
  BY FS_CardinalityType DEF Promised
<1>2. \A x \in kept[l] : x.article \in Article
  BY DEF TypeOK, Entry
<1>3. \A a : a \in Items(l) <=> \E x \in kept[l] : x.article = a /\ Cardinality(NewerIn(kept[l], x.article)) < Limit
  BY DEF Items, NewerIn
<1>4. ASSUME NEW a \in Article
      PROVE  /\ IsFiniteSet(NewerIn(kept[l], a)) /\ Cardinality(NewerIn(kept[l], a)) \in Nat
             /\ Cardinality(NewerIn(kept[l], a)) <= Cardinality(kept[l])
             /\ Holds(kept[l], a) => Cardinality(NewerIn(kept[l], a)) < Cardinality(kept[l])
  <2>1. NewerIn(kept[l], a) \subseteq kept[l]
    BY DEF NewerIn
  <2>2. IsFiniteSet(NewerIn(kept[l], a)) /\ Cardinality(NewerIn(kept[l], a)) <= Cardinality(kept[l])
        /\ Cardinality(NewerIn(kept[l], a)) \in Nat
    BY <1>1, <2>1, FS_Subset, FS_CardinalityType
  <2>3. ASSUME Holds(kept[l], a)
        PROVE  Cardinality(NewerIn(kept[l], a)) < Cardinality(kept[l])
    <3>1. PICK x \in kept[l] : x.article = a
      BY <2>3 DEF Holds
    <3>2. Rank(a) \in Nat /\ (Newer(a, a) <=> Rank(a) < Rank(a))
      BY Ranks
    <3>3. NewerIn(kept[l], a) # kept[l]
      BY <3>1, <3>2 DEF NewerIn
    <3> QED BY <1>1, <2>1, <2>2, <3>3, FS_Subset
  <2> QED BY <2>2, <2>3
<1> QED BY <1>1, <1>2, <1>3, <1>4 DEF Holds

\* A page is given.
LEMMA Given ==
  ASSUME TypeOK, Routes, NEW l \in Lister, Give(l)
  PROVE  /\ UNCHANGED <<rows, steady>> /\ further'[l] = further[l] /\ kept'[l] = {} /\ pc[l] = "give"
         /\ answer[l] = "none"
         /\ \A a \in Article : given'[l][a] = IF a \in Items(l) THEN given[l][a] + 1 ELSE given[l][a]
         /\ More(l) => /\ pc'[l] = "list" /\ answer'[l] = "none"
                       /\ cursor'[l] \in Items(l) /\ \A a \in Items(l) : ~Newer(cursor'[l], a)
                       /\ from'[l] = IF l \in Modern THEN Rank(cursor'[l]) + 1 ELSE 0
         /\ ~More(l) => pc'[l] = "done"
<1>1. /\ l \in Request /\ l \in Migrator \cup Lister /\ pc[l] = "give" /\ answer[l] = "none"
      /\ pc \in [Request -> Stage] /\ kept \in [Lister -> SUBSET Entry] /\ given \in [Lister -> [Article -> Nat]]
      /\ cursor \in [Lister -> Article \cup {None}] /\ from \in [Migrator \cup Lister -> Nat]
  BY Cast DEF Give, TypeOK, Routes
<1>2. UNCHANGED <<rows, steady, further>> /\ kept'[l] = {}
  BY <1>1 DEF Give, table
<1>3. \A a \in Article : given'[l][a] = IF a \in Items(l) THEN given[l][a] + 1 ELSE given[l][a]
  BY <1>1 DEF Give
<1>4. ASSUME More(l)
      PROVE  /\ pc'[l] = "list" /\ answer'[l] = "none"
             /\ cursor'[l] \in Items(l) /\ \A a \in Items(l) : ~Newer(cursor'[l], a)
             /\ from'[l] = IF l \in Modern THEN Rank(cursor'[l]) + 1 ELSE 0
  <2>1. PICK last \in Items(l) :
          /\ \A a \in Items(l) : ~Newer(last, a)
          /\ cursor' = [cursor EXCEPT ![l] = last]
          /\ from' = [from EXCEPT ![l] = IF l \in Modern THEN KeyOrder[<<last, "current">>] + 1 ELSE 0]
          /\ Goto(l, "list") /\ UNCHANGED answer
    BY <1>4 DEF Give
  <2>2. cursor'[l] = last /\ pc'[l] = "list" /\ answer'[l] = "none"
    BY <1>1, <2>1 DEF Goto
  <2>3. from'[l] = IF l \in Modern THEN Rank(last) + 1 ELSE 0
    BY <1>1, <2>1 DEF Rank
  <2> QED BY <2>1, <2>2, <2>3
<1>5. ASSUME ~More(l) PROVE pc'[l] = "done"
  BY <1>1, <1>5 DEF Give, Finish, Goto
<1> QED BY <1>1, <1>2, <1>3, <1>4, <1>5

\* A compat list gives a page.
LEMMA CompatGives ==
  ASSUME TypeOK, Routes, NEW l \in Lister \ Modern, Listed(l), Give(l)
  PROVE  Listed(l)'
<1>0. Promised(l) /\ CompatGiven(l) /\ CompatReach(l)
  BY DEF Listed
<1>1. /\ UNCHANGED <<rows, steady>> /\ kept'[l] = {} /\ pc[l] = "give"
      /\ \A a \in Article : given'[l][a] = IF a \in Items(l) THEN given[l][a] + 1 ELSE given[l][a]
      /\ More(l) => /\ pc'[l] = "list" /\ answer'[l] = "none"
                    /\ cursor'[l] \in Items(l) /\ \A a \in Items(l) : ~Newer(cursor'[l], a)
                    /\ from'[l] = 0
      /\ ~More(l) => pc'[l] = "done"
      /\ More(l) <=> Cardinality(kept[l]) > Limit
  BY Given DEF More
<1>2. /\ Items(l) \subseteq Article
      /\ \A a \in Items(l) : Holds(kept[l], a) /\ Cardinality(NewerIn(kept[l], a)) < Limit
      /\ \A a \in Article : Holds(kept[l], a) /\ Cardinality(NewerIn(kept[l], a)) < Limit => a \in Items(l)
      /\ \A a \in Article : /\ IsFiniteSet(NewerIn(kept[l], a)) /\ Cardinality(NewerIn(kept[l], a)) \in Nat
                            /\ Cardinality(NewerIn(kept[l], a)) <= Cardinality(kept[l])
                            /\ Holds(kept[l], a) => Cardinality(NewerIn(kept[l], a)) < Cardinality(kept[l])
      /\ Cardinality(kept[l]) \in Nat
  BY <1>0, PageItems
<1>3. \A a \in Article : given[l][a] \in {0, 1} /\ (given[l][a] = 1 => ~After(l, a))
  BY <1>0, <1>1 DEF Promised, CompatGiven
<1>4. \A a \in Items(l) : After(l, a) /\ given[l][a] = 0
  <2>1. ASSUME NEW a \in Items(l) PROVE After(l, a)
    <3>1. PICK x \in kept[l] : x.article = a
      BY <1>2 DEF Holds
    <3> QED BY <1>0, <1>1, <3>1 DEF CompatGiven
  <2> QED BY <1>2, <1>3, <2>1
<1>5. \A a \in Article : given'[l][a] \in {0, 1} /\ (given'[l][a] = 1 <=> a \in Items(l) \/ given[l][a] = 1)
  BY <1>1, <1>3, <1>4
<1>6. Promised(l)'
  <2>1. IsFiniteSet({})
    BY FS_EmptySet
  <2> QED BY <1>0, <1>1, <1>5, <2>1 DEF Promised, Exists
<1>7. CASE More(l)
  <2>1. PICK last \in Items(l) : last = cursor'[l]
    BY <1>1, <1>7
  <2>2. last \in Article /\ last # None /\ After(l, last) /\ \A a \in Items(l) : ~Newer(last, a)
    BY <1>1, <1>2, <1>4, <1>7, <2>1, Cast
  <2>3. \A a \in Article : After(l, a)' <=> Newer(last, a)
    BY <2>1, <2>2 DEF After
  <2>4. ASSUME NEW a \in Article, given'[l][a] = 1 PROVE ~Newer(last, a)
    <3>1. CASE a \in Items(l)
      BY <2>2, <3>1
    <3>2. CASE a \notin Items(l)
      <4>1. ~After(l, a)
        BY <1>3, <1>5, <2>4, <3>2
      <4>2. cursor[l] \in Article /\ ~Newer(cursor[l], a) /\ Newer(cursor[l], last)
        BY <2>2, <4>1 DEF After, TypeOK
      <4>3. PICK c \in Article : c = cursor[l]
        BY <4>2
      <4>4. /\ Rank(c) \in Nat /\ Rank(a) \in Nat /\ Rank(last) \in Nat
            /\ ~(Rank(c) < Rank(a)) /\ Rank(c) < Rank(last)
        BY <2>2, <4>2, <4>3, Ranks
      <4>5. ~(Rank(last) < Rank(a))
        BY <4>4
      <4> QED BY <2>2, <4>5, Ranks
    <3> QED BY <3>1, <3>2
  <2>5. CompatGiven(l)'
    BY <1>1, <2>3, <2>4 DEF CompatGiven
  <2>6. ASSUME NEW a \in steady[l], given'[l][a] # 1
        PROVE  Newer(last, a) /\ \E p \in Place : rows[<<a, p>>] # None /\ KeyOrder[<<a, p>>] >= 0
    <3>0. a \in Article /\ Exists(a)
      BY <1>0 DEF TypeOK, Promised
    <3>1. a \notin Items(l) /\ given[l][a] # 1
      BY <1>5, <2>6, <3>0
    <3>2. Met(kept[l], a)
      BY <1>0, <1>1, <3>1 DEF CompatReach
    <3>3. Cardinality(NewerIn(kept[l], a)) >= Limit
      BY <1>2, <3>0, <3>1, <3>2, NumberAssumption DEF Met
    <3>4. Newer(last, a)
      <4>1. SUFFICES ASSUME ~Newer(last, a) PROVE FALSE
        OBVIOUS
      <4>2. Rank(a) \in Nat /\ Rank(last) \in Nat /\ ~(Rank(last) < Rank(a))
        BY <2>2, <3>0, <4>1, Ranks
      <4>3. ASSUME NEW x \in NewerIn(kept[l], a) PROVE x \in NewerIn(kept[l], last)
        <5>1. x \in kept[l] /\ x.article \in Article /\ Newer(x.article, a)
          BY DEF NewerIn, TypeOK, Entry
        <5>2. Rank(x.article) \in Nat /\ Rank(x.article) < Rank(a)
          BY <3>0, <5>1, Ranks
        <5>3. Rank(x.article) < Rank(last)
          BY <4>2, <5>2
        <5> QED BY <2>2, <5>1, <5>3, Ranks DEF NewerIn
      <4>4. Cardinality(NewerIn(kept[l], a)) <= Cardinality(NewerIn(kept[l], last))
        BY <1>2, <2>2, <4>3, FS_Subset
      <4>5. /\ Cardinality(NewerIn(kept[l], last)) < Limit
            /\ Cardinality(NewerIn(kept[l], last)) \in Nat /\ Cardinality(NewerIn(kept[l], a)) \in Nat
        BY <1>2, <2>2, <3>0
      <4> QED BY <3>3, <4>4, <4>5, NumberAssumption
    <3>5. \E p \in Place : rows[<<a, p>>] # None /\ KeyOrder[<<a, p>>] >= 0
      BY <3>0, Keys DEF Exists
    <3> QED BY <3>4, <3>5
  <2>7. CompatReach(l)'
    <3>1. steady[l] \subseteq Article
      BY DEF TypeOK
    <3> QED BY <1>1, <1>7, <2>3, <2>6, <3>1 DEF CompatReach
  <2> QED BY <1>6, <2>5, <2>7 DEF Listed
<1>8. CASE ~More(l)
  <2>1. pc'[l] = "done"
    BY <1>1, <1>8
  <2>2. ASSUME NEW a \in steady[l], given'[l][a] # 1 PROVE FALSE
    <3>0. a \in Article
      BY DEF TypeOK
    <3>1. a \notin Items(l) /\ given[l][a] # 1
      BY <1>5, <2>2, <3>0
    <3>2. Met(kept[l], a)
      BY <1>0, <1>1, <3>1 DEF CompatReach
    <3>3. Cardinality(kept[l]) <= Limit
      BY <1>1, <1>2, <1>8, NumberAssumption
    <3>4. Holds(kept[l], a)
      BY <1>2, <3>0, <3>2, <3>3, NumberAssumption DEF Met
    <3>5. Cardinality(NewerIn(kept[l], a)) < Limit
      BY <1>2, <3>0, <3>3, <3>4, NumberAssumption
    <3> QED BY <1>2, <3>0, <3>1, <3>4, <3>5
  <2>3. CompatGiven(l)'
    BY <2>1 DEF CompatGiven
  <2>4. CompatReach(l)'
    BY <1>1, <2>1, <2>2 DEF CompatReach
  <2> QED BY <1>6, <2>3, <2>4 DEF Listed
<1> QED BY <1>7, <1>8

\* A current-only list gives a page.
LEMMA CurrentGives ==
  ASSUME TypeOK, Routes, NEW l \in Lister \cap Modern, Listed(l), Give(l)
  PROVE  Listed(l)'
<1>0. Promised(l) /\ CurrentGiven(l) /\ CurrentReach(l)
  BY DEF Listed
<1>1. /\ UNCHANGED <<rows, steady>> /\ further'[l] = further[l] /\ kept'[l] = {} /\ pc[l] = "give"
      /\ \A a \in Article : given'[l][a] = IF a \in Items(l) THEN given[l][a] + 1 ELSE given[l][a]
      /\ further[l] => /\ pc'[l] = "list" /\ answer'[l] = "none"
                       /\ cursor'[l] \in Items(l) /\ \A a \in Items(l) : ~Newer(cursor'[l], a)
                       /\ from'[l] = Rank(cursor'[l]) + 1
      /\ ~further[l] => pc'[l] = "done"
  BY Given DEF More
<1>2. Items(l) \subseteq Article /\ \A a \in Article : a \in Items(l) <=> Holds(kept[l], a)
  <2>1. /\ Items(l) \subseteq Article
        /\ \A a \in Items(l) : Holds(kept[l], a)
        /\ \A a \in Article : Holds(kept[l], a) /\ Cardinality(NewerIn(kept[l], a)) < Limit => a \in Items(l)
        /\ \A a \in Article : /\ Cardinality(NewerIn(kept[l], a)) \in Nat
                              /\ Holds(kept[l], a) => Cardinality(NewerIn(kept[l], a)) < Cardinality(kept[l])
        /\ Cardinality(kept[l]) \in Nat
    BY <1>0, PageItems
  <2>2. Cardinality(kept[l]) <= Limit
    BY <1>0 DEF CurrentGiven
  <2> QED BY <2>1, <2>2, NumberAssumption
<1>3. \A a \in Article : Rank(a) \in Nat
  BY Ranks
<1>4. ASSUME NEW a \in Items(l), NEW b \in Article, given[l][b] = 1
      PROVE  Rank(b) < Rank(a)
  <2>1. PICK x \in kept[l] : x.article = a
    BY <1>2 DEF Holds
  <2> QED BY <1>0, <1>1, <1>4, <2>1 DEF CurrentGiven
<1>5. \A a \in Article : given'[l][a] \in {0, 1} /\ (given'[l][a] = 1 <=> a \in Items(l) \/ given[l][a] = 1)
  <2>1. \A a \in Article : given[l][a] \in {0, 1}
    BY <1>0 DEF Promised
  <2>2. \A a \in Items(l) : given[l][a] # 1
    BY <1>2, <1>3, <1>4
  <2> QED BY <1>1, <1>2, <2>1, <2>2
<1>6. Promised(l)'
  <2>1. IsFiniteSet({})
    BY FS_EmptySet
  <2> QED BY <1>0, <1>1, <1>5, <2>1 DEF Promised, Exists
<1>7. IsFiniteSet({}) /\ Cardinality({}) = 0
  BY FS_EmptySet
<1>8. ASSUME NEW a \in steady[l]
      PROVE  /\ a \in Article
             /\ New(a) = None => given'[l][a] = 0
             /\ New(a) # None /\ given'[l][a] # 1 => further[l] /\ Rank(a) >= from[l] /\ ~Holds(kept[l], a)
  <2>1. a \in Article
    BY DEF TypeOK
  <2>2. ASSUME New(a) = None PROVE given'[l][a] = 0
    BY <1>0, <1>1, <1>2, <2>1, <2>2 DEF CurrentReach
  <2>3. ASSUME New(a) # None, given'[l][a] # 1
        PROVE  further[l] /\ Rank(a) >= from[l] /\ ~Holds(kept[l], a)
    BY <1>0, <1>1, <1>2, <1>5, <2>1, <2>3 DEF CurrentReach
  <2> QED BY <2>1, <2>2, <2>3
<1>9. CASE further[l]
  <2>1. PICK last \in Items(l) : last = cursor'[l]
    BY <1>1, <1>9
  <2>2. /\ last \in Article /\ Rank(last) \in Nat /\ from'[l] = Rank(last) + 1
        /\ \A a \in Items(l) : ~Newer(last, a)
    BY <1>1, <1>2, <1>3, <1>9, <2>1
  <2>3. ASSUME NEW a \in Article, given'[l][a] = 1 PROVE Rank(a) < from'[l]
    <3>1. CASE a \in Items(l)
      <4>1. ~(Rank(last) < Rank(a))
        BY <2>2, <3>1, Ranks
      <4> QED BY <1>3, <2>2, <4>1
    <3>2. CASE given[l][a] = 1
      <4>1. Rank(a) < Rank(last)
        BY <1>4, <3>2
      <4> QED BY <1>3, <2>2, <4>1
    <3> QED BY <1>5, <2>3, <3>1, <3>2
  <2>4. CurrentGiven(l)'
    BY <1>1, <1>7, <1>9, <2>3, NumberAssumption DEF CurrentGiven
  <2>5. ASSUME NEW a \in steady[l], Rank(a) >= from[l] PROVE Rank(a) >= from'[l]
    <3>1. PICK x \in kept[l] : x.article = last
      BY <1>2, <2>1, <2>2 DEF Holds
    <3>2. Rank(last) < from[l] /\ from[l] \in Nat /\ Rank(a) \in Nat
      BY <1>0, <1>1, <1>3, <1>8, <1>9, <3>1 DEF CurrentGiven, TypeOK
    <3> QED BY <2>2, <2>5, <3>2
  <2>6. CurrentReach(l)'
    <3>1. pc'[l] = "list" /\ answer'[l] = "none" /\ kept'[l] = {}
      BY <1>1, <1>9
    <3> QED BY <1>1, <1>8, <2>5, <3>1 DEF CurrentReach, Holds, New
  <2> QED BY <1>6, <2>4, <2>6 DEF Listed
<1>10. CASE ~further[l]
  <2>1. pc'[l] = "done"
    BY <1>1, <1>10
  <2>2. CurrentGiven(l)'
    BY <1>1, <1>7, <2>1, NumberAssumption DEF CurrentGiven
  <2>3. CurrentReach(l)'
    BY <1>1, <1>8, <1>10, <2>1 DEF CurrentReach, Holds, New
  <2> QED BY <1>6, <2>2, <2>3 DEF Listed
<1> QED BY <1>9, <1>10

LEMMA ListInit == Init => ListInv
<1> SUFFICES ASSUME Init, NEW l \in Lister PROVE Listed(l)
  BY DEF ListInv
<1>1. /\ l \in Request /\ l \in Migrator \cup Lister
      /\ pc[l] = "idle" /\ answer[l] = "none" /\ from[l] = 0 /\ cursor[l] = None /\ kept[l] = {} /\ steady[l] = {}
      /\ \A a \in Article : given[l][a] = 0
  BY Cast DEF Init
<1>2. IsFiniteSet({}) /\ Cardinality({}) = 0
  BY FS_EmptySet
<1>3. Promised(l)
  BY <1>1, <1>2 DEF Promised
<1>4. CompatGiven(l) /\ CompatReach(l)
  BY <1>1 DEF CompatGiven, CompatReach
<1>5. CurrentGiven(l) /\ CurrentReach(l)
  BY <1>1, <1>2, NumberAssumption DEF CurrentGiven, CurrentReach
<1> QED BY <1>3, <1>4, <1>5 DEF Listed

LEMMA ListStep ==
  ASSUME TypeOK, Routes, ListInv, [Next]_vars
  PROVE  ListInv'
<1> SUFFICES ASSUME NEW l \in Lister PROVE Listed(l)'
  BY DEF ListInv
<1>1. Listed(l)
  BY DEF ListInv
<1>2. CASE BeginList(l)
  BY <1>1, <1>2, ListBegins
<1>3. CASE CompatList(l)
  BY <1>1, <1>3, CompatLists
<1>4. CASE CurrentList(l)
  BY <1>1, <1>4, CurrentLists
<1>5. CASE Give(l)
  BY <1>1, <1>5, CompatGives, CurrentGives
<1>6. CASE Rests(l) /\ Untouched(l)
  BY <1>1, <1>6, ListRests
<1> QED BY <1>2, <1>3, <1>4, <1>5, <1>6, ListsMove

\* A list that succeeds has given every untouched article once, and none twice,
\* however rows are moved and saved between its pages.
THEOREM ListsCorrect == Spec => []ListsExact
<1>1. Init => ListInv
  BY ListInit
<1>2. MigrationInv /\ ListInv /\ [Next]_vars => ListInv'
  BY ListStep DEF MigrationInv
<1>3. MigrationInv /\ ListInv => ListsExact
  <2> SUFFICES ASSUME MigrationInv, ListInv, NEW l \in Lister, answer[l] = "ok", NEW a \in Article
               PROVE  /\ given[l][a] <= 1
                      /\ a \in steady[l] => given[l][a] = IF l \in Modern /\ New(a) = None THEN 0 ELSE 1
    BY DEF ListsExact
  <2>1. Listed(l)
    BY DEF ListInv
  <2>2. given[l][a] \in {0, 1}
    BY <2>1 DEF Listed, Promised
  <2>3. CASE l \in Modern
    BY <2>1, <2>2, <2>3 DEF Listed, CurrentReach
  <2>4. CASE l \notin Modern
    BY <2>1, <2>2, <2>4 DEF Listed, CompatReach
  <2> QED BY <2>3, <2>4
<1> QED BY <1>1, <1>2, <1>3, MigrationInvariant, PTL DEF Spec
=============================================================================
